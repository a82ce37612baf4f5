------------------------ MODULE IdentityLinkingProofs -------------------------
(***************************************************************************)
(* Theorems about IdentityLinking, for any number of users, identities,    *)
(* tokens and concurrent requests.                                         *)
(***************************************************************************)
EXTENDS IdentityLinking, TLAPS

Linking == {"link_account", "link_check", "link_insert", "link_delete", "link_session"}
Proved == {"link_check", "link_insert", "link_delete", "link_session"}

\* What a request relies on at each of its statements: its identity came with its
\* email from the provider; past the password check it acts for the user with that
\* email, who has a password; and a callback past its lookup holds the row's user.
Relies(r) ==
  /\ pc[r] # "idle" =>
       /\ loc[r].ident \in Idents /\ loc[r].email \in Emails
       /\ <<loc[r].ident, loc[r].email>> \in vouched
  /\ pc[r] \in Linking => loc[r].token \in Tokens
  /\ pc[r] \in Proved => loc[r].user = loc[r].email /\ loc[r].user \in accounts
  /\ pc[r] = "callback_session" =>
       loc[r].user \in Emails /\ identities[loc[r].ident] = loc[r].user

RequestInv == \A r \in Requests : Relies(r)

\* Every pending link comes from a callback: the provider has confirmed its email.
PendingInv ==
  \A t \in Tokens : pending[t] # None => <<pending[t].ident, pending[t].email>> \in vouched

IInv == TypeOK /\ RequestInv /\ PendingInv /\ CallbackSessionsLinked

-------------------------------------------------------------------------------

LEMMA InitIInv == Init => IInv
BY LinkingAssumption
   DEF Init, IInv, TypeOK, NoLocals, Locals, PCs, RequestInv, Relies, PendingInv,
       CallbackSessionsLinked, Linking, Proved

\* Every step preserves the types.
LEMMA StepTypeOK == IInv /\ [Next]_vars => TypeOK'
<1> SUFFICES ASSUME IInv, [Next]_vars PROVE TypeOK'
  OBVIOUS
<1> USE LinkingAssumption
    DEF IInv, TypeOK, RequestInv, Relies, PCs, Locals, NoLocals, PendingLinks,
        Sessions, goto, done, tables, Linking, Proved
<1>1. ASSUME NEW e \in Emails, Join(e) \/ Enrol(e) PROVE TypeOK'
  BY <1>1 DEF Join, Enrol
<1>2. ASSUME NEW r \in Requests, NEW i \in Idents, NEW e \in Emails, Callback(r, i, e)
      PROVE TypeOK'
  <2>1. [NoLocals EXCEPT !.ident = i, !.email = e] \in Locals
    OBVIOUS
  <2>2. pc' \in [Requests -> PCs] /\ loc' \in [Requests -> Locals]
    BY <1>2, <2>1 DEF Callback
  <2>3. vouched' \subseteq Idents \X Emails
    BY <1>2 DEF Callback
  <2>4. QED
    BY <1>2, <2>2, <2>3 DEF Callback
<1>3. ASSUME NEW r \in Requests, NEW t \in Tokens, LinkPending(r, t) PROVE TypeOK'
  BY <1>3 DEF LinkPending
<1>4. ASSUME NEW r \in Requests, Step(r) PROVE TypeOK'
  <2>1. CASE CallbackIdentity(r)
    <3>1. loc[r] \in Locals /\ loc[r].ident \in Idents
      BY <2>1 DEF CallbackIdentity
    <3>2. identities[loc[r].ident] \in Emails \cup {None}
      BY <3>1
    <3>3. [loc[r] EXCEPT !.user = identities[loc[r].ident]] \in Locals
      BY <3>1, <3>2
    <3>4. pc' \in [Requests -> PCs] /\ loc' \in [Requests -> Locals]
      BY <2>1, <3>1, <3>3 DEF CallbackIdentity
    <3>5. QED
      BY <2>1, <3>4 DEF CallbackIdentity
  <2>2. CASE CallbackEmail(r)
    <3>1. loc[r].ident \in Idents /\ loc[r].email \in Emails
      BY <2>2 DEF CallbackEmail
    <3>2. [ident |-> loc[r].ident, email |-> loc[r].email, expired |-> FALSE] \in PendingLinks
      BY <3>1
    <3>3. pending' \in [Tokens -> PendingLinks \cup {None}] /\ drawn' \subseteq Tokens
      <4>1. CASE UNCHANGED <<pending, drawn>>
        BY <4>1
      <4>2. ASSUME NEW t \in Tokens, drawn' = drawn \cup {t},
                   pending' = [pending EXCEPT ![t] =
                     [ident |-> loc[r].ident, email |-> loc[r].email, expired |-> FALSE]]
            PROVE  pending' \in [Tokens -> PendingLinks \cup {None}] /\ drawn' \subseteq Tokens
        BY <3>2, <4>2
      <4>3. QED
        BY <2>2, <4>1, <4>2 DEF CallbackEmail
    <3>4. NoLocals \in Locals
      OBVIOUS
    <3>5. pc' \in [Requests -> PCs] /\ loc' \in [Requests -> Locals]
      BY <2>2, <3>4 DEF CallbackEmail
    <3>6. QED
      BY <2>2, <3>3, <3>5 DEF CallbackEmail
  <2>3. CASE LinkAccount(r)
    <3>1. ASSUME NEW u \in accounts PROVE [loc[r] EXCEPT !.user = u] \in Locals
      OBVIOUS
    <3>2. NoLocals \in Locals
      OBVIOUS
    <3>3. pc' \in [Requests -> PCs] /\ loc' \in [Requests -> Locals]
      BY <2>3, <3>1, <3>2 DEF LinkAccount
    <3>4. QED
      BY <2>3, <3>3 DEF LinkAccount
  <2>4. CASE LinkCheck(r)
    <3>1. loc[r] \in Locals /\ NoLocals \in Locals
      OBVIOUS
    <3>2. pc' \in [Requests -> PCs] /\ loc' \in [Requests -> Locals]
      BY <2>4, <3>1 DEF LinkCheck
    <3>3. QED
      BY <2>4, <3>2 DEF LinkCheck
  <2>5. CASE LinkIdentity(r)
    <3>1. loc[r].ident \in Idents /\ loc[r].user \in Emails
      BY <2>5 DEF LinkIdentity
    <3>2. identities' \in [Idents -> Emails \cup {None}]
      BY <2>5, <3>1 DEF LinkIdentity
    <3>3. pc' \in [Requests -> PCs] /\ loc' \in [Requests -> Locals]
      BY <2>5 DEF LinkIdentity
    <3>4. QED
      BY <2>5, <3>2, <3>3 DEF LinkIdentity
  <2>6. CASE LinkDelete(r)
    BY <2>6 DEF LinkDelete
  <2>7. CASE StartSession(r)
    <3>1. loc[r].ident \in Idents /\ loc[r].user \in Emails
      BY <2>7 DEF StartSession
    <3>2. sessions' \subseteq Sessions
      BY <2>7, <3>1 DEF StartSession
    <3>3. NoLocals \in Locals
      OBVIOUS
    <3>4. pc' \in [Requests -> PCs] /\ loc' \in [Requests -> Locals]
      BY <2>7, <3>3 DEF StartSession
    <3>5. QED
      BY <2>7, <3>2, <3>4 DEF StartSession
  <2>8. CASE Abort(r)
    BY <2>8 DEF Abort
  <2>9. QED
    BY <1>4, <2>1, <2>2, <2>3, <2>4, <2>5, <2>6, <2>7, <2>8 DEF Step
<1>5. ASSUME NEW t \in Tokens, Expire(t) PROVE TypeOK'
  BY <1>5 DEF Expire
<1>6. CASE Restart
  BY <1>6 DEF Restart
<1>7. CASE UNCHANGED vars
  BY <1>7 DEF vars
<1>8. QED
  BY <1>1, <1>2, <1>3, <1>4, <1>5, <1>6, <1>7 DEF Next

\* A step takes away nothing that a request relies on: accounts and vouched grow, and
\* an identity keeps the user it has.
Kept ==
  /\ accounts \subseteq accounts'
  /\ vouched \subseteq vouched'
  /\ \A i \in Idents : identities[i] # None => identities'[i] = identities[i]

LEMMA NothingLost == IInv /\ [Next]_vars => Kept
<1> SUFFICES ASSUME IInv, [Next]_vars PROVE Kept
  OBVIOUS
<1> USE DEF tables, Kept
<1>1. ASSUME NEW r \in Requests, LinkIdentity(r)
      PROVE Kept
  BY <1>1 DEF LinkIdentity, IInv, TypeOK
<1>2. ASSUME NEW r \in Requests, Step(r), ~LinkIdentity(r)
      PROVE accounts' = accounts /\ vouched' = vouched /\ identities' = identities
  BY <1>2 DEF Step, CallbackIdentity, CallbackEmail, LinkAccount, LinkCheck, LinkDelete,
              StartSession, Abort
<1>3. ASSUME NEW e \in Emails, Join(e) \/ Enrol(e)
      PROVE accounts \subseteq accounts' /\ vouched' = vouched /\ identities' = identities
  BY <1>3 DEF Join, Enrol
<1>4. ASSUME NEW r \in Requests, NEW i \in Idents, NEW e \in Emails, Callback(r, i, e)
      PROVE accounts' = accounts /\ vouched \subseteq vouched' /\ identities' = identities
  BY <1>4 DEF Callback
<1>5. ASSUME NEW r \in Requests, NEW t \in Tokens, LinkPending(r, t)
      PROVE accounts' = accounts /\ vouched' = vouched /\ identities' = identities
  BY <1>5 DEF LinkPending
<1>6. CASE Restart
  BY <1>6 DEF Restart
<1>7. CASE UNCHANGED vars
  BY <1>7 DEF vars
<1>8. CASE \E t \in Tokens : Expire(t)
  BY <1>8 DEF Expire
<1>9. QED
  BY <1>1, <1>2, <1>3, <1>4, <1>5, <1>6, <1>7, <1>8 DEF Next

\* A request that does not move relies on what it relied on.
LEMMA StillRelies ==
  ASSUME IInv, Kept, NEW q \in Requests, pc'[q] = pc[q], loc'[q] = loc[q]
  PROVE  Relies(q)'
BY LinkingAssumption DEF IInv, TypeOK, RequestInv, Relies, Kept, Linking, Proved

\* A step of r leaves the others as they are, so r alone has to be looked at.
LEMMA MoverRelies ==
  ASSUME IInv, Kept, NEW r \in Requests, NEW l, NEW locals, goto(r, l, locals), Relies(r)'
  PROVE  RequestInv'
<1>1. ASSUME NEW q \in Requests PROVE Relies(q)'
  <2>1. CASE q = r
    BY <2>1
  <2>2. CASE q # r
    <3>1. pc'[q] = pc[q] /\ loc'[q] = loc[q]
      BY <2>2 DEF goto, IInv, TypeOK
    <3>2. QED
      BY <3>1, StillRelies
  <2>3. QED
    BY <2>1, <2>2
<1>2. QED
  BY <1>1 DEF RequestInv

\* Every step of a request leaves all requests with what they rely on.
LEMMA StepRequestInv == IInv /\ [Next]_vars => RequestInv'
<1> SUFFICES ASSUME IInv, [Next]_vars PROVE RequestInv'
  OBVIOUS
<1>0. Kept
  BY NothingLost
<1> USE LinkingAssumption
<1> USE DEF tables, Linking, Proved
<1>1. ASSUME pc' = pc, loc' = loc PROVE RequestInv'
  BY <1>0, <1>1, StillRelies DEF RequestInv
<1>2. ASSUME NEW r \in Requests, done(r) PROVE RequestInv'
  <2>1. Relies(r)'
    BY <1>2 DEF done, goto, Relies, IInv, TypeOK
  <2>2. QED
    BY <1>0, <1>2, <2>1, MoverRelies DEF done
<1>3. ASSUME NEW r \in Requests, NEW i \in Idents, NEW e \in Emails, Callback(r, i, e)
      PROVE RequestInv'
  <2>1. Relies(r)'
    BY <1>3 DEF Callback, goto, Relies, IInv, TypeOK, NoLocals
  <2>2. QED
    BY <1>0, <1>3, <2>1, MoverRelies DEF Callback
<1>4. ASSUME NEW r \in Requests, NEW t \in Tokens, LinkPending(r, t) PROVE RequestInv'
  <2>1. CASE pending[t].expired
    BY <1>1, <1>4, <2>1 DEF LinkPending
  <2>2. CASE ~pending[t].expired
    <3>1. pending[t] \in PendingLinks
      BY <1>4 DEF LinkPending, IInv, TypeOK
    <3>2. Relies(r)'
      BY <1>4, <2>2, <3>1
         DEF LinkPending, goto, Relies, IInv, TypeOK, PendingInv, PendingLinks
    <3>3. QED
      BY <1>0, <1>4, <2>2, <3>2, MoverRelies DEF LinkPending
  <2>3. QED
    BY <2>1, <2>2
<1>5. ASSUME NEW r \in Requests, Step(r) PROVE RequestInv'
  <2> USE DEF IInv, TypeOK, Locals
  <2>1. CASE CallbackIdentity(r)
    <3>1. CASE goto(r, "callback_email", loc[r])
      <4>1. Relies(r)'
        BY <2>1, <3>1 DEF CallbackIdentity, goto, Relies, RequestInv
      <4>2. QED
        BY <1>0, <3>1, <4>1, MoverRelies
    <3>2. CASE /\ identities[loc[r].ident] # None
               /\ goto(r, "callback_session", [loc[r] EXCEPT !.user = identities[loc[r].ident]])
      <4>1. Relies(r)'
        BY <2>1, <3>2 DEF CallbackIdentity, goto, Relies, RequestInv
      <4>2. QED
        BY <1>0, <3>2, <4>1, MoverRelies
    <3>3. QED
      BY <2>1, <3>1, <3>2 DEF CallbackIdentity
  <2>2. CASE CallbackEmail(r) \/ StartSession(r) \/ Abort(r)
    BY <1>2, <2>2 DEF CallbackEmail, StartSession, Abort
  <2>3. CASE LinkAccount(r)
    <3>1. ASSUME NEW u \in accounts, u = loc[r].email,
                 goto(r, "link_check", [loc[r] EXCEPT !.user = u])
          PROVE RequestInv'
      <4>1. Relies(r)'
        BY <2>3, <3>1 DEF LinkAccount, goto, Relies, RequestInv
      <4>2. QED
        BY <1>0, <3>1, <4>1, MoverRelies
    <3>2. QED
      BY <1>2, <2>3, <3>1 DEF LinkAccount
  <2>4. CASE LinkCheck(r)
    <3>1. CASE goto(r, "link_insert", loc[r])
      <4>1. Relies(r)'
        BY <2>4, <3>1 DEF LinkCheck, goto, Relies, RequestInv
      <4>2. QED
        BY <1>0, <3>1, <4>1, MoverRelies
    <3>2. QED
      BY <1>2, <2>4, <3>1 DEF LinkCheck
  <2>5. CASE LinkIdentity(r)
    <3>1. Relies(r)'
      BY <2>5 DEF LinkIdentity, goto, Relies, RequestInv
    <3>2. QED
      BY <1>0, <2>5, <3>1, MoverRelies DEF LinkIdentity
  <2>6. CASE LinkDelete(r)
    <3>1. Relies(r)'
      BY <2>6 DEF LinkDelete, goto, Relies, RequestInv
    <3>2. QED
      BY <1>0, <2>6, <3>1, MoverRelies DEF LinkDelete
  <2>7. QED
    BY <1>5, <2>1, <2>2, <2>3, <2>4, <2>5, <2>6 DEF Step
<1>6. CASE Restart
  BY <1>6 DEF Restart, RequestInv, Relies
<1>7. CASE \E t \in Tokens : Expire(t)
  BY <1>1, <1>7 DEF Expire
<1>8. CASE \E e \in Emails : Join(e) \/ Enrol(e)
  BY <1>1, <1>8 DEF Join, Enrol
<1>9. CASE UNCHANGED vars
  BY <1>1, <1>9 DEF vars
<1>10. QED
  BY <1>3, <1>4, <1>5, <1>6, <1>7, <1>8, <1>9 DEF Next

\* A pending link is made by a callback; the other steps only remove or expire one.
LEMMA StepPendingInv == IInv /\ [Next]_vars => PendingInv'
<1> SUFFICES ASSUME IInv, [Next]_vars PROVE PendingInv'
  OBVIOUS
<1>0. vouched \subseteq vouched'
  BY NothingLost DEF Kept
<1> USE LinkingAssumption
<1> USE DEF tables, PendingInv
<1>1. ASSUME pending' = pending PROVE PendingInv'
  BY <1>0, <1>1 DEF IInv
<1>2. ASSUME NEW t \in Tokens, pending' = [pending EXCEPT ![t] = None] PROVE PendingInv'
  BY <1>0, <1>2 DEF IInv, TypeOK
<1>3. ASSUME NEW r \in Requests, NEW t \in Tokens, LinkPending(r, t) PROVE PendingInv'
  BY <1>1, <1>2, <1>3 DEF LinkPending
<1>4. ASSUME NEW r \in Requests, CallbackEmail(r) PROVE PendingInv'
  <2>1. <<loc[r].ident, loc[r].email>> \in vouched
    BY <1>4 DEF CallbackEmail, IInv, RequestInv, Relies
  <2>2. ASSUME NEW t \in Tokens,
               pending' = [pending EXCEPT ![t] =
                 [ident |-> loc[r].ident, email |-> loc[r].email, expired |-> FALSE]]
        PROVE  PendingInv'
    BY <1>0, <2>1, <2>2 DEF IInv, TypeOK
  <2>3. QED
    BY <1>1, <1>4, <2>2 DEF CallbackEmail
<1>5. ASSUME NEW r \in Requests, LinkDelete(r) PROVE PendingInv'
  BY <1>2, <1>5 DEF LinkDelete, IInv, RequestInv, Relies, Linking
<1>6. ASSUME NEW r \in Requests, Step(r), ~CallbackEmail(r), ~LinkDelete(r)
      PROVE PendingInv'
  BY <1>1, <1>6 DEF Step, CallbackIdentity, LinkAccount, LinkCheck, LinkIdentity,
                    StartSession, Abort
<1>7. ASSUME NEW t \in Tokens, Expire(t) PROVE PendingInv'
  <2>1. pending[t] \in PendingLinks
    BY <1>7 DEF Expire, IInv, TypeOK
  <2>2. pending' = [pending EXCEPT ![t] = [pending[t] EXCEPT !.expired = TRUE]]
    BY <1>7 DEF Expire
  <2>3. QED
    BY <1>0, <1>7, <2>1, <2>2 DEF Expire, IInv, TypeOK, PendingLinks
<1>8. CASE Restart
  BY <1>8 DEF Restart
<1>9. ASSUME NEW e \in Emails, Join(e) \/ Enrol(e) PROVE PendingInv'
  BY <1>1, <1>9 DEF Join, Enrol
<1>10. ASSUME NEW r \in Requests, NEW i \in Idents, NEW e \in Emails, Callback(r, i, e)
       PROVE PendingInv'
  BY <1>1, <1>10 DEF Callback
<1>11. CASE UNCHANGED vars
  BY <1>1, <1>11 DEF vars
<1>12. QED
  BY <1>3, <1>4, <1>5, <1>6, <1>7, <1>8, <1>9, <1>10, <1>11 DEF Next

\* A session is issued for the row that the callback read, which stays.
LEMMA StepSessionsLinked == IInv /\ [Next]_vars => CallbackSessionsLinked'
<1> SUFFICES ASSUME IInv, [Next]_vars PROVE CallbackSessionsLinked'
  OBVIOUS
<1>0. Kept
  BY NothingLost
<1> USE LinkingAssumption
<1> USE DEF tables, CallbackSessionsLinked
<1>1. ASSUME sessions' \subseteq sessions PROVE CallbackSessionsLinked'
  BY <1>0, <1>1 DEF Kept, IInv, TypeOK, Sessions
<1>2. ASSUME NEW r \in Requests, StartSession(r) PROVE CallbackSessionsLinked'
  <2>1. identities' = identities
    BY <1>2 DEF StartSession
  <2>2. CASE pc[r] = "callback_session"
    <3>1. sessions' = sessions \cup
            {[user |-> loc[r].user, ident |-> loc[r].ident, by |-> "callback"]}
      BY <1>2, <2>2 DEF StartSession
    <3>2. identities[loc[r].ident] = loc[r].user
      BY <2>2 DEF IInv, RequestInv, Relies
    <3>3. QED
      BY <2>1, <3>1, <3>2 DEF IInv
  <2>3. CASE pc[r] = "link_session"
    <3>1. sessions' = sessions \cup
            {[user |-> loc[r].user, ident |-> loc[r].ident, by |-> "link"]}
      BY <1>2, <2>3 DEF StartSession
    <3>2. QED
      BY <2>1, <3>1 DEF IInv
  <2>4. QED
    BY <1>2, <2>2, <2>3 DEF StartSession
<1>3. ASSUME NEW r \in Requests, Step(r), ~StartSession(r) PROVE sessions' = sessions
  BY <1>3 DEF Step, CallbackIdentity, CallbackEmail, LinkAccount, LinkCheck, LinkIdentity,
              LinkDelete, Abort
<1>4. QED
  BY <1>1, <1>2, <1>3
     DEF Next, Join, Enrol, Callback, LinkPending, Expire, Restart, vars

LEMMA StepIInv == IInv /\ [Next]_vars => IInv'
BY StepTypeOK, StepRequestInv, StepPendingInv, StepSessionsLinked DEF IInv

-------------------------------------------------------------------------------

\* The invariant holds in every behaviour of the handlers.
THEOREM Invariance == Spec => []IInv
<1>1. QED
  BY InitIInv, StepIInv, PTL DEF Spec

\* Every reachable state of sign-in and linking is well typed; a callback never goes on
\* with the user of a row that was not there (handlers.go:104).
THEOREM TypeCorrect == Spec => []TypeOK
<1>1. IInv => TypeOK
  BY DEF IInv
<1>2. QED
  BY <1>1, Invariance, PTL

\* Sessions that CallbackHandler issued stay those of the users their identities are
\* linked to, whatever links run at the same time.
THEOREM CallbackSessionsSound == Spec => []CallbackSessionsLinked
<1>1. IInv => CallbackSessionsLinked
  BY DEF IInv
<1>2. QED
  BY <1>1, Invariance, PTL

\* The initial tables are those of the registry.
LEMMA InitRegistry == Init => Registry!Init
BY DEF Init, Registry!Init

\* LinkIdentity is the only statement that binds, and it binds an identity without a
\* user to one that has proved herself; the others vouch, enrol or stutter.
LEMMA StepRegistry == IInv /\ [Next]_vars => [Registry!Next]_(Registry!vars)
<1> SUFFICES ASSUME IInv, [Next]_vars PROVE [Registry!Next]_(Registry!vars)
  OBVIOUS
<1> USE DEF tables
<1> DEFINE Stutter == identities' = identities /\ vouched' = vouched /\ accounts' = accounts
<1>1. ASSUME Stutter PROVE UNCHANGED Registry!vars
  BY <1>1 DEF Registry!vars
<1>2. ASSUME NEW r \in Requests, LinkIdentity(r) PROVE Registry!Next \/ Stutter
  <2> DEFINE i == loc[r].ident
  <2> DEFINE u == loc[r].user
  <2>1. /\ i \in Idents /\ u \in Emails /\ u \in accounts
        /\ <<i, u>> \in vouched
    BY <1>2 DEF LinkIdentity, IInv, RequestInv, Relies, Proved
  <2>2. CASE identities[i] = None
    <3>1. Registry!Bind(i, u)
      BY <1>2, <2>1, <2>2 DEF LinkIdentity, Registry!Bind
    <3>2. QED
      BY <2>1, <3>1 DEF Registry!Next
  <2>3. CASE identities[i] # None
    <3>1. identities' = identities
      BY <1>2, <2>3 DEF LinkIdentity
    <3>2. QED
      BY <1>2, <3>1 DEF LinkIdentity
  <2>4. QED
    BY <2>2, <2>3
<1>3. ASSUME NEW r \in Requests, Step(r), ~LinkIdentity(r) PROVE Stutter
  BY <1>3 DEF Step, CallbackIdentity, CallbackEmail, LinkAccount, LinkCheck, LinkDelete,
              StartSession, Abort
<1>4. ASSUME NEW r \in Requests, NEW i \in Idents, NEW e \in Emails, Callback(r, i, e)
      PROVE Registry!Next
  <2>1. Registry!Vouch(i, e)
    BY <1>4 DEF Callback, Registry!Vouch
  <2>2. QED
    BY <2>1 DEF Registry!Next
<1>5. ASSUME NEW e \in Emails, Enrol(e) PROVE Registry!Next
  <2>1. Registry!Enrol(e)
    BY <1>5 DEF Enrol, Registry!Enrol
  <2>2. QED
    BY <2>1 DEF Registry!Next
<1>6. ASSUME NEW e \in Emails, Join(e) PROVE Stutter
  BY <1>6 DEF Join
<1>7. ASSUME NEW r \in Requests, NEW t \in Tokens, LinkPending(r, t) PROVE Stutter
  BY <1>7 DEF LinkPending
<1>8. ASSUME NEW t \in Tokens, Expire(t) PROVE Stutter
  BY <1>8 DEF Expire
<1>9. CASE Restart
  BY <1>1, <1>9 DEF Restart
<1>10. CASE UNCHANGED vars
  BY <1>1, <1>10 DEF vars
<1>11. QED
  BY <1>1, <1>2, <1>3, <1>4, <1>5, <1>6, <1>7, <1>8, <1>9, <1>10 DEF Next

\* Sign-in and linking bind an identity once and for good, and only to a user with a
\* password whose email the provider has confirmed: they implement IdentityRegistry.
THEOREM LinkingImplementsRegistry == Spec => RegistrySpec
<1>1. QED
  BY InitRegistry, StepRegistry, Invariance, PTL DEF Spec, RegistrySpec, Registry!Spec

-------------------------------------------------------------------------------
(* Who gets a session.                                                        *)

\* An identity's user has proved herself, and so has everybody with a session.
ProvenInv ==
  /\ \A i \in Idents : identities[i] # None =>
       identities[i] \in accounts /\ <<i, identities[i]>> \in vouched
  /\ SessionsAreProven

\* No identity has a user at the start.
LEMMA InitProvenInv == Init => ProvenInv
  BY DEF Init, ProvenInv, SessionsAreProven

\* LinkIdentity binds after the password, and sessions are issued to the row's user or
\* after the password.
LEMMA StepProvenInv == IInv /\ ProvenInv /\ [Next]_vars => ProvenInv'
<1> SUFFICES ASSUME IInv, ProvenInv, [Next]_vars PROVE ProvenInv'
  OBVIOUS
<1> USE DEF ProvenInv, SessionsAreProven, tables
<1>1. /\ identities \in [Idents -> Emails \cup {None}]
      /\ \A r \in Requests : Relies(r)
  BY DEF IInv, TypeOK, RequestInv
<1>2. ASSUME NEW r \in Requests, LinkIdentity(r) PROVE ProvenInv'
  BY <1>1, <1>2 DEF LinkIdentity, Relies, Proved
<1>3. ASSUME NEW r \in Requests, StartSession(r) PROVE ProvenInv'
  <2>1. loc[r].user \in accounts /\ <<loc[r].ident, loc[r].user>> \in vouched
    BY <1>1, <1>3, LinkingAssumption DEF StartSession, Relies, Proved
  <2>2. QED
    BY <1>3, <2>1 DEF StartSession
<1>4. ASSUME NEW r \in Requests, Step(r), ~LinkIdentity(r), ~StartSession(r) PROVE ProvenInv'
  BY <1>4 DEF Step, CallbackIdentity, CallbackEmail, LinkAccount, LinkCheck, LinkDelete, Abort
<1>5. CASE \E r \in Requests, i \in Idents, e \in Emails : Callback(r, i, e)
  BY <1>5 DEF Callback
<1>6. CASE \E e \in Emails : Join(e) \/ Enrol(e)
  BY <1>6 DEF Join, Enrol
<1>7. CASE \E r \in Requests, t \in Tokens : LinkPending(r, t)
  BY <1>7 DEF LinkPending
<1>8. CASE (\E t \in Tokens : Expire(t)) \/ Restart \/ UNCHANGED vars
  BY <1>8 DEF Expire, Restart, vars
<1>9. QED
  BY <1>2, <1>3, <1>4, <1>5, <1>6, <1>7, <1>8 DEF Next

\* Even a link that lost its race issues its session to a user who has proved herself
\* by a password and whose email the provider has confirmed.
THEOREM SessionsOnlyForProven == Spec => []SessionsAreProven
<1>1. ProvenInv => SessionsAreProven
  BY DEF ProvenInv
<1>2. QED
  BY <1>1, InitProvenInv, StepProvenInv, Invariance, PTL DEF Spec

-------------------------------------------------------------------------------
(* Why a link's session may belong to a user its identity is not linked to:   *)
(* both events below are ones the code lets happen, and without them the      *)
(* promise holds.                                                             *)

\* Two links of one identity to different users are past their checks.
RivalLinks ==
  \E r, q \in Requests :
    /\ pc[r] = "link_insert" /\ pc[q] = "link_insert"
    /\ loc[r].ident = loc[q].ident /\ loc[r].user # loc[q].user

\* A check that takes a failed query for no row.
CheckMisses ==
  \E r \in Requests :
    /\ pc[r] = "link_check" /\ pc'[r] = "link_insert"
    /\ identities[loc[r].ident] \notin {None, loc[r].user}

\* A link past its check may still bind its identity, and past its insert has.
BindsOrBound(r) ==
  /\ pc[r] = "link_insert" => identities[loc[r].ident] \in {None, loc[r].user}
  /\ pc[r] \in {"link_delete", "link_session"} => identities[loc[r].ident] = loc[r].user

LinkedInv == (\A r \in Requests : BindsOrBound(r)) /\ LinkSessionsLinked

\* No link is under way at the start.
LEMMA InitLinkedInv == Init => LinkedInv
  BY DEF Init, LinkedInv, BindsOrBound, LinkSessionsLinked

\* Only a rival binds an identity under a link that has checked it.
LEMMA StepLinkedInv ==
  /\ IInv /\ LinkedInv /\ ~RivalLinks
  /\ [Next]_vars /\ [~CheckMisses]_vars
  => LinkedInv'
<1> SUFFICES ASSUME IInv, LinkedInv, ~RivalLinks, [Next]_vars, [~CheckMisses]_vars
             PROVE  LinkedInv'
  OBVIOUS
<1> USE DEF LinkedInv, BindsOrBound, LinkSessionsLinked, goto, done, tables
<1>1. /\ identities \in [Idents -> Emails \cup {None}]
      /\ pc \in [Requests -> PCs]
      /\ loc \in [Requests -> Locals]
      /\ sessions \subseteq Sessions
      /\ \A r \in Requests : Relies(r)
  BY DEF IInv, TypeOK, RequestInv
<1>2. ASSUME NEW r \in Requests, LinkCheck(r) PROVE LinkedInv'
  <2>1. pc'[r] = "link_insert" => identities[loc[r].ident] \in {None, loc[r].user}
    BY <1>1, <1>2 DEF CheckMisses, LinkCheck, vars
  <2>2. QED
    BY <1>1, <1>2, <2>1 DEF LinkCheck, PCs
<1>3. ASSUME NEW r \in Requests, LinkIdentity(r) PROVE LinkedInv'
  <2> DEFINE i == loc[r].ident
             u == loc[r].user
  <2>1. i \in Idents /\ u \in Emails /\ identities[i] \in {None, u}
    BY <1>1, <1>3 DEF LinkIdentity, Relies, Proved
  <2>2. /\ identities' = [identities EXCEPT ![i] = u]
        /\ pc' = [pc EXCEPT ![r] = "link_delete"] /\ loc' = [loc EXCEPT ![r] = loc[r]]
        /\ sessions' = sessions
    BY <1>1, <1>3, <2>1 DEF LinkIdentity
  <2>3. \A q \in Requests : pc[q] = "link_insert" /\ loc[q].ident = i => loc[q].user = u
    BY <1>3 DEF LinkIdentity, RivalLinks
  <2>4. ASSUME NEW q \in Requests, q # r PROVE BindsOrBound(q)'
    <3>1. pc'[q] = pc[q] /\ loc'[q] = loc[q]
      BY <1>1, <2>2, <2>4
    <3>2. CASE pc[q] \in {"link_insert", "link_delete", "link_session"}
      <4>1. loc[q].ident \in Idents /\ loc[q].user \in Emails
        BY <1>1, <3>2 DEF Relies, Proved, Locals
      <4>2. loc[q].ident = i => loc[q].user = u
        BY <2>1, <2>3, <3>2, <4>1, LinkingAssumption
      <4> HIDE DEF i, u
      <4>3. QED
        BY <1>1, <2>1, <2>2, <3>1, <3>2, <4>1, <4>2
    <3>3. CASE pc[q] \notin {"link_insert", "link_delete", "link_session"}
      BY <3>1, <3>3
    <3>4. QED
      BY <3>2, <3>3
  <2>5. BindsOrBound(r)'
    BY <1>1, <2>1, <2>2
  <2>6. LinkSessionsLinked'
    BY <1>1, <2>1, <2>2, LinkingAssumption DEF Sessions
  <2>7. QED
    BY <2>4, <2>5, <2>6
<1>4. ASSUME NEW r \in Requests, StartSession(r) PROVE LinkedInv'
  <2>1. (\A q \in Requests : BindsOrBound(q))'
    BY <1>1, <1>4 DEF StartSession
  <2>2. LinkSessionsLinked'
    BY <1>1, <1>4 DEF StartSession
  <2>3. QED
    BY <2>1, <2>2
<1>5. ASSUME NEW r \in Requests, Step(r), ~LinkCheck(r), ~LinkIdentity(r), ~StartSession(r)
      PROVE  LinkedInv'
  BY <1>1, <1>5 DEF Step, CallbackIdentity, CallbackEmail, LinkAccount, LinkDelete, Abort
<1>6. ASSUME NEW r \in Requests,
             \/ \E i \in Idents, e \in Emails : Callback(r, i, e)
             \/ \E t \in Tokens : LinkPending(r, t)
      PROVE  LinkedInv'
  BY <1>1, <1>6 DEF Callback, LinkPending
<1>7. CASE \E e \in Emails : Join(e) \/ Enrol(e)
  BY <1>7 DEF Join, Enrol
<1>8. CASE (\E t \in Tokens : Expire(t)) \/ UNCHANGED vars
  BY <1>8 DEF Expire, vars
<1>9. CASE Restart
  BY <1>9 DEF Restart
<1>10. QED
  BY <1>2, <1>3, <1>4, <1>5, <1>6, <1>7, <1>8, <1>9 DEF Next

\* A link that answers has linked its identity, unless a rival link was past its check
\* at the same time or a failed query was taken for no row.
THEOREM NotLinkedOnlyByRivalOrMiss ==
  Spec /\ []~RivalLinks /\ [][~CheckMisses]_vars => []LinkSessionsLinked
<1>1. LinkedInv => LinkSessionsLinked
  BY DEF LinkedInv
<1>2. QED
  BY <1>1, InitLinkedInv, StepLinkedInv, Invariance, PTL DEF Spec
===============================================================================
