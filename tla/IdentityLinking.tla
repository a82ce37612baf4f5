---------------------------- MODULE IdentityLinking ----------------------------
(***************************************************************************)
(* internal/auth/linking.go and the callback of internal/auth/handlers.go: *)
(* signing in with an external identity, and linking an identity to a user *)
(* with the user's password.  Each action is one database statement or one *)
(* critical section of pendingMu, so requests interleave between them, and *)
(* a lookup that fails for whatever reason counts as no row in the code.   *)
(*                                                                         *)
(* A user is identified with its email, an identity stands for a provider  *)
(* and a subject.  An identity may come with another email every time.     *)
(***************************************************************************)
CONSTANTS Emails,    \* users.email
          Idents,    \* <<provider, subject>>
          Tokens,    \* random tokens of pending links
          Requests,  \* handler goroutines
          None       \* no row, no entry

ASSUME LinkingAssumption == None \notin Emails /\ None \notin Idents /\ None \notin Tokens

VARIABLES
  users,       \* table users
  accounts,    \* users with a row in local_credentials
  identities,  \* table identities: the user of each identity, or None
  pending,     \* pendingMap
  drawn,       \* tokens given out; they live on in browsers' cookies
  pc, loc,     \* the requests
  sessions,    \* the sessions that were issued
  vouched      \* history: the identities and emails providers have confirmed

tables == <<users, accounts, identities>>
vars == <<users, accounts, identities, pending, drawn, pc, loc, sessions, vouched>>

PendingLinks == [ident : Idents, email : Emails, expired : BOOLEAN]
Sessions == [user : Emails, ident : Idents, by : {"callback", "link"}]
Locals == [ident : Idents \cup {None}, email : Emails \cup {None},
           user : Emails \cup {None}, token : Tokens \cup {None}]
NoLocals == [ident |-> None, email |-> None, user |-> None, token |-> None]

Init ==
  /\ users = {}
  /\ accounts = {}
  /\ identities = [i \in Idents |-> None]
  /\ pending = [t \in Tokens |-> None]
  /\ drawn = {}
  /\ pc = [r \in Requests |-> "idle"]
  /\ loc = [r \in Requests |-> NoLocals]
  /\ sessions = {}
  /\ vouched = {}

goto(r, l, locals) ==
  /\ pc' = [pc EXCEPT ![r] = l]
  /\ loc' = [loc EXCEPT ![r] = locals]

done(r) == goto(r, "idle", NoLocals)

-------------------------------------------------------------------------------
(* Users and passwords, from sign-up, invites and set-password.               *)

Join(e) ==
  /\ users' = users \cup {e}
  /\ UNCHANGED <<accounts, identities, pending, drawn, pc, loc, sessions, vouched>>

Enrol(e) ==
  /\ e \in users
  /\ accounts' = accounts \cup {e}
  /\ UNCHANGED <<users, identities, pending, drawn, pc, loc, sessions, vouched>>

-------------------------------------------------------------------------------
(* CallbackHandler.                                                           *)

\* State, code and claims are fine: the provider says who it is.
Callback(r, i, e) ==
  /\ pc[r] = "idle"
  /\ goto(r, "callback_identity", [NoLocals EXCEPT !.ident = i, !.email = e])
  /\ vouched' = vouched \cup {<<i, e>>}
  /\ UNCHANGED <<tables, pending, drawn, sessions>>

\* A callback that takes the user whether the row is there or not.
CallbackIdentityIgnoringErr(r) ==
  /\ pc[r] = "callback_identity"
  /\ goto(r, "callback_session", [loc[r] EXCEPT !.user = identities[loc[r].ident]])
  /\ UNCHANGED <<tables, pending, drawn, sessions, vouched>>

\* GetUserByIdentity.
CallbackIdentity(r) ==
  /\ pc[r] = "callback_identity"
  /\ \/ /\ identities[loc[r].ident] # None
        /\ goto(r, "callback_session", [loc[r] EXCEPT !.user = identities[loc[r].ident]])
     \/ goto(r, "callback_email", loc[r])
  /\ UNCHANGED <<tables, pending, drawn, sessions, vouched>>

\* GetUserByEmail: putPending for a user that exists - users are never deleted -
\* and signup_required otherwise.
CallbackEmail(r) ==
  /\ pc[r] = "callback_email"
  /\ \/ /\ loc[r].email \in users
        /\ \E t \in Tokens \ drawn :
             /\ drawn' = drawn \cup {t}
             /\ pending' = [pending EXCEPT ![t] =
                  [ident |-> loc[r].ident, email |-> loc[r].email, expired |-> FALSE]]
     \/ UNCHANGED <<pending, drawn>>
  /\ done(r)
  /\ UNCHANGED <<tables, sessions, vouched>>

-------------------------------------------------------------------------------
(* LinkWithPasswordHandler.                                                   *)

\* getPending of the cookie's token; an expired entry is deleted on the way.
LinkPending(r, t) ==
  /\ pc[r] = "idle"
  /\ pending[t] # None
  /\ \/ /\ pending[t].expired
        /\ pending' = [pending EXCEPT ![t] = None]
        /\ UNCHANGED <<pc, loc>>
     \/ /\ ~pending[t].expired
        /\ goto(r, "link_account", [ident |-> pending[t].ident, email |-> pending[t].email,
                                    user |-> None, token |-> t])
        /\ UNCHANGED pending
  /\ UNCHANGED <<tables, drawn, sessions, vouched>>

\* Any account whose password is right, whatever its email.
LinkAccountAnyEmail(r) ==
  /\ pc[r] = "link_account"
  /\ \/ \E u \in accounts : goto(r, "link_check", [loc[r] EXCEPT !.user = u])
     \/ done(r)
  /\ UNCHANGED <<tables, pending, drawn, sessions, vouched>>

\* Username, password and TOTP code are right and the account's email is the
\* provider's, or the handler answers 401 or 409.
LinkAccount(r) ==
  /\ pc[r] = "link_account"
  /\ \/ \E u \in accounts :
          u = loc[r].email /\ goto(r, "link_check", [loc[r] EXCEPT !.user = u])
     \/ done(r)
  /\ UNCHANGED <<tables, pending, drawn, sessions, vouched>>

\* GetUserByIdentity: 409 when the row names another user; no row, or an error, goes on.
LinkCheck(r) ==
  /\ pc[r] = "link_check"
  /\ \/ identities[loc[r].ident] \notin {None, loc[r].user} /\ done(r)
     \/ goto(r, "link_insert", loc[r])
  /\ UNCHANGED <<tables, pending, drawn, sessions, vouched>>

\* ON CONFLICT (provider, subject) DO UPDATE.
LinkIdentityOverwriting(r) ==
  /\ pc[r] = "link_insert"
  /\ identities' = [identities EXCEPT ![loc[r].ident] = loc[r].user]
  /\ goto(r, "link_delete", loc[r])
  /\ UNCHANGED <<users, accounts, pending, drawn, sessions, vouched>>

\* INSERT ... ON CONFLICT (provider, subject) DO NOTHING, and no error if nothing.
LinkIdentity(r) ==
  /\ pc[r] = "link_insert"
  /\ identities' = IF identities[loc[r].ident] = None
                   THEN [identities EXCEPT ![loc[r].ident] = loc[r].user] ELSE identities
  /\ goto(r, "link_delete", loc[r])
  /\ UNCHANGED <<users, accounts, pending, drawn, sessions, vouched>>

LinkDelete(r) ==
  /\ pc[r] = "link_delete"
  /\ pending' = [pending EXCEPT ![loc[r].token] = None]
  /\ goto(r, "link_session", loc[r])
  /\ UNCHANGED <<tables, drawn, sessions, vouched>>

\* PickUserOrg finds an organisation and SetSessionCookie; if it finds none, the
\* handler stops as in Abort.
StartSession(r) ==
  /\ pc[r] \in {"callback_session", "link_session"}
  /\ sessions' = sessions \cup
       {[user |-> loc[r].user, ident |-> loc[r].ident,
         by |-> IF pc[r] = "link_session" THEN "link" ELSE "callback"]}
  /\ done(r)
  /\ UNCHANGED <<tables, pending, drawn, vouched>>

-------------------------------------------------------------------------------

\* Ten minutes pass.
Expire(t) ==
  /\ pending[t] # None
  /\ ~pending[t].expired
  /\ pending' = [pending EXCEPT ![t].expired = TRUE]
  /\ UNCHANGED <<tables, drawn, pc, loc, sessions, vouched>>

\* An error of a statement, or a client that goes away.
Abort(r) ==
  /\ pc[r] # "idle"
  /\ done(r)
  /\ UNCHANGED <<tables, pending, drawn, sessions, vouched>>

\* The pending links and the sessions are only in memory.
Restart ==
  /\ pending' = [t \in Tokens |-> None]
  /\ pc' = [r \in Requests |-> "idle"]
  /\ loc' = [r \in Requests |-> NoLocals]
  /\ sessions' = {}
  /\ UNCHANGED <<tables, drawn, vouched>>

Step(r) ==
  \/ CallbackIdentity(r) \/ CallbackEmail(r)
  \/ LinkAccount(r) \/ LinkCheck(r) \/ LinkIdentity(r) \/ LinkDelete(r)
  \/ StartSession(r) \/ Abort(r)

Next ==
  \/ \E e \in Emails : Join(e) \/ Enrol(e)
  \/ \E r \in Requests, i \in Idents, e \in Emails : Callback(r, i, e)
  \/ \E r \in Requests, t \in Tokens : LinkPending(r, t)
  \/ \E r \in Requests : Step(r)
  \/ \E t \in Tokens : Expire(t)
  \/ Restart

Spec == Init /\ [][Next]_vars

-------------------------------------------------------------------------------

PCs == {"idle", "callback_identity", "callback_email", "callback_session",
        "link_account", "link_check", "link_insert", "link_delete", "link_session"}

TypeOK ==
  /\ users \subseteq Emails
  /\ accounts \subseteq users
  /\ identities \in [Idents -> Emails \cup {None}]
  /\ pending \in [Tokens -> PendingLinks \cup {None}]
  /\ drawn \subseteq Tokens
  /\ pc \in [Requests -> PCs]
  /\ loc \in [Requests -> Locals]
  /\ sessions \subseteq Sessions
  /\ vouched \subseteq Idents \X Emails

\* A session that the callback issued belongs to the user its identity is linked to,
\* however many links of the identity were under way when it read the table.
CallbackSessionsLinked ==
  \A s \in sessions : s.by = "callback" => identities[s.ident] = s.user

\* Whoever has a session, from a callback or from a link that lost its race, has a
\* password, and the provider has confirmed her email for the session's identity.
SessionsAreProven ==
  \A s \in sessions : s.user \in accounts /\ <<s.ident, s.user>> \in vouched

\* Requests that overlap, expire, are repeated or stop half way bind an identity once
\* and for good, to a user with a password whose email the provider confirmed.
Registry == INSTANCE IdentityRegistry WITH bound <- identities, provers <- accounts

\* Linking implements the registry of identities.
RegistrySpec == Registry!Spec

\* auth_flow.md:146, of POST /auth/link/password: "On success, identity is linked and
\* session is issued."
LinkSessionsLinked ==
  \A s \in sessions : s.by = "link" => identities[s.ident] = s.user
===============================================================================
