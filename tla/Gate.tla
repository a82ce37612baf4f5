--------------------------------- MODULE Gate ---------------------------------
(***************************************************************************)
(* What stands between a request and its handler, and the second factor of *)
(* local accounts: MFAEnforce on every route, RequireAuth on some,         *)
(* RequireRole on a few; the five handlers that begin a session, TOTP      *)
(* setup, set-password and logout.  A request takes a step at each read of *)
(* the session store and at each query that matters here.  The store's own *)
(* calls are atomic, which module SessionStore shows of them.              *)
(***************************************************************************)
CONSTANTS Users, Sids, Requests,
          Owners,         \* users whose role in their organisation is Owner
          LocalRequired,  \* security.mfa.local_required
          Secrets,        \* TOTP secrets, and the codes that they validate
          None

ASSUME GateAssumption ==
  /\ Owners \subseteq Users /\ LocalRequired \in BOOLEAN
  /\ None \notin Users \cup Sids \cup Secrets

VARIABLES
  secret,       \* table user_totp
  drawn,        \* history: secrets that totp.Generate has made
  credentials,  \* table local_credentials: the users that have one
  sessions,     \* DefaultStore: a session for each sid, or None
  begun,        \* history: how the session of a sid came about, or None
  pc, loc       \* the requests

store == <<sessions, begun>>
tables == <<secret, drawn, credentials>>
gateVars == <<tables, store, pc, loc>>

\* Routes behind RequireAuth (api), RequireRole(Owner) (orgs) or both (invite), and the
\* handlers that read the session themselves (Readers), begin one or need none.  external
\* stands for the provider's callback and the acceptance of an invite.
Readers == {"api", "invite", "profile", "set-password", "setup", "verify", "logout"}
Logins == {"login", "link"}
Begins == Logins \cup {"signup", "external"}
Paths == Readers \cup Begins \cup {"orgs", "static"}

\* The exceptions of MFAEnforce; static stands for /static/ and the root.
Allowed == {"setup", "verify", "logout", "static"}

\* oidc stands for the providers oidc and invite.
SessionSet == [user : Users, provider : {"local", "oidc"}]

\* What a session rests on.  A login or a link of a user who had a second factor when the
\* request came is unproven, until it has shown a code (sound) or its query for the
\* factor has failed (miss).
Grounds == {"sound", "signup", "unproven", "miss"}
Beginnings == [user : Users, by : Grounds]

Locals ==
  [path : Paths, sid : Sids \cup {None}, sess : SessionSet \cup {None},
   user : Users \cup {None}, code : Secrets \cup {None},
   by : Grounds]

NoLocals == [path |-> "login", sid |-> None, sess |-> None, user |-> None, code |-> None,
             by |-> "sound"]

ASSUME LocalsAssumption == None \notin SessionSet \cup Beginnings

issued == {x \in Sids : begun[x] # None}
Live == {x \in Sids : sessions[x] # None}

GateInit ==
  /\ secret = [u \in Users |-> None] /\ drawn = {} /\ credentials = {}
  /\ sessions = [x \in Sids |-> None] /\ begun = [x \in Sids |-> None]
  /\ pc = [r \in Requests |-> "idle"] /\ loc = [r \in Requests |-> NoLocals]

-------------------------------------------------------------------------------

step(r, l, v) == pc' = [pc EXCEPT ![r] = l] /\ loc' = [loc EXCEPT ![r] = v]
answer(r) == step(r, "idle", NoLocals)

ReadSession(sid) == IF sid = None THEN None ELSE sessions[sid]

GroundsOf(path, u) ==
  CASE path = "signup" -> "signup"
    [] path \in Logins /\ secret[u] # None -> "unproven"
    [] OTHER -> "sound"

\* The middleware or handler after MFAEnforce; what it read is not in the context.
Route(r, l) ==
  step(r, CASE l.path \in {"api", "invite"} -> "auth"
            [] l.path = "orgs" -> "role"
            [] l.path \in Logins -> "password"
            [] l.path = "signup" -> "credential"
            [] l.path = "external" -> "org"
            [] OTHER -> "handler",
       [l EXCEPT !.sess = None, !.sid = IF l.path \in Readers THEN @ ELSE None])

\* A request comes, and MFAEnforce up to its query.  A cookie of a session that has ended
\* is as good as none: sids are not used twice.
MFAEnforce(r, path, sid, u, code) ==
  /\ pc[r] = "idle"
  /\ LET l == [NoLocals EXCEPT !.path = path, !.sid = sid, !.user = u, !.code = code,
                               !.by = GroundsOf(path, u)]
         s == ReadSession(sid)
     IN  IF ~LocalRequired \/ s = None THEN Route(r, l)
         ELSE IF s.provider # "local" THEN Route(r, l)
         ELSE step(r, "enrolled", [l EXCEPT !.sess = s])
  /\ UNCHANGED <<tables, store>>

\* An error that counts as yes.
UserHasTOTPOnError(u) == IF secret[u] = None THEN {TRUE, FALSE} ELSE {TRUE}

\* UserHasTOTP: false on an error too.
UserHasTOTP(u) == IF secret[u] = None THEN {FALSE} ELSE {TRUE, FALSE}

MFADecide(r) ==
  /\ pc[r] = "enrolled"
  /\ \E has \in UserHasTOTP(loc[r].sess.user) :
       IF has \/ loc[r].path \in Allowed THEN Route(r, loc[r]) ELSE answer(r)
  /\ UNCHANGED <<tables, store>>

\* RequireAuth: the session is read again; the query of its user may fail.
RequireAuth(r) ==
  /\ pc[r] = "auth"
  /\ \/ answer(r)
     \/ /\ ReadSession(loc[r].sid) # None
        /\ step(r, IF loc[r].path = "invite" THEN "role" ELSE "serve",
                [loc[r] EXCEPT !.sess = ReadSession(loc[r].sid), !.sid = None])
  /\ UNCHANGED <<tables, store>>

\* RequireRole: without RequireAuth before it there is no session in the context.
RequireRole(r) ==
  /\ pc[r] = "role"
  /\ \/ answer(r)
     \/ /\ loc[r].sess # None
        /\ loc[r].sess.user \in Owners
        /\ step(r, "serve", loc[r])
  /\ UNCHANGED <<tables, store>>

\* The handlers that read the session: profile, set-password, TOTP setup and its
\* verification.
Handler(r) ==
  /\ pc[r] = "handler" /\ loc[r].path \notin {"logout", "static"}
  /\ IF ReadSession(loc[r].sid) = None THEN answer(r)
     ELSE step(r, "serve", [loc[r] EXCEPT !.sess = ReadSession(loc[r].sid), !.sid = None])
  /\ UNCHANGED <<tables, store>>

\* What the handler does is in other modules; here it answers.
Serve(r) ==
  /\ \/ pc[r] = "serve" /\ loc[r].path \notin {"setup", "set-password"}
     \/ pc[r] = "handler" /\ loc[r].path = "static"
  /\ answer(r)
  /\ UNCHANGED <<tables, store>>

\* SetPasswordHandler: the credential is created, or there is one, or an error.
SetPassword(r) ==
  /\ pc[r] = "serve" /\ loc[r].path = "set-password"
  /\ credentials' \in {credentials, credentials \cup {loc[r].sess.user}}
  /\ answer(r)
  /\ UNCHANGED <<secret, drawn, store>>

\* ON CONFLICT (user_id) DO UPDATE, with what totp.Generate has made: never the same
\* secret twice, and which one makes no difference.
SetTOTPSecret(u) ==
  LET x == CHOOSE y \in Secrets \ drawn : TRUE IN
    /\ Secrets \ drawn # {}
    /\ secret' = [secret EXCEPT ![u] = x]
    /\ drawn' = drawn \cup {x}

\* TOTPSetupBeginHandler: a new secret takes the place of the old one at once.
TOTPSetupBegin(r) ==
  /\ pc[r] = "serve" /\ loc[r].path = "setup"
  /\ SetTOTPSecret(loc[r].sess.user) \/ UNCHANGED <<secret, drawn>>
  /\ answer(r)
  /\ UNCHANGED <<credentials, store>>

Logout(r) ==
  /\ pc[r] = "handler" /\ loc[r].path = "logout"
  /\ sessions' = [x \in Sids |-> IF x = loc[r].sid THEN None ELSE sessions[x]]
  /\ answer(r)
  /\ UNCHANGED <<tables, begun>>

-------------------------------------------------------------------------------
(* LoginHandler, LinkWithPasswordHandler, SignupHandler, and the ends of      *)
(* CallbackHandler and InviteAcceptHandler.                                   *)

\* GetLocalCredentialByUsername and VerifyPassword.
LoginPassword(r) ==
  /\ pc[r] = "password"
  /\ \/ answer(r)
     \/ loc[r].user \in credentials /\ step(r, "factor", loc[r])
  /\ UNCHANGED <<tables, store>>

\* Is TOTP enabled, and is there a code?
LoginFactor(r) ==
  /\ pc[r] = "factor"
  /\ \E has \in UserHasTOTP(loc[r].user) :
       IF ~has
       THEN step(r, "org", [loc[r] EXCEPT !.by = IF secret[loc[r].user] = None THEN @ ELSE "miss",
                                          !.code = None])
       ELSE IF loc[r].code = None THEN answer(r)
       ELSE step(r, "code", loc[r])
  /\ UNCHANGED <<tables, store>>

validateTOTP(sec, code) == code = sec

\* A lookup whose error lets the login pass.
LoginCodeLenient(r) ==
  /\ pc[r] = "code"
  /\ \/ answer(r)
     \/ step(r, "org",
             [loc[r] EXCEPT !.by = IF loc[r].code = secret[loc[r].user] THEN "sound" ELSE @,
                            !.code = None])
  /\ UNCHANGED <<tables, store>>

\* GetTOTPSecret and validateTOTP; an error of the query counts as a wrong code.
LoginCode(r) ==
  /\ pc[r] = "code"
  /\ \/ answer(r)
     \/ /\ validateTOTP(secret[loc[r].user], loc[r].code)
        /\ step(r, "org", [loc[r] EXCEPT !.by = "sound", !.code = None])
  /\ UNCHANGED <<tables, store>>

\* A credential that replaces the one the user already has.
SignupCredentialUpsert(r) ==
  /\ pc[r] = "credential"
  /\ \/ answer(r) /\ UNCHANGED credentials
     \/ credentials' = credentials \cup {loc[r].user} /\ step(r, "org", loc[r])
  /\ UNCHANGED <<secret, drawn, store>>

\* UpsertUserByVerifiedEmail takes a user that there is already; CreateLocalCredential
\* fails if she has a credential, or if another user has the name.
SignupCredential(r) ==
  /\ pc[r] = "credential"
  /\ \/ answer(r) /\ UNCHANGED credentials
     \/ /\ loc[r].user \notin credentials
        /\ credentials' = credentials \cup {loc[r].user}
        /\ step(r, "org", loc[r])
  /\ UNCHANGED <<secret, drawn, store>>

Provider(path) == IF path \in {"login", "signup"} THEN "local" ELSE "oidc"

\* The organisation and the membership, in which a handler may fail, and
\* SetSessionCookie: a sid never seen before; which one makes no difference.
SetSession(r) ==
  /\ pc[r] = "org"
  /\ \/ UNCHANGED store
     \/ LET x == CHOOSE y \in Sids \ issued : TRUE IN
          /\ Sids \ issued # {}
          /\ sessions' = [sessions EXCEPT ![x] =
               [user |-> loc[r].user, provider |-> Provider(loc[r].path)]]
          /\ begun' = [begun EXCEPT ![x] =
               [user |-> loc[r].user, by |-> loc[r].by]]
  /\ answer(r)
  /\ UNCHANGED tables

-------------------------------------------------------------------------------

\* The expiry or the sweeper.
Expire(x) ==
  /\ sessions[x] # None
  /\ sessions' = [sessions EXCEPT ![x] = None]
  /\ UNCHANGED <<tables, begun, pc, loc>>

\* Sessions and requests are in memory.
Restart ==
  /\ sessions' = [x \in Sids |-> None]
  /\ pc' = [r \in Requests |-> "idle"] /\ loc' = [r \in Requests |-> NoLocals]
  /\ UNCHANGED <<tables, begun>>

GateStep(r) ==
  \/ \E p \in Paths \ Begins, x \in Live \cup {None} : MFAEnforce(r, p, x, None, None)
  \/ \E p \in Begins, x \in Live \cup {None}, u \in Users, c \in drawn \cup {None} :
       /\ p \notin Logins => c = None
       /\ MFAEnforce(r, p, x, u, c)
  \/ MFADecide(r) \/ RequireAuth(r) \/ RequireRole(r)
  \/ Handler(r) \/ Serve(r) \/ SetPassword(r) \/ TOTPSetupBegin(r) \/ Logout(r)
  \/ LoginPassword(r) \/ LoginFactor(r) \/ LoginCode(r) \/ SignupCredential(r) \/ SetSession(r)

GateNext ==
  \/ \E r \in Requests : GateStep(r)
  \/ \E x \in Sids : Expire(x)
  \/ Restart

GateSpec == GateInit /\ [][GateNext]_gateVars

-------------------------------------------------------------------------------

Stages == {"idle", "enrolled", "auth", "role", "handler", "serve", "password",
           "factor", "code", "credential", "org"}

GateTypeOK ==
  /\ secret \in [Users -> Secrets \cup {None}] /\ drawn \subseteq Secrets
  /\ credentials \subseteq Users
  /\ sessions \in [Sids -> SessionSet \cup {None}]
  /\ begun \in [Sids -> Beginnings \cup {None}]
  /\ pc \in [Requests -> Stages] /\ loc \in [Requests -> Locals]

\* With local_required no handler that reads its session serves a local one of a user
\* without a second factor, but TOTP setup and verification, though the session is read
\* twice, its user is looked up in between, and sessions come and go meanwhile.
ServedHasFactor ==
  \A r \in Requests :
    /\ LocalRequired
    /\ pc[r] = "serve" /\ loc[r].path \notin Allowed
    /\ loc[r].sess.provider = "local"
    => secret[loc[r].sess.user] # None

\* A login or a link of a user who had a second factor when the request came begins a
\* session only with a code for it, or because the query for the factor failed, however
\* a setup that replaces the secret, other requests and a restart fall between its
\* queries.  A sign-up asks for no code, even of a user that has a factor, but each user
\* gets at most one session so, ever: the one with her credential.
SecondFactorAsked ==
  /\ \A x \in issued : begun[x].by # "unproven"
  /\ \A x, y \in issued : begun[x].by = "signup" /\ begun[x] = begun[y] => x = y
===============================================================================
