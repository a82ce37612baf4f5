# Verification of the Go CMMS backend

This directory holds a formal model of the backend in `src/`: a Go HTTP server
(chi) on PostgreSQL. TLA+ modules describe its components, TLC checks them on
small instances, and TLAPS proves the most important properties for every
instance. Paths below are relative to `src/`.

## 1. The system

| Component | Code | State it keeps | Operations | Modelled in |
|---|---|---|---|---|
| Session store | `internal/session/store.go`, `internal/auth/session.go` | map of session id to session (user, organisation, expiry), in memory | Create, Get with lazy deletion, Delete, sweeper goroutine | `SessionStore`, `SessionService` |
| Rate limiter | `internal/middleware/rate_limiter.go` | token bucket per key; daily salt | allow, rotateSaltIfNeeded | `RateLimiter`, `Pacer` (not the salt) |
| Local accounts | `internal/auth/local.go`, `internal/repo/users.go`, `internal/repo/auth.go` | tables `users`, `local_credentials`, `user_totp` | sign-up, login, TOTP set-up | `LocalAuth`; TOTP: `Gate` |
| Set password | `internal/auth/password.go` | `local_credentials` | set or create the credential | `LocalAuth` |
| Invites | `internal/auth/invite.go`, `internal/repo/orgs.go` | table `org_invites` | create, accept | `Invites` |
| Organisations | `internal/repo/orgs.go`, `database/queries/memberships.sql` | `organisations`, `org_memberships` | create, ensure membership, pick an organisation | `Directory`, `Membership` |
| Work orders | `database/schema/007_functions.up.sql`, `database/queries/work_orders.sql`, `internal/handlers/work_orders` | `work_order`, `work_order_assigned_to`, `work_order_counters` | create, update, change status, delete | `WorkOrders`, `WorkOrderTable`; list columns: `Catalogue` |
| Tasks | `database/queries/tasks.sql`, `internal/handlers/tasks` | table `tasks` | toggle, delete, cascade, two lists | `Tasks`, `Records` |
| Identity linking | `internal/auth/linking.go` | pending links in memory, table `identities` | put, complete with a password | `IdentityLinking`, `IdentityRegistry` |
| Lists and searches | `database/queries/*.sql` and their code in `internal/db/gen`, `internal/repo/search.go`, `internal/handlers` | none | five paged statements; profile update | `Paging`, `Catalogue`, `Records` |
| OIDC sign-in | `internal/auth/handlers.go`, `provider.go` | state and nonce cookies | start, callback | callback: `IdentityLinking`, `Gate` |
| OIDC metadata cache | `internal/auth/cache.go`, `provider.go` | one file per host; the provider map | start, round trip, refresh | `MetadataCache`, `Server` |
| Second factor | `internal/middleware/mfa_enforce.go`, `internal/auth/local.go`, `linking.go` | table `user_totp` | set up, verify, enforce | `Gate`, `Server` |
| Request pipeline | `cmd/server/main.go`, `internal/middleware` | none of its own | MFA, rate limit, denylist, authentication, role | `Gate` (not the denylist) |
| Configuration, logging, admin's session list | | none | | not modelled |

The components interact in three ways. Handler goroutines call the session
store and the limiter directly and share their maps under a mutex. Handlers of
accounts, organisations and invites share database tables, each statement being
a transaction of its own. Work-order handlers run one statement per request,
but two of those statements call a PL/pgSQL function that runs several more
inside a single transaction. Clients that page through a list join several
requests into one walk while others write. The start's goroutines talk to
`SetupProviders` over a channel, and to the next process through the cache files.

What is hard here:

* *interleaving*: `Get` uses a copy of a session after it released the lock;
  `allow` reads the clock before it takes the lock; sign-up and invite
  acceptance are chains of up to five separate transactions; two updates of one
  work order replace its assignees under READ COMMITTED;
* *failure half way*: any statement can fail, and the process may restart, with
  the earlier statements of the request committed;
* *locks*: a work-order creation holds the counter row while the unique index
  may make it wait;
* *a world that outlives the process*: metadata files are written by one process
  and trusted by the next, perhaps with another configuration;
* *time*: expiries, the sweeper, clock readings that arrive out of order;
* *boundaries*: strict comparison of expiries, four digits of a custom id, ten
  tries of the generator.

`PROJECT.json` lists these hazards at their lines, each with the properties that
cover it, or with the reason that none does yet.

Correctness of each component, in a sentence: the session store is an atomic set
of sessions that a logout, an expiry or a restart ends for good; the limiter
paces every key by one due time; an organisation's owner is who signed up for it,
a sign-up delivers what it answers, sessions imply membership, an invite is used
once and never lost, and a credential belongs to its user; an identity is bound
once, to a user with a password whose email the provider confirmed; a work order's
requests look atomic, its number is its own and creations do not deadlock; a walk
through a list misses nothing that stayed where it was; a task made for a
work order is listed there as long as it exists, and reopening it restores its value; the server listens with exactly the
OIDC providers it is configured for and starts offline on good files; a local user
without a second factor is kept out, and one who has it is asked for it by logins and
links, though not by the one sign-up that may precede them.

## 2. The modules

### Session store

`SessionService` is the abstract service: a set of sessions in force, requests
that ask about one, restarts. `SessionStore` is the code. One action is one
critical section or one reading of the clock:

| Action | Code |
|---|---|
| `Login`, `Create` | the sign-in handlers' `time.Now().Add(8h)`, `SetSessionCookie`, `Store.Create` |
| `Arrive`, `Read`, `Check`, `Evict` | `ReadSession`'s call of `Get`: read lock and copy; expiry check after the unlock; lazy deletion under the write lock |
| `Recheck` | the second expiry check in `ReadSession` |
| `Logout` | `LogoutHandler`, `Store.Delete` |
| `SweepTick`, `Sweep` | the sweeper: `now`, then one pass under the lock |
| `Tick`, `Restart` | the environment |

The store is shown to implement the service: `ForceOf` maps an entry to a
session in force while it has not expired, and a copied entry to a tentative
yes. `revoked` and `arrival` are history variables. The ids a client presents
are ids that were issued.

### Rate limiter

`RateLimiter` models `limiter` with integers: a tick of the clock refills one
unit, a request costs `Cost` units and a bucket holds `Burst`. Floating-point
rounding is abstracted. `Arrive` reads the clock, `Grant` and `Refuse` are the
critical section, so readings reach the bucket out of order. `Pacer` is the
abstraction: one due time per key, no tokens. The refinement maps a bucket to
`last - tokens`.

### Accounts, organisations, invites

`Directory` has the tables, the constraints and the SQL statements; `LocalAuth`
and `Invites` have the handlers, one action per statement; `Onboarding` composes
them, adds `Abort` (an error, a client that goes away, or the end of the process
between any two statements) and states the properties. A user is identified with
its email and an organisation with its slug (both UNIQUE); a username may be
another user's email, as the code allows. `creator` and `accepted` are history
variables. A lookup that fails for any reason is treated by the code as "no
row", so `SignupFindOrg` and `PasswordLookup` may go on although the row is
there. `InviteExpires` lets the seven days pass at any time. In `AcceptUser` the
lookup and the upsert of the invited user are one step: users are never deleted,
so the two statements do what the second does alone. `PickUserOrg` sorts by the
enum `org_role` descending, as the SQL does; the age that breaks ties is not kept.

`Membership` is what the handlers promise together, without requests, users or
tokens: an organisation is founded by one user, who becomes its Owner as its first
member, once; after that it makes offers, and a membership is written or changed
only to a role that was offered. The refinement maps `creator` to the founder, the
table `org_memberships` to the roles, and the rows of `org_invites`, used, expired or
not, to the offers: that a used or expired invite is not accepted *again* is the
promise the code does not keep (see `invite_once`), so the abstract module does not
make it.

### Identity linking

`IdentityLinking` models `CallbackHandler` from the moment the provider has said
who it is, and `LinkWithPasswordHandler`, one action per database statement or
critical section of `pendingMu`:

| Action | Code |
|---|---|
| `Callback`, `CallbackIdentity`, `CallbackEmail` | `handlers.go` 59-143: identity, `GetUserByIdentity`, `GetUserByEmail` with `putPending` |
| `LinkPending` | `getPending` with its lazy deletion |
| `LinkAccount`, `LinkCheck`, `LinkIdentity`, `LinkDelete` | `linking.go` 111-180 |
| `StartSession` | `SetSessionCookie` at the end of both handlers |
| `Join`, `Enrol` | a user and its credential appear (the handlers of `Onboarding`) |
| `Expire`, `Abort`, `Restart` | the environment; a restart forgets pending links and sessions |

An identity stands for a provider and a subject, and may come with another email
every time. A lookup that fails is no row for the code, so `CallbackIdentity` and
`LinkCheck` may go on although the row is there. `vouched` is a history variable.
`IdentityRegistry` is the promise without requests and pending links; the
refinement maps its bindings to the table `identities` and its provers to the
users with a credential.

### Work orders

`WorkOrders` models the transactions on the work orders of one organisation in
one year under READ COMMITTED: `rows`, `assigned` and `nextSeq` are what is
committed, a request's locals hold what it has written, `counter` and `lock` are
the row locks, and `Contended` is the wait of the unique index for another
transaction's uncommitted row.

| Action | Code (`007_functions.up.sql`) |
|---|---|
| `CreateOwn`, `CreateAuto` | the start of `create_work_order_from_json`, with and without a client's custom id |
| `Bump` | lines 112-119, the counter upsert and the custom id |
| `Insert`, `Exhausted` | lines 121-141, the insert, the retry and the final exception |
| `CreateCommit` | lines 145-165 and the commit |
| `UpdateCheck`, `UpdateRow`, `Unassign`, `Assign`, `UpdateCommit` | the statements of `update_work_order_from_json` |
| `ChangeWorkOrderStatus`, `DeleteWorkOrderByID` | the queries of the same names |
| `Rollback` | an error or a cancelled request at any point |

Of the columns of a work order only the custom id and the status are kept.
Customers are replaced by the same statements as assignees and left out.
`WorkOrderTable` is what a client sees: each request happens at once or not at
all.

### Lists, searches and tasks

`Paging` says what `LIMIT` and `OFFSET` may return of a set of rows under a
partial order: a page is what follows some prefix that the order allows, so rows
that tie may change places from one page to the next. `Catalogue` has the rows the
five list statements read, the writes that change them, each one step (which
`WorkOrdersProofs` shows of work orders), and the statements themselves: a result
set, an order and a page size. `Tasks` adds the tasks of the work orders with their
`ON DELETE CASCADE`. `Records` composes them with a client that asks for one page
after the other until it gets an empty one:

| Action | Code |
|---|---|
| `FilterSearch` | `POST /work-orders/search`, `listWorkOrdersPaged` |
| `Search` | the searches for users, assets, teams and locations |
| `CreateWorkOrder`, `ModifyWorkOrder`, `ChangeStatus`, `DeleteWorkOrder` | the handlers of `internal/handlers/work_orders` |
| `Join`, `UpdateUserProfile` | a new membership; `PUT /auth/profile` |
| `ToggleComplete`, `DeleteTask`, `CascadeTasks` | `internal/handlers/tasks` and the foreign key |

Texts are their places in the collation and ids are numbers in PostgreSQL's order
of uuids. `created_at` is the start of the transaction, so a row may appear with an
older time than rows that are there. `steady`, `last`, `again` and `unborn` are
history variables.

### The start and the gate

`MetadataCache` models the process from `main` to the background refresh. `Boot`
starts one goroutine per configured provider; `RoundTrip`, `fetchAndCache` and
`Write` are `cachingRoundTripper` with the file truncated before it is written, or left alone when a write fails
before that;
`Send`, `Collect` and `Listen` are the channel, the panic on an error, and the end
of `SetupProviders`; `Tick` and `Refresh` are the loop of `ForceRefresh`. `Weather`
(network and disk) and `Crash` are the environment, and a new start may have another
tenant or other providers.

`Gate` follows a request from `MFAEnforce` to its handler:

| Action | Code |
|---|---|
| `MFAEnforce`, `MFADecide` | `mfa_enforce.go`: the session, and the query for the factor of its user with what passes all the same (`Allowed`, static files and the root among it) |
| `Route` | which routes have which middleware (`main.go` 96-146, `handlers/router.go`) |
| `RequireAuth`, `RequireRole`, `Handler` | the session is read again, or what is in the context of it |
| `TOTPSetupBegin`, `SetPassword`, `Logout` | the handlers that write `user_totp`, `local_credentials` and the store |
| `LoginPassword`, `LoginFactor`, `LoginCode` | the queries of `LoginHandler` (`local.go` 132-176) and of `LinkWithPasswordHandler` (`linking.go` 122-139) |
| `SignupCredential` | `SignupHandler`'s upsert and credential (`local.go` 66-80) |
| `SetSession` | what is left of these and of the callback and the acceptance of an invite (path `external`), and `SetSessionCookie` |
| `Expire`, `Restart` | the environment |

`begun` is a history variable: of each session its user and what it rests on, which
follows the request from its arrival in `by`. A login or a link of a user with a
factor is `unproven` until a code makes it `sound` or a failed query lets it pass
(`miss`). `drawn` is one too. A sid and a secret are the next unused ones, as nothing
depends on which they are. What other handlers do is in other modules.

The two share no variable, so `Server` runs one of them per behaviour: interleaving
their steps would multiply the states and show nothing more.

## 3. What TLC checks

| Run | Instance | Result |
|---|---|---|
| `sessions` | 2 ids, 2 requests, lifetime 1, clock to 3, fair sweeper | passes, 162 thousand states |
| `limiter` | 2 keys, 2 goroutines, cost 2, burst 4, clock to 5 | passes, 1.5 million states |
| `onboarding` | 2 users, 2 passwords, 2 slugs, 1 token, 2 requests, symmetry | passes, 990 thousand states |
| `workorders` | 3 work orders, 2 users, 2 transactions, one client id, 2 tries, numbers of 1 and 2 digits (base 2) | passes, 950 thousand states |
| `linking` | 2 users, 2 identities, 2 tokens, 2 requests, symmetry | passes, 249 thousand states |
| `records` | up to 3 work orders, 2 members, 3 assets (two of one instant), 1 task, 12 queries, 3 writes, 2 instants | passes, 873 thousand states |
| `server` | 2 tenants, both providers; 1 user, 2 sids, 2 requests, 2 secrets | passes, 673 thousand states |
| `invite_once` | 2 users, 1 slug, 1 token, 2 requests | violated, see below |
| `org_owner` | the same | violated |
| `set_password` | the same | violated |
| `custom_ids` | 4 work orders, 1 request, base 2, 2 tries | violated |
| `link_succeeds` | 2 users, 1 identity, 2 tokens, 2 requests | violated |

Properties of the passing runs:

* `RevokedNeverServed`, `NoResurrection`, `ServiceSpec`: logout, lazy deletion,
  sweep and restart end a session for good under every interleaving, and the
  store answers as an atomic one would.
* `ExpiredEventuallyRemoved`: expired sessions leave the map even if their
  cookies never come back.
* `SpendBound`, `NoLockout`, `PacerSpec`: out-of-order readings neither create
  tokens nor lose them.
* `OwnerIsCreator`, `SignupDelivers`, `SessionsAreMembers`,
  `UsedInviteMeansMember`, `OnlyOwnCredential`: what chains of single-statement
  transactions guarantee in spite of races and aborts.
* `MembershipSpec`: together they implement `Membership`. No interleaving of
  sign-ups, invites and acceptances lets anybody into an organisation without an
  offer of just that role, founds an organisation twice, or makes a second Owner.
* `CallbackSessionsLinked`, `RegistrySpec`: whatever overlaps, expires or fails,
  an identity is bound once and to a proven user, and the sessions of callbacks
  stay true to the table.
* `SessionsAreProven`: even the session of a link that lost its race belongs to a
  user with a password whose email the provider confirmed for that identity.
* `NumberNotReissued`, `NoWaitCycle`, `AssigneesHaveOrder`, `TableSpec`: what
  counter lock, unique index, row locks and foreign key guarantee together.
* `OrdersWalk`, `SearchWalk`: what a client that pages to the end is guaranteed to
  have seen although the list changes under it, and why the searches guarantee it
  only for rows that were created at different instants.
* `PagesDetermined`: between two writes every page of the work-order list has one
  possible content, whatever it is sorted by; the searches have no such property.
* `TasksListed`, `ReopenRestores`: a task made for a work order is in both lists of
  that work order and of no other, as long as it exists, whichever work orders and
  tasks are deleted; and the stash of one column is enough to reopen a task.
* `ListensWithItsProviders`, `OfflineStart`, `BootDecides`, `RefreshHeals`: whatever
  a crash, bad weather or another configuration left in the files, the start comes to
  an end, serves only with the right documents, needs no network when the files are
  right, and good weather puts the files right again.
* `ServedHasFactor`: reading the session twice with a query in between does not let a
  local user without a factor past `MFAEnforce`, but to its exceptions.
* `SecondFactorAsked`: a login or a link of a user who had a factor when it came takes
  a code for the secret of the moment, whenever the query for the factor answers,
  however setups, other requests and restarts fall between its queries. A sign-up
  asks for no code, but no user gets more than one session from sign-ups, ever. Two
  mutants go with it, one for each half.

**Bounds.** Two requests are enough for every race named above, each being
between two handlers; the state of further requests between statements is what
the theorems of section 4 cover for every component. The clock
bounds let a session expire and be swept twice over, and a bucket fill up,
drain and fill up again. `Base` 2 with `Cap` 4 stands for base 10 with four
digits: three numbers fit, the fourth is cut. `MaxTries` 2 stands for the ten
tries of the generator. `MaxSeq` stops new generated ids. One invite token
suffices as tokens do not interact; two tokens of pending links let one identity
be linked by two users at once. Three writes of a walk are enough to create,
move and delete rows before and behind the page, and to complete, reopen and
complete a task; page sizes 0, 1, 2 and beyond the limit are all asked for, and
the four demo databases hold rows that tie in every column and a task without a work
order. Two tenants make a
cache file stale; two secrets let a setup replace one that is in use.

**Fairness.** `SessionStore` assumes weak fairness of `SweepTick` and `Sweep`:
`main.go` starts the sweeper with `context.Background()`, so it runs as long as the
process, its ticker fires again and again, and the mutex is never held for ever.
`MetadataCache` assumes weak fairness of `Main` and of each goroutine: the scheduler
runs what can run, and the requests of a start end with its context after 15
seconds. The refresher's requests have no timeout; that they end is an assumption
about the network, and `RefreshHeals` depends on it. Nobody has to start the process,
nothing has to kill it, and no handler is assumed to go on.

**Deadlock.** TLC checks it in every passing run but `records`, where a client that
has reached the end and used up the bound on writes stops.

### Disagreements between the code and what it says of itself

Each run shows that a promise is broken. A theorem beside it shows what it takes:
without the event it names, which nothing in the code prevents, the promise holds in
every behavior and for every value of the constants. There is no other cause to look
for, and a fix that rules the event out is enough.

* `invite_once`: an invite token is called one-time (`invite.go:21`), yet two
  acceptances that overlap both succeed: the check (line 105) and the mark (line
  128) are separate statements and the mark does not count the rows it changed.
  `AcceptedTwiceOnlyByOverlap`: it takes two acceptances of one token between their
  checks and their marks; repetition, restarts, expiry and aborts alone never do it.
* `org_owner`: a sign-up that fails after `CreateOrg` leaves an organisation
  without an owner, while the next sign-up with its slug is told to ask an owner
  for an invite (`local.go:88`). `OwnerlessOnlyByAbortOrDemotion`: it takes a sign-up
  that stops between the two statements, or an invite for the creator herself, whose
  acceptance replaces her role (`invite.go:123`).
* `set_password`: the credential is looked up by username but written by user
  id (`password.go:43-45`). If another user's username is the email of this one,
  nothing is written and the answer is ok. `PasswordLostOnlyByName`: no interleaving
  or failure loses a password as long as no username is another user's email.
* `custom_ids`: `lpad` cuts a number of five digits (line 119), so after 9999
  work orders in a year every creation runs out of tries, although the retry is
  called race-safe (line 108). `ExhaustedOnlyByCapOrClients`: as long as the numbers
  fit, the tries only run out where clients supplied as many custom ids in a row as
  there are tries; other creations, updates, deletions and rollbacks never cost one.
* `link_succeeds`: "On success, identity is linked and session is issued"
  (`docs/auth_flow.md:146`), but `LinkIdentity` does nothing on a conflict and the
  handler does not look at the row count (`linking.go:160`), and it takes a failed
  lookup (line 151) for no row. If another user's link of the identity is there by
  then, a session is issued for a user the identity is not linked to; she still
  proved herself by her password (`SessionsAreProven`). `NotLinkedOnlyByRivalOrMiss`:
  it takes two links of one identity for different users past their checks at once,
  or a check that takes a failed query for no row; a repeated completion, an expired
  or lost pending link and a restart do not.

### What else the models brought to light

No document says otherwise of these, or no run was spent on them:

* A task that is completed when it is complete stashes `COMPLETE` and cannot be
  reopened (`tasks.sql` 124-138); reopening a task that is not complete overwrites
  its value with the stash or with `OPEN`. `ReopenRestores` leaves both out.
* A page past the end of the work-order list reports a total of 0
  (`repo/work_orders.go:73`), and a request without a page size gets no rows: the
  handler sends 0 on, where the statement would take 50 for none.
* The searches sort by `created_at` alone. Rows of one statement, such as the demo
  data, share it, and a client may miss some of them.
* A login or a link passes without a code when the query for the factor fails
  (`repo/auth.go:46`), although "If TOTP is enabled, enforce it" (`local.go:157`) and
  "If user has TOTP enabled, `totp_code` is required; otherwise 401"
  (`docs/auth_flow.md:85`); `MFAEnforce` refuses in the same case. No run was spent on
  it: the counterexample is that one query. `PassedOnlyByMiss` proves that there is
  no other: while no such query fails, every login and link gives its code.
* A sign-up with the email of a user that there is already, an invited one say, gives
  her a credential if she has none and a local session, and asks for no code even if
  she has set up TOTP with the session of the invite (`local.go` 66-109).
* TOTP setup replaces the secret in use before the new one was verified.
* Tasks of a preventive-maintenance template have no work order (`work_order_id` is
  nullable, `005_tasks.up.sql:84`, the check for a parent is commented out, lines
  94-96, and the demo data has one, `006_seed_demo.up.sql` 586-600). No endpoint lists
  them, though one can be toggled and deleted by id. `TasksListed` says of them that
  they stay out of the lists of all work orders.
* A metadata body of any status is saved. A start that reads it panics, and the next
  start reads it again: only a refresher heals the file, and it runs only after a
  start that succeeded, so no property says that such starts come to an end. The same holds after a change of the Microsoft tenant, as
  the file is named after the host.
* Rate limiter, denylist and log enricher look for the session in a context into
  which `RequireAuth` has not put it yet, and nothing fills the denylist. The routes
  below `/orgs/{slug}` have `RequireRole` without `RequireAuth` and always answer 401.

## 4. What is proved

`tlapm` checks every proof; the constants satisfy only the assumptions stated in
the modules (`SessionAssumption`, `LimiterAssumption`, `DirectoryAssumption`,
`LinkingAssumption`, `WorkOrderAssumption`, `CatalogueAssumption`, `TaskAssumption`,
`RecordsAssumption`, `CacheAssumption`, `GateAssumption`, `LocalsAssumption`).
`RecordsAssumption` says what the statements take from the schema: which columns a
patch can set and of which types, that references are to entities there are, that
tasks start with no stash, and that the work order of a task, if it has one, exists
(a foreign key).

| Module | Theorems |
|---|---|
| `SessionStoreProofs` | `TypeCorrect`, `RevocationHolds`, `NothingResurrected`, `StoreImplementsService` |
| `RateLimiterProofs` | `TypeCorrect`, `SpendBounded`, `NeverLockedOut`, `LimiterImplementsPacer` |
| `OnboardingProofs` | `TypeCorrect`, `OneOwner`, `SignupKeepsItsWord`, `SessionsNeedMembership`, `InviteNotLost`, `CredentialsAreTheirOwners`, `OnboardingImplementsMembership` |
| `OnboardingCauses` | `AcceptedTwiceOnlyByOverlap`, `PasswordLostOnlyByName`, `OwnerlessOnlyByAbortOrDemotion` |
| `IdentityLinkingProofs` | `TypeCorrect`, `CallbackSessionsSound`, `LinkingImplementsRegistry`, `SessionsOnlyForProven`, `NotLinkedOnlyByRivalOrMiss` |
| `WorkOrdersProofs` | `TypeCorrect`, `NumbersUnique`, `NoOrphans`, `NoDeadlock`, `ImplementsTable`, `ExhaustedOnlyByCapOrClients` |
| `RecordsProofs` | `TypeCorrect`, `OrdersWalked`, `SearchesWalked`, `PagesAreDetermined`, `AllTasksListed`, `TasksReopened` |
| `ServerProofs` | `TypeCorrect`, `ListensRight`, `StartNeverStuck`, `StartsOffline`, `ServedIsVetted`, `FactorAsked`, `PassedOnlyByMiss` |

The inductive invariants, and why the checked properties need them:

* *Session store.* A goroutine past `Read` must hold a copy of an entry that was
  there after it arrived; so the invariant says that a copy's id was issued, was
  not revoked on arrival, and that its expiry is that of the entry whenever the
  entry is still there. The refinement follows step by step: `Read` is the look,
  `Recheck` the confirmation, `Tick` lets sessions run out, and `Evict` and
  `Sweep` remove only what is out of force already.
* *Rate limiter.* Tokens and grants are conserved (`Conserved`: tokens and
  grants together never exceed the burst plus the time accounted for), and a
  stale reading pushes tokens below zero by no more than the step back it took
  (`DebtLimited`). The first gives `SpendBound`, the second `NoLockout`.
* *Onboarding.* The invariant says what each request in flight relies on: the
  locals it will need are there, a sign-up past a statement still has what the
  statement wrote, and an acceptance holds a true copy of its invite. No step of
  any request takes from another what it relies on (`StepNothingLost`). The
  refinement needs one fact more (`FoundedInv`): until the founder has become Owner,
  an organisation has no member, no invite and so no acceptance under way, hence the
  statement that writes the Owner finds it empty. Every other statement is then one
  step of `Membership` or none (`StepMembers`).
* *Causes.* Each of these theorems carries its event as a hypothesis on the behavior
  (`[]~AcceptancesOverlap`, say) and an invariant of the steps that are left:
  `OnceInv` counts acceptances against the mark, `FoundInv` says that a credential
  found by name is the user's own, `OwnedInv` that an organisation has its Owner or
  a sign-up about to write it.
* *Linking.* The invariant (`Relies`) says what a request holds at each statement:
  its identity came with its email, its user has that email and a password once
  the password is checked, and a callback past its lookup holds the row's user.
  No step takes any of it away (`NothingLost`), so a step has to be looked at only
  for the request that makes it. `LinkIdentity` is the only step that binds.
  `ProvenInv` adds that a bound identity's user has proved herself, from which the
  callback takes its session. `LinkedInv` says that a link past its check may still
  bind; only a rival past the same check, or a check that missed, takes that away.
* *Work orders.* The invariant says who holds what: a transaction past `Bump` has the
  counter row, one past `UpdateRow` has its work order's row, and what a creation has
  inserted nobody else has (`CreateInv`, `UpdateInv`, `LockInv`). Numbers that are
  given out are below the counter, committed or held (`CounterInv`).
  A row's lock is held by a request that waits for nothing, a custom id by one that
  is about to commit, and the counter by one that waits for a custom id at most, so
  one can always go on (`NoWaitCycle`). In the refinement the commits are the steps of
  the table and everything before them stutters. For the tries of the generator,
  `TriedInv` says that every number a creation has tried in vain is a client's: its
  own numbers are above all issued ones, as it holds the counter.
* *Records.* A walk keeps its promise because a row that has not been given is at or
  behind the offset of the next page (`WalkInv`), which needs a lemma about pages: a
  row that ties with none is on the page that its rank says (`PageKeeps`). It needs in
  turn that the list's order is strict and, with the id as its last key, total.
  `PagesAreDetermined` needs that it is transitive too, across keys, missing keys,
  creation times and ids (`ListLinear`). In a line the ranks are 0, 1, 2 and so on, so
  the first k rows are those of rank below k (`FirstRows`, by counting, not by
  induction) and no others (`OnePrefix`), and a page is what two such sets differ by.
  `TaskInv` says that the stash is the last value that was not `COMPLETE`, and that
  the work order a task names is the one it was made for, and exists.
* *Server.* Every configured provider is accounted for: its goroutine runs, or its
  result is in the channel, or its document is in the map (`AccountInv`, `TallyInv`),
  so all are there when the last result is taken. `CleanInv` follows a start on good
  files, which never leaves them for the network. At the gate a request past
  `MFAEnforce` names a sid whose session, if it is still there, was vetted (`Looked`):
  sids are never used twice (`SidInv`) and a secret is never removed. A request that
  is unproven had a factor on arrival, so still has one, and only a code or a miss
  takes it further (`Proving`). The credential of a sign-up is written once, by the
  request that may begin the session or by nobody (`SignupInv`). What holds of a
  request (`Good`) depends on its own locals and on things that last, so no other
  request takes it away (`GoodKept`), and each action has to be looked at only for the
  request that makes it.

Only model-checked: the liveness of the sweeper, `BootDecides` and `RefreshHeals`
(temporal proofs under fairness are out of the prover's reach); of `BootDecides` the
safety half is `StartNeverStuck`.

## 5. Not modelled

* `StartHandler`, state and nonce cookies, token exchange and claims: they decide
  only whether a callback gets as far as its identity, and most of it is the
  provider's.
* The JSON of the work-order detail query and the scanning of rows into structs:
  layout, no state.
* The GitHub provider (`provider.go` 134-144): it has no metadata, and is put together
  without a request after the results are in.
* The pages `/invite`, `/invite/accept` and `/mfa` and the redirect of `StartHandler`
  read no session; `/static/` and `/` stand for what needs none.
* Configuration, logging, request ids, CORS and the denylist: no step depends on
  them. `OptionalAuth` is on no route, `MarkComplete` is on none either, and
  the handlers that would create and update tasks only say so.
* The admin's list of sessions reads the store under its lock and shows it.
* The daily salt of the limiter's keys: a changed salt is a new key.
* Password hashing and the random ids and tokens are taken to be perfect.
* `resolveOrgForSignup` and the callback's lines 153-172 cannot be reached.
  `docs/invites.md:21` asks for a logged-in user with the invite's email, which
  `InviteAcceptHandler` does not check (the route is public); the model follows the
  code.

## 6. What could come next

The modules above were written in the order accounts, sessions, limiter, work
orders, linking, lists and tasks, start and gate. What would add most to them:

1. `StartHandler` and the callback's state and nonce, with two tabs of one browser
   that share a cookie.
2. The daily salt: what an address is granted around midnight.
3. The walk of `Records` through `WorkOrders` itself instead of through its atomic
   writes, for the requests that create and renumber during a walk.
