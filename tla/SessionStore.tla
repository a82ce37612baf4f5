----------------------------- MODULE SessionStore -----------------------------
(***************************************************************************)
(* internal/session/store.go and its callers in internal/auth/session.go:  *)
(* the map of sessions, the two critical sections of Get, the sweeper      *)
(* goroutine and the requests that use them.  Each step is one critical    *)
(* section of the store's RWMutex or one reading of the clock, so every    *)
(* interleaving of handler goroutines and sweeper is a behaviour.          *)
(***************************************************************************)
EXTENDS Naturals

CONSTANTS Ids,       \* uuids that Create may draw
          Requests,  \* handler goroutines
          Lifetime,  \* the 8 hours of a session, in clock ticks
          MaxClock,  \* bound: the clock stops here
          Absent     \* no entry in the map

ASSUME SessionAssumption ==
  /\ Lifetime \in Nat \ {0}
  /\ MaxClock \in Nat \ {0}
  /\ Absent \notin Nat
  /\ Ids # {}

VARIABLES
  data,      \* Store.data: the expiry of each id's session, or Absent
  issued,    \* ids handed out; they live on in browsers' cookies
  clock,     \* time.Now()
  pc,        \* where each handler goroutine is
  sid,       \* the id in the request's cookie
  exp,       \* the expiry in the goroutine's local copy of the session
  sweepPc,   \* the sweeper waits for its ticker or has been woken
  sweepNow,  \* the sweeper's `now`
  revoked,   \* history: ids whose logout has completed
  arrival    \* history: what was revoked when the request arrived

vars == <<data, issued, clock, pc, sid, exp, sweepPc, sweepNow, revoked, arrival>>

PCs == {"idle", "create", "get", "check", "evict", "recheck", "serve", "deny"}

\* !Expiry.IsZero() && Expiry.Before(t): the zero time never expires.
Expired(e, t) == e # 0 /\ e < t

Present(id) == data[id] # Absent

Init ==
  /\ data = [id \in Ids |-> Absent]
  /\ issued = {}
  /\ clock = 1
  /\ pc = [r \in Requests |-> "idle"]
  /\ sid = [r \in Requests |-> CHOOSE id \in Ids : TRUE]
  /\ exp = [r \in Requests |-> 0]
  /\ sweepPc = "wait"
  /\ sweepNow = 0
  /\ revoked = {}
  /\ arrival = [r \in Requests |-> {}]

goto(r, l) == pc' = [pc EXCEPT ![r] = l]

\* A sign-in handler has authenticated its user: it reads the clock for Expiry.
Login(r) ==
  /\ pc[r] = "idle"
  /\ exp' = [exp EXCEPT ![r] = clock + Lifetime]
  /\ goto(r, "create")
  /\ UNCHANGED <<data, issued, clock, sid, sweepPc, sweepNow, revoked, arrival>>

\* An id that is not drawn afresh, as when it is derived from the user's.
CreateReusing(r) ==
  /\ pc[r] = "create"
  /\ \E id \in Ids :
       /\ data' = [data EXCEPT ![id] = exp[r]]
       /\ issued' = issued \cup {id}
  /\ exp' = [exp EXCEPT ![r] = 0]
  /\ goto(r, "idle")
  /\ UNCHANGED <<clock, sid, sweepPc, sweepNow, revoked, arrival>>

\* SetSessionCookie: Create stores the session under a fresh uuid.
Create(r) ==
  /\ pc[r] = "create"
  /\ \E id \in Ids \ issued :
       /\ data' = [data EXCEPT ![id] = exp[r]]
       /\ issued' = issued \cup {id}
  /\ exp' = [exp EXCEPT ![r] = 0]
  /\ goto(r, "idle")
  /\ UNCHANGED <<clock, sid, sweepPc, sweepNow, revoked, arrival>>

\* A request presents the cookie of a session that was issued at some time.
Arrive(r, id) ==
  /\ pc[r] = "idle"
  /\ sid' = [sid EXCEPT ![r] = id]
  /\ arrival' = [arrival EXCEPT ![r] = revoked]
  /\ goto(r, "get")
  /\ UNCHANGED <<data, issued, clock, exp, sweepPc, sweepNow, revoked>>

\* Get without the `ok` of the map lookup.
ReadIgnoringOk(r) ==
  /\ pc[r] = "get"
  /\ exp' = [exp EXCEPT ![r] = data[sid[r]]]
  /\ goto(r, "check")
  /\ UNCHANGED <<data, issued, clock, sid, sweepPc, sweepNow, revoked, arrival>>

\* Get, first critical section: copy the entry under the read lock.
Read(r) ==
  /\ pc[r] = "get"
  /\ IF Present(sid[r])
     THEN exp' = [exp EXCEPT ![r] = data[sid[r]]] /\ goto(r, "check")
     ELSE exp' = exp /\ goto(r, "deny")
  /\ UNCHANGED <<data, issued, clock, sid, sweepPc, sweepNow, revoked, arrival>>

\* Get, after the unlock: compare the copy with the clock.
Check(r) ==
  /\ pc[r] = "check"
  /\ goto(r, IF Expired(exp[r], clock) THEN "evict" ELSE "recheck")
  /\ UNCHANGED <<data, issued, clock, sid, exp, sweepPc, sweepNow, revoked, arrival>>

\* Get, second critical section: delete lazily, without looking again.
Evict(r) ==
  /\ pc[r] = "evict"
  /\ data' = [data EXCEPT ![sid[r]] = Absent]
  /\ goto(r, "deny")
  /\ UNCHANGED <<issued, clock, sid, exp, sweepPc, sweepNow, revoked, arrival>>

\* A sliding session, written back after the read lock was dropped.
RecheckAndRenew(r) ==
  /\ pc[r] = "recheck"
  /\ IF Expired(exp[r], clock)
     THEN data' = data /\ goto(r, "deny")
     ELSE data' = [data EXCEPT ![sid[r]] = clock + Lifetime] /\ goto(r, "serve")
  /\ UNCHANGED <<issued, clock, sid, exp, sweepPc, sweepNow, revoked, arrival>>

\* ReadSession looks at the clock once more before it returns its copy.
Recheck(r) ==
  /\ pc[r] = "recheck"
  /\ goto(r, IF Expired(exp[r], clock) THEN "deny" ELSE "serve")
  /\ UNCHANGED <<data, issued, clock, sid, exp, sweepPc, sweepNow, revoked, arrival>>

\* The handler has answered: 401, or whatever it does for a session's owner.
Finish(r) ==
  /\ pc[r] \in {"serve", "deny"}
  /\ exp' = [exp EXCEPT ![r] = 0]
  /\ arrival' = [arrival EXCEPT ![r] = {}]
  /\ goto(r, "idle")
  /\ UNCHANGED <<data, issued, clock, sid, sweepPc, sweepNow, revoked>>

\* LogoutHandler: Delete the cookie's session, whoever holds a copy of it.
Logout(id) ==
  /\ id \in issued
  /\ data' = [data EXCEPT ![id] = Absent]
  /\ revoked' = revoked \cup {id}
  /\ UNCHANGED <<issued, clock, pc, sid, exp, sweepPc, sweepNow, arrival>>

\* A sweeper that keeps the clock reading of its first round.
SweepTickStale ==
  /\ sweepPc = "wait"
  /\ sweepPc' = "sweep"
  /\ sweepNow' = IF sweepNow = 0 THEN clock ELSE sweepNow
  /\ UNCHANGED <<data, issued, clock, pc, sid, exp, revoked, arrival>>

\* The ticker fires; `now` is read before the lock is taken.
SweepTick ==
  /\ sweepPc = "wait"
  /\ sweepPc' = "sweep"
  /\ sweepNow' = clock
  /\ UNCHANGED <<data, issued, clock, pc, sid, exp, revoked, arrival>>

\* A sweep that takes the sessions expiring at this very instant too.
SweepAtExpiry ==
  /\ sweepPc = "sweep"
  /\ sweepPc' = "wait"
  /\ data' = [id \in Ids |-> IF Present(id) /\ data[id] # 0 /\ data[id] <= sweepNow
                             THEN Absent ELSE data[id]]
  /\ UNCHANGED <<issued, clock, pc, sid, exp, sweepNow, revoked, arrival>>

\* One pass over the map under the write lock.
Sweep ==
  /\ sweepPc = "sweep"
  /\ sweepPc' = "wait"
  /\ data' = [id \in Ids |-> IF Present(id) /\ Expired(data[id], sweepNow)
                             THEN Absent ELSE data[id]]
  /\ UNCHANGED <<issued, clock, pc, sid, exp, sweepNow, revoked, arrival>>

Tick ==
  /\ clock < MaxClock
  /\ clock' = clock + 1
  /\ UNCHANGED <<data, issued, pc, sid, exp, sweepPc, sweepNow, revoked, arrival>>

\* The process dies and starts again: the map is only in memory.
Restart ==
  /\ data' = [id \in Ids |-> Absent]
  /\ pc' = [r \in Requests |-> "idle"]
  /\ exp' = [r \in Requests |-> 0]
  /\ arrival' = [r \in Requests |-> {}]
  /\ sweepPc' = "wait"
  /\ sweepNow' = 0
  /\ UNCHANGED <<issued, clock, sid, revoked>>

Step(r) == \/ Login(r) \/ Create(r) \/ Read(r) \/ Check(r)
           \/ Evict(r) \/ Recheck(r) \/ Finish(r)

Next ==
  \/ \E r \in Requests : Step(r)
  \/ \E r \in Requests, id \in issued : Arrive(r, id)
  \/ \E id \in issued : Logout(id)
  \/ SweepTick
  \/ Sweep
  \/ Tick
  \/ Restart

Spec == Init /\ [][Next]_vars

\* StartSweeper runs for as long as the process does (main.go hands it
\* context.Background()): its ticker keeps firing and its pass gets the lock.
FairSpec == Spec /\ WF_vars(SweepTick) /\ WF_vars(Sweep)

-------------------------------------------------------------------------------

TypeOK ==
  /\ data \in [Ids -> Nat \cup {Absent}]
  /\ issued \subseteq Ids
  /\ clock \in Nat
  /\ pc \in [Requests -> PCs]
  /\ sid \in [Requests -> Ids]
  /\ exp \in [Requests -> Nat]
  /\ sweepPc \in {"wait", "sweep"}
  /\ sweepNow \in Nat
  /\ revoked \subseteq Ids
  /\ arrival \in [Requests -> SUBSET Ids]

\* A request that arrives after a session's logout has completed is never let
\* through with that session: neither a copy taken by Get nor a deletion racing
\* with it keeps a revoked session usable (store.go Get and Delete).
RevokedNeverServed ==
  \A r \in Requests : pc[r] = "serve" => sid[r] \notin arrival[r]

\* Once the entry of an issued id is gone - by logout, lazy deletion, sweep or
\* restart - nothing ever puts it back, whatever copies goroutines still hold.
NoResurrection ==
  [][\A id \in issued : ~Present(id) => data'[id] = Absent]_vars

\* The map does not grow with dead sessions: every session that has expired is
\* eventually removed even if its cookie is never presented again.
ExpiredEventuallyRemoved ==
  \A id \in Ids :
    (Present(id) /\ Expired(data[id], clock)) ~> ~Present(id)

-------------------------------------------------------------------------------
(* The store implements SessionService: an entry is in force while it has   *)
(* not expired, and a copied entry is a tentative yes until it runs out.    *)


Copied(r) == pc[r] \in {"check", "recheck"}

AnswerOf(r) ==
  IF pc[r] \in {"idle", "create"} THEN "none"
  ELSE IF pc[r] = "get" THEN "asked"
  ELSE IF pc[r] = "serve" THEN "admitted"
  ELSE IF Copied(r) /\ ~Expired(exp[r], clock) THEN "tentative"
  ELSE "refused"

UntilOf(r) == IF Copied(r) /\ ~Expired(exp[r], clock) THEN exp[r] ELSE 0

ForceOf(id) == IF Present(id) /\ ~Expired(data[id], clock) THEN data[id] ELSE Absent

Service == INSTANCE SessionService WITH
             Expiries <- 0 .. MaxClock + Lifetime,
             force  <- [id \in Ids |-> ForceOf(id)],
             opened <- issued,
             now    <- clock,
             answer <- [r \in Requests |-> AnswerOf(r)],
             about  <- sid,
             until  <- [r \in Requests |-> UntilOf(r)]

\* Whatever the interleaving, the store behaves like SessionService: lazy
\* deletion and sweeps remove nothing a request could still have used, and every
\* answer is one the atomic service could have given at some instant between the
\* request's arrival and its answer.
ServiceSpec == Service!Spec
===============================================================================
