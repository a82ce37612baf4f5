----------------------------- MODULE RateLimiter ------------------------------
(***************************************************************************)
(* internal/middleware/rate_limiter.go: a token bucket per key, shared by  *)
(* all handler goroutines.  allow() reads the clock BEFORE it takes the    *)
(* mutex, so goroutines may update a bucket with clock readings that are   *)
(* out of order and the elapsed time may be negative.                      *)
(*                                                                         *)
(* Units: one tick of the clock refills one unit of a bucket, a request    *)
(* costs Cost units (the code's 1.0 token, Cost ticks at `rate`) and a     *)
(* bucket holds Burst units (the code's `capacity`, burst * Cost).         *)
(***************************************************************************)
EXTENDS Integers

CONSTANTS Keys,      \* what RateLimitWith makes of a principal
          Requests,  \* handler goroutines
          Cost,      \* units a granted request takes
          Burst,     \* units a bucket holds
          MaxClock   \* bound: the clock stops here

ASSUME LimiterAssumption ==
  /\ Cost \in Nat \ {0}
  /\ Burst \in Nat
  /\ Burst >= Cost     \* burst <= 0 is replaced by 1
  /\ MaxClock \in Nat
  /\ Keys # {}

VARIABLES
  clock,     \* time.Now()
  buckets,   \* the keys of limiter.buckets
  tokens,    \* bucket.tokens
  last,      \* bucket.lastRefill
  pc,        \* where each goroutine is
  key,       \* its key
  now,       \* its reading of the clock
  created,   \* history: the clock reading that created the bucket
  spent,     \* history: units granted to a key
  latest     \* history: the latest reading with which a key was granted

vars == <<clock, buckets, tokens, last, pc, key, now, created, spent, latest>>

Smaller(a, b) == IF a < b THEN a ELSE b
Larger(a, b)  == IF a > b THEN a ELSE b

Init ==
  /\ clock = 0
  /\ buckets = {}
  /\ tokens = [k \in Keys |-> 0]
  /\ last = [k \in Keys |-> 0]
  /\ pc = [r \in Requests |-> "idle"]
  /\ key = [r \in Requests |-> CHOOSE k \in Keys : TRUE]
  /\ now = [r \in Requests |-> 0]
  /\ created = [k \in Keys |-> 0]
  /\ spent = [k \in Keys |-> 0]
  /\ latest = [k \in Keys |-> 0]

\* RateLimitWith has the key and allow() reads the clock.
Arrive(r, k) ==
  /\ pc[r] = "idle"
  /\ pc' = [pc EXCEPT ![r] = "lock"]
  /\ key' = [key EXCEPT ![r] = k]
  /\ now' = [now EXCEPT ![r] = clock]
  /\ UNCHANGED <<clock, buckets, tokens, last, created, spent, latest>>

\* A new bucket is full and was last refilled now.
TokensBefore(r) == IF key[r] \in buckets THEN tokens[key[r]] ELSE Burst
LastBefore(r)   == IF key[r] \in buckets THEN last[key[r]] ELSE now[r]

\* A negative elapsed time counted as none, while lastRefill still goes back.
ClampedRefill(r) ==
  Smaller(Burst, TokensBefore(r) + Larger(0, now[r] - LastBefore(r)))

\* A refill that may fill a bucket past its capacity.
UncappedRefill(r) == TokensBefore(r) + (now[r] - LastBefore(r))

\* Refill; `elapsed` is negative when a later reading got the mutex first.
Refilled(r) == Smaller(Burst, TokensBefore(r) + (now[r] - LastBefore(r)))

\* The part of the critical section both outcomes share.
Update(r, left) ==
  /\ pc[r] = "lock"
  /\ buckets' = buckets \cup {key[r]}
  /\ tokens' = [tokens EXCEPT ![key[r]] = left]
  /\ last' = [last EXCEPT ![key[r]] = now[r]]
  /\ created' = IF key[r] \in buckets THEN created
                ELSE [created EXCEPT ![key[r]] = now[r]]
  /\ pc' = [pc EXCEPT ![r] = "idle"]
  /\ now' = [now EXCEPT ![r] = 0]
  /\ UNCHANGED <<clock, key>>

\* The request goes on to the next handler.
Grant(r) ==
  /\ Refilled(r) >= Cost
  /\ Update(r, Refilled(r) - Cost)
  /\ spent' = [spent EXCEPT ![key[r]] = @ + Cost]
  /\ latest' = [latest EXCEPT ![key[r]] =
                  IF key[r] \in buckets THEN Larger(@, now[r]) ELSE now[r]]

\* A refusal that moves lastRefill on but does not keep the refill.
RefuseLosingRefill(r) ==
  /\ Refilled(r) < Cost
  /\ Update(r, TokensBefore(r))
  /\ UNCHANGED <<spent, latest>>

\* 429, and the refill is kept.
Refuse(r) ==
  /\ Refilled(r) < Cost
  /\ Update(r, Refilled(r))
  /\ UNCHANGED <<spent, latest>>

Tick ==
  /\ clock < MaxClock
  /\ clock' = clock + 1
  /\ UNCHANGED <<buckets, tokens, last, pc, key, now, created, spent, latest>>

Next ==
  \/ \E r \in Requests, k \in Keys : Arrive(r, k)
  \/ \E r \in Requests : Grant(r) \/ Refuse(r)
  \/ Tick

Spec == Init /\ [][Next]_vars

-------------------------------------------------------------------------------

TypeOK ==
  /\ clock \in Nat
  /\ buckets \subseteq Keys
  /\ tokens \in [Keys -> Int]
  /\ \A k \in Keys : tokens[k] <= Burst
  /\ last \in [Keys -> Nat]
  /\ pc \in [Requests -> {"idle", "lock"}]
  /\ key \in [Requests -> Keys]
  /\ now \in [Requests -> Nat]
  /\ created \in [Keys -> Nat]
  /\ spent \in [Keys -> Nat]
  /\ latest \in [Keys -> Nat]

\* Over the life of a bucket a key is never granted more than a full bucket plus
\* what has flowed in since the bucket was made, however many goroutines decide
\* at once and however late each of them gets the mutex.
SpendBound ==
  \A k \in buckets : spent[k] <= Burst + (clock - created[k])

\* No key is locked out: a request that read the clock at least one token's time
\* after the latest grant to its key is never refused.  Refusals in between cost
\* nothing, and neither do refusals of stale readings.
NoLockout ==
  [][\A r \in Requests :
       (pc[r] = "lock" /\ key[r] \in buckets /\ now[r] >= latest[key[r]] + Cost
          /\ pc'[r] = "idle")
       => spent'[key[r]] = spent[key[r]] + Cost]_vars

-------------------------------------------------------------------------------
(* A bucket is a due time in disguise: last - tokens.                       *)

P == INSTANCE Pacer WITH
       Times <- 0 .. MaxClock,
       due   <- [k \in Keys |-> IF k \in buckets THEN last[k] - tokens[k] ELSE 0],
       seen  <- buckets

\* With clock readings out of order the limiter still paces every key as if it
\* kept one due time: the order of the goroutines in the mutex cannot add tokens.
PacerSpec == P!Spec
===============================================================================
