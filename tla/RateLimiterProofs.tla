-------------------------- MODULE RateLimiterProofs ---------------------------
(***************************************************************************)
(* Theorems about RateLimiter, for any keys, any number of goroutines, any *)
(* burst and cost, and clock readings however far out of order.            *)
(***************************************************************************)
EXTENDS RateLimiter, TLAPS

\* Readings of the clock lie in the past.
ReadingInv ==
  /\ clock <= MaxClock
  /\ \A r \in Requests : now[r] <= clock
  /\ \A k \in Keys : created[k] <= clock /\ last[k] <= clock /\ latest[k] <= clock

\* A key without a bucket has been granted nothing.
FreshInv == \A k \in Keys \ buckets : spent[k] = 0

\* Tokens are never created: what is in the bucket and what was taken out never
\* exceed what it was made with plus the time it accounts for.
Conserved(k) == tokens[k] + spent[k] <= Burst + (last[k] - created[k])
ConservationInv == \A k \in buckets : Conserved(k)

\* A stale reading may push the tokens below zero, but never further than the
\* step back in time that it took from the latest granted reading.
DebtLimited(k) == tokens[k] >= last[k] - latest[k]
DebtInv == \A k \in buckets : DebtLimited(k)

IInv == TypeOK /\ ReadingInv /\ FreshInv /\ ConservationInv /\ DebtInv

-------------------------------------------------------------------------------

\* There is no bucket at the start.
LEMMA InitIInv == Init => IInv
<1> SUFFICES ASSUME Init PROVE IInv
  OBVIOUS
<1> USE LimiterAssumption DEF Init
<1>1. TypeOK
  <2>1. (CHOOSE k \in Keys : TRUE) \in Keys
    OBVIOUS
  <2>2. key \in [Requests -> Keys]
    BY <2>1
  <2>3. /\ tokens \in [Keys -> Int]
        /\ last \in [Keys -> Nat] /\ created \in [Keys -> Nat]
        /\ spent \in [Keys -> Nat] /\ latest \in [Keys -> Nat]
    OBVIOUS
  <2>4. /\ clock \in Nat /\ buckets \subseteq Keys
        /\ pc \in [Requests -> {"idle", "lock"}]
        /\ now \in [Requests -> Nat]
    OBVIOUS
  <2>5. \A k \in Keys : tokens[k] <= Burst
    <3> TAKE k \in Keys
    <3>1. tokens[k] = 0
      OBVIOUS
    <3>2. 0 <= Burst
      BY DEF LimiterAssumption
    <3>3. QED
      BY ONLY <3>1, <3>2
  <2>6. QED
    BY <2>2, <2>3, <2>4, <2>5 DEF TypeOK
<1>2. ReadingInv /\ FreshInv /\ ConservationInv /\ DebtInv
  BY DEF ReadingInv, FreshInv, ConservationInv, DebtInv
<1>3. QED
  BY <1>1, <1>2 DEF IInv

\* Every step preserves the types.
LEMMA StepTypeOK == TypeOK /\ [Next]_vars => TypeOK'
<1> SUFFICES ASSUME TypeOK, [Next]_vars PROVE TypeOK'
  OBVIOUS
<1> USE LimiterAssumption DEF TypeOK
<1>1. ASSUME NEW r \in Requests, NEW k \in Keys, Arrive(r, k) PROVE TypeOK'
  BY <1>1 DEF Arrive
<1>2. ASSUME NEW r \in Requests, Grant(r) PROVE TypeOK'
  BY <1>2 DEF Grant, Update, Refilled, TokensBefore, LastBefore, Smaller, Larger
<1>3. ASSUME NEW r \in Requests, Refuse(r) PROVE TypeOK'
  BY <1>3 DEF Refuse, Update, Refilled, TokensBefore, LastBefore, Smaller
<1>4. CASE Tick
  BY <1>4 DEF Tick
<1>5. CASE UNCHANGED vars
  BY <1>5 DEF vars
<1>6. QED
  BY <1>1, <1>2, <1>3, <1>4, <1>5 DEF Next

\* The arithmetic of one refill: it keeps within the burst, adds no more than the
\* (possibly negative) time that has passed, and leaves a key that has not been
\* granted for a token's time with a whole token.
LEMMA RefillBounds ==
  ASSUME IInv, NEW r \in Requests, key[r] \in buckets
  PROVE  /\ Refilled(r) \in Int
         /\ Refilled(r) <= Burst
         /\ Refilled(r) <= tokens[key[r]] + (now[r] - last[key[r]])
         /\ Refilled(r) < Cost => Refilled(r) = tokens[key[r]] + (now[r] - last[key[r]])
         /\ now[r] >= latest[key[r]] + Cost => Refilled(r) >= Cost
  BY LimiterAssumption
     DEF IInv, TypeOK, DebtInv, DebtLimited, Refilled, TokensBefore, LastBefore, Smaller

\* A bucket that is being made is full.
LEMMA NewBucketFull ==
  ASSUME IInv, NEW r \in Requests, key[r] \notin buckets
  PROVE  Refilled(r) = Burst
  BY LimiterAssumption
     DEF IInv, TypeOK, Refilled, TokensBefore, LastBefore, Smaller


\* The invariant is inductive: a decision moves tokens, time and grants together.
LEMMA StepIInv == IInv /\ [Next]_vars => IInv'
<1> SUFFICES ASSUME IInv, [Next]_vars PROVE IInv'
  OBVIOUS
<1>0. TypeOK'
  BY StepTypeOK DEF IInv
<1> DEFINE Rest == ReadingInv /\ FreshInv /\ ConservationInv /\ DebtInv
<1> USE LimiterAssumption
<1>1. ASSUME NEW r \in Requests, NEW k \in Keys, Arrive(r, k) PROVE Rest'
  BY <1>1 DEF IInv, TypeOK, Arrive, ReadingInv, FreshInv, ConservationInv, DebtInv,
                    Conserved, DebtLimited
<1>2. ASSUME NEW r \in Requests, Grant(r) PROVE Rest'
  <2> USE <1>2 DEF Grant, Update
  <2>1. ReadingInv' /\ FreshInv'
    BY DEF IInv, TypeOK, ReadingInv, FreshInv, Larger
  <2>2. ASSUME NEW k \in buckets' PROVE Conserved(k)' /\ DebtLimited(k)'
    <3> USE DEF IInv, TypeOK, Conserved, DebtLimited
    <3>1. CASE k # key[r]
      BY <2>2, <3>1 DEF ConservationInv, DebtInv
    <3>2. CASE k = key[r] /\ k \in buckets
      BY <2>2, <3>2, RefillBounds DEF ConservationInv, DebtInv, Larger
    <3>3. CASE k = key[r] /\ k \notin buckets
      BY <2>2, <3>3, NewBucketFull DEF FreshInv
    <3>4. QED
      BY <3>1, <3>2, <3>3
  <2>3. QED
    BY <2>1, <2>2 DEF ConservationInv, DebtInv
<1>3. ASSUME NEW r \in Requests, Refuse(r) PROVE Rest'
  <2> USE <1>3 DEF Refuse, Update
  \* A request that makes the bucket finds it full, so it is not refused.
  <2>0. key[r] \in buckets
    BY NewBucketFull DEF IInv, TypeOK
  <2>1. ReadingInv' /\ FreshInv'
    BY <2>0 DEF IInv, TypeOK, ReadingInv, FreshInv
  <2>2. ConservationInv' /\ DebtInv'
    BY <2>0, RefillBounds DEF IInv, TypeOK, ConservationInv, DebtInv, Conserved, DebtLimited
  <2>3. QED
    BY <2>1, <2>2
<1>4. CASE Tick
  BY <1>4 DEF IInv, TypeOK, Tick, ReadingInv, FreshInv, ConservationInv, DebtInv, Conserved,
              DebtLimited
<1>5. CASE UNCHANGED vars
  BY <1>5 DEF IInv, TypeOK, vars, ReadingInv, FreshInv, ConservationInv, DebtInv, Conserved,
              DebtLimited
<1>6. QED
  BY <1>0, <1>1, <1>2, <1>3, <1>4, <1>5 DEF Next, IInv

\* Every reachable state satisfies the invariant.
THEOREM Invariance == Spec => []IInv
  BY InitIInv, StepIInv, PTL DEF Spec

\* The variables keep their types.
THEOREM TypeCorrect == Spec => []TypeOK
<1>1. IInv => TypeOK
  BY DEF IInv
<1>2. QED
  BY <1>1, Invariance, PTL

\* A key is never granted more than its burst plus what time has refilled.
THEOREM SpendBounded == Spec => []SpendBound
<1>1. ASSUME IInv, NEW k \in buckets
      PROVE  spent[k] <= Burst + (clock - created[k])
  <2>1. /\ clock \in Int /\ tokens[k] \in Int /\ last[k] \in Int
        /\ created[k] \in Int /\ spent[k] \in Int /\ latest[k] \in Int
    BY <1>1 DEF IInv, TypeOK
  <2>2. /\ tokens[k] + spent[k] <= Burst + (last[k] - created[k])
        /\ tokens[k] >= last[k] - latest[k]
    BY <1>1 DEF IInv, ConservationInv, DebtInv, Conserved, DebtLimited
  <2>3. latest[k] <= clock
    BY <1>1 DEF IInv, TypeOK, ReadingInv
  <2>4. QED
    BY <2>1, <2>2, <2>3, LimiterAssumption
<1>2. IInv => SpendBound
  BY <1>1 DEF SpendBound
<1>3. QED
  BY <1>2, Invariance, PTL

\* A request made a token's time after its key's latest grant is not refused.
THEOREM NeverLockedOut == Spec => NoLockout
<1> DEFINE A == \A r \in Requests :
             (pc[r] = "lock" /\ key[r] \in buckets /\ now[r] >= latest[key[r]] + Cost
                /\ pc'[r] = "idle")
             => spent'[key[r]] = spent[key[r]] + Cost
<1>1. IInv /\ [Next]_vars => [A]_vars
  <2> SUFFICES ASSUME IInv, Next PROVE A
    BY DEF vars
  <2> USE DEF IInv, TypeOK
  <2>1. ASSUME NEW r \in Requests, NEW k \in Keys, Arrive(r, k) PROVE A
    BY <2>1 DEF Arrive
  <2>2. ASSUME NEW r \in Requests, Grant(r) PROVE A
    BY <2>2 DEF Grant, Update
  <2>3. ASSUME NEW r \in Requests, Refuse(r) PROVE A
    BY <2>3, RefillBounds, LimiterAssumption DEF Refuse, Update
  <2>4. CASE Tick
    BY <2>4 DEF Tick
  <2>5. QED
    BY <2>1, <2>2, <2>3, <2>4 DEF Next
<1>2. QED
  BY <1>1, Invariance, PTL DEF Spec, NoLockout


-------------------------------------------------------------------------------
(* The limiter implements Pacer.                                              *)

\* No bucket, no due time.
LEMMA InitImplements == Init => P!Init
<1> SUFFICES ASSUME Init PROVE P!Init
  OBVIOUS
<1>1. buckets = {} /\ spent = [k \in Keys |-> 0]
  BY DEF Init
<1>2. QED
  BY <1>1 DEF P!Init

\* In terms of due times a refill is Pacer's DueAt, whatever the order of the
\* readings: Refilled(r) tokens at now[r] are due at now[r] - Refilled(r).
LEMMA RefillIsDue ==
  ASSUME IInv, NEW r \in Requests, pc[r] = "lock"
  PROVE  /\ P!DueAt(key[r], now[r]) = now[r] - Refilled(r)
         /\ P!DueAt(key[r], now[r]) \in Int
         /\ Refilled(r) \in Int
  BY LimiterAssumption
     DEF IInv, TypeOK, P!DueAt, P!Latest, Refilled, TokensBefore, LastBefore, Smaller

\* Every decision is a decision of the pacer; nothing else concerns it.
LEMMA StepImplements == IInv /\ [Next]_vars => [P!Next]_(P!vars)
<1> SUFFICES ASSUME IInv, [Next]_vars PROVE [P!Next]_(P!vars)
  OBVIOUS
<1> DEFINE Due == [k \in Keys |-> IF k \in buckets THEN last[k] - tokens[k] ELSE 0]
<1>1. ASSUME NEW r \in Requests, NEW k \in Keys, Arrive(r, k)
      PROVE  UNCHANGED P!vars
  BY <1>1 DEF Arrive, P!vars
<1>2. ASSUME NEW r \in Requests, NEW left \in Int, Update(r, left)
      PROVE  /\ Due' = [Due EXCEPT ![key[r]] = now[r] - left]
             /\ buckets' = buckets \cup {key[r]}
  <2>1. /\ last \in [Keys -> Nat] /\ tokens \in [Keys -> Int] /\ buckets \subseteq Keys
        /\ key[r] \in Keys /\ now[r] \in Nat
    BY DEF IInv, TypeOK
  <2>2. /\ tokens' = [tokens EXCEPT ![key[r]] = left]
        /\ last' = [last EXCEPT ![key[r]] = now[r]]
        /\ buckets' = buckets \cup {key[r]}
    BY <1>2 DEF Update
  <2>3. ASSUME NEW k \in Keys
        PROVE  Due'[k] = IF k = key[r] THEN now[r] - left ELSE Due[k]
    BY <2>1, <2>2
  <2>4. QED
    BY <2>1, <2>2, <2>3
<1>3. ASSUME NEW k \in Keys, NEW t \in 0 .. MaxClock, P!Grant(k, t) \/ P!Refuse(k, t)
      PROVE  P!Next
  BY <1>3 DEF P!Next
<1>4. ASSUME NEW r \in Requests
      PROVE  \E k \in Keys, t \in 0 .. MaxClock : k = key[r] /\ t = now[r]
  BY LimiterAssumption DEF IInv, TypeOK, ReadingInv
<1>5. ASSUME NEW r \in Requests, Grant(r) PROVE P!Next
  <2>1. PICK k \in Keys, t \in 0 .. MaxClock : k = key[r] /\ t = now[r]
    BY <1>4
  <2>2. pc[r] = "lock" /\ Update(r, Refilled(r) - Cost) /\ Refilled(r) >= Cost
    BY <1>5 DEF Grant, Update
  <2>3. /\ P!DueAt(k, t) = now[r] - Refilled(r)
        /\ Refilled(r) - Cost \in Int /\ Refilled(r) \in Int
    BY <2>1, <2>2, RefillIsDue, LimiterAssumption
  <2>4. Due' = [Due EXCEPT ![k] = P!DueAt(k, t) + Cost] /\ buckets' = buckets \cup {k}
    BY <1>2, <2>1, <2>2, <2>3, LimiterAssumption
  <2>5. P!DueAt(k, t) + Cost <= t /\ spent' = [spent EXCEPT ![k] = @ + Cost]
    BY <1>5, <2>1, <2>2, <2>3, LimiterAssumption DEF Grant
  <2>6. P!Grant(k, t)
    BY <2>4, <2>5 DEF P!Grant
  <2>7. QED
    BY <1>3, <2>6
<1>6. ASSUME NEW r \in Requests, Refuse(r) PROVE P!Next
  <2>1. PICK k \in Keys, t \in 0 .. MaxClock : k = key[r] /\ t = now[r]
    BY <1>4
  <2>2. pc[r] = "lock" /\ Update(r, Refilled(r)) /\ Refilled(r) < Cost
    BY <1>6 DEF Refuse, Update
  <2>3. P!DueAt(k, t) = now[r] - Refilled(r) /\ Refilled(r) \in Int
    BY <2>1, <2>2, RefillIsDue, LimiterAssumption
  <2>4. Due' = [Due EXCEPT ![k] = P!DueAt(k, t)] /\ buckets' = buckets \cup {k}
    BY <1>2, <2>1, <2>2, <2>3
  <2>5. P!DueAt(k, t) + Cost > t /\ UNCHANGED spent
    BY <1>6, <2>1, <2>2, <2>3, LimiterAssumption DEF Refuse
  <2>6. P!Refuse(k, t)
    BY <2>4, <2>5 DEF P!Refuse
  <2>7. QED
    BY <1>3, <2>6
<1>7. CASE Tick
  BY <1>7 DEF Tick, P!vars
<1>8. CASE UNCHANGED vars
  BY <1>8 DEF vars, P!vars
<1>9. QED
  BY <1>1, <1>5, <1>6, <1>7, <1>8 DEF Next

\* With any interleaving of goroutines and any order of their clock readings the
\* limiter paces each key by one due time.
THEOREM LimiterImplementsPacer == Spec => PacerSpec
<1>1. P!Spec <=> P!Init /\ [][P!Next]_(P!vars)
  BY DEF P!Spec
<1>2. QED
  BY InitImplements, StepImplements, Invariance, <1>1, PTL DEF Spec, PacerSpec
===============================================================================
