-------------------------------- MODULE Pacer ---------------------------------
(***************************************************************************)
(* What the rate limiter promises, without tokens or refills.  Each key    *)
(* has a due time: how far its granted requests have used up the time line *)
(* when each one takes Cost units of it, never lagging more than Burst     *)
(* behind the request that is being decided.  A request made at t is       *)
(* granted exactly when its Cost still fits before t.  The due time does   *)
(* not depend on the order in which refused requests are decided.          *)
(***************************************************************************)
EXTENDS Integers

CONSTANTS Keys, Times, Cost, Burst

VARIABLES due,    \* the due time of each key that has been seen
          seen,   \* keys that have made a request
          spent   \* the cost of all grants, per key

vars == <<due, seen, spent>>

Latest(a, b) == IF a > b THEN a ELSE b

DueAt(k, t) == IF k \in seen THEN Latest(due[k], t - Burst) ELSE t - Burst

Init ==
  /\ due = [k \in Keys |-> 0]
  /\ seen = {}
  /\ spent = [k \in Keys |-> 0]

Grant(k, t) ==
  /\ DueAt(k, t) + Cost <= t
  /\ due' = [due EXCEPT ![k] = DueAt(k, t) + Cost]
  /\ seen' = seen \cup {k}
  /\ spent' = [spent EXCEPT ![k] = @ + Cost]

Refuse(k, t) ==
  /\ DueAt(k, t) + Cost > t
  /\ due' = [due EXCEPT ![k] = DueAt(k, t)]
  /\ seen' = seen \cup {k}
  /\ UNCHANGED spent

Next == \E k \in Keys, t \in Times : Grant(k, t) \/ Refuse(k, t)

Spec == Init /\ [][Next]_vars
===============================================================================
