--------------------------- MODULE IdentityRegistry ----------------------------
(***************************************************************************)
(* What identity linking promises, without pending links, cookies or       *)
(* requests: an identity is bound to a user at most once and for good, and *)
(* only to a user whose email the provider has vouched for and who has a   *)
(* password to prove herself with.                                         *)
(***************************************************************************)
CONSTANTS Emails, Idents, None

VARIABLES bound,     \* the user each identity is bound to, or None
          vouched,   \* <<identity, email>> pairs providers have confirmed
          provers    \* users that can prove themselves by a password

vars == <<bound, vouched, provers>>

Init ==
  /\ bound = [i \in Idents |-> None]
  /\ vouched = {}
  /\ provers = {}

Vouch(i, e) ==
  /\ vouched' = vouched \cup {<<i, e>>}
  /\ UNCHANGED <<bound, provers>>

Enrol(e) ==
  /\ provers' = provers \cup {e}
  /\ UNCHANGED <<bound, vouched>>

Bind(i, e) ==
  /\ bound[i] = None
  /\ <<i, e>> \in vouched
  /\ e \in provers
  /\ bound' = [bound EXCEPT ![i] = e]
  /\ UNCHANGED <<vouched, provers>>

Next ==
  \/ \E i \in Idents, e \in Emails : Vouch(i, e) \/ Bind(i, e)
  \/ \E e \in Emails : Enrol(e)

Spec == Init /\ [][Next]_vars
===============================================================================
