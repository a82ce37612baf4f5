------------------------------ MODULE Membership ------------------------------
(***************************************************************************)
(* What sign-up and invites promise together about who is in which         *)
(* organisation, without requests, users or tokens: an organisation has    *)
(* one founder, who becomes its Owner as its first member; whoever else    *)
(* comes in, and whoever gets another role, was offered just that role     *)
(* when the organisation had an Owner to offer it.                         *)
(***************************************************************************)
CONSTANTS Slugs, Emails, None

VARIABLES founder,  \* the founder of each organisation, or None
          offers,   \* the <<organisation, user, role>> that have been offered
          role      \* the role of each user in each organisation, or None

vars == <<founder, offers, role>>

OfferedRoles == {"Admin", "Member", "Viewer"}

Init ==
  /\ founder = [o \in Slugs |-> None]
  /\ offers = {}
  /\ role = [o \in Slugs |-> [e \in Emails |-> None]]

Started(o) == \E e \in Emails : role[o][e] # None

Found(o, e) ==
  /\ founder[o] = None
  /\ founder' = [founder EXCEPT ![o] = e]
  /\ UNCHANGED <<offers, role>>

Own(o) ==
  /\ founder[o] # None
  /\ ~Started(o)
  /\ role' = [role EXCEPT ![o][founder[o]] = "Owner"]
  /\ UNCHANGED <<founder, offers>>

Offer(o, e, g) ==
  /\ Started(o)
  /\ offers' = offers \cup {<<o, e, g>>}
  /\ UNCHANGED <<founder, role>>

Accept(o, e, g) ==
  /\ <<o, e, g>> \in offers
  /\ role' = [role EXCEPT ![o][e] = g]
  /\ UNCHANGED <<founder, offers>>

Next ==
  \E o \in Slugs :
    \/ Own(o)
    \/ \E e \in Emails : Found(o, e)
    \/ \E e \in Emails, g \in OfferedRoles : Offer(o, e, g) \/ Accept(o, e, g)

Spec == Init /\ [][Next]_vars
===============================================================================
