---------------------------- MODULE WorkOrderTable ----------------------------
(***************************************************************************)
(* What the work-order endpoints promise a client: each request happens at *)
(* once or not at all, a custom id names one work order, and the assignees *)
(* of a work order are the list of one request.                            *)
(***************************************************************************)
CONSTANTS Orders, Lists, None

VARIABLES rows, assigned

Statuses == {"OPEN", "COMPLETE"}

TableInit ==
  /\ rows = [w \in Orders |-> None]
  /\ assigned = [w \in Orders |-> {}]

\* Whichever custom id the new work order gets, no other has it.
Create(w, A) ==
  /\ rows[w] = None /\ rows'[w] # None
  /\ LET c == rows'[w].custom
     IN  /\ \A x \in Orders : rows[x] # None => rows[x].custom # c
         /\ rows' = [rows EXCEPT ![w] = [custom |-> c, status |-> "OPEN"]]
  /\ assigned' = [assigned EXCEPT ![w] = A]

Reassign(w, A) ==
  /\ rows[w] # None
  /\ assigned' = [assigned EXCEPT ![w] = A]
  /\ UNCHANGED rows

SetStatus(w, s) ==
  /\ rows[w] # None
  /\ rows' = [rows EXCEPT ![w].status = s]
  /\ UNCHANGED assigned

Delete(w) ==
  /\ rows' = [rows EXCEPT ![w] = None]
  /\ assigned' = [assigned EXCEPT ![w] = {}]

TableNext ==
  \E w \in Orders :
    \/ \E A \in Lists : Create(w, A)
    \/ \E A \in Lists : Reassign(w, A)
    \/ \E s \in Statuses : SetStatus(w, s)
    \/ Delete(w)
===============================================================================
