------------------------------ MODULE WorkOrders ------------------------------
(***************************************************************************)
(* Work orders of one organisation in one year.  A request is one SQL      *)
(* statement and so one transaction, READ COMMITTED; the two that call a   *)
(* PL/pgSQL function run several statements inside, and the transaction    *)
(* keeps the row locks it takes and hides what it writes until it commits. *)
(*                                                                         *)
(* A generated custom id is known by its number; a client may supply one   *)
(* that looks just like it.                                                *)
(***************************************************************************)
EXTENDS Naturals

CONSTANTS Orders,      \* uuids of work orders
          Lists,       \* lists of assignees that clients send, as sets of users
          Requests,    \* handler goroutines
          ClientIds,   \* custom ids clients supply
          Base,        \* of the digits of a custom id
          Cap,         \* the numbers a custom id has room for are below Cap
          MaxTries,    \* attempts of the generator
          MaxSeq,      \* bound: no creation is started past this number
          None

Statuses == {"OPEN", "COMPLETE"}
Users == UNION Lists
Rows == [custom : Nat \ {0}, status : Statuses]

ASSUME WorkOrderAssumption ==
  /\ Base \in Nat \ {0, 1}
  /\ Cap \in Nat /\ Base <= Cap
  /\ MaxTries \in Nat \ {0} /\ MaxSeq \in Nat
  /\ None \notin Requests /\ None \notin Orders /\ None \notin Rows
  /\ ClientIds \subseteq Nat \ {0}

VARIABLES
  rows,      \* committed table work_order
  assigned,  \* committed table work_order_assigned_to
  nextSeq,   \* committed work_order_counters.next_seq
  counter,   \* the transaction that holds the counter's row lock, or None
  lock,      \* the transaction that holds each work order's row lock, or None
  pc, loc,   \* the requests
  issued     \* history: numbers the generator has given to committed work orders

tables == <<rows, assigned, nextSeq>>
locks == <<counter, lock>>
vars == <<tables, locks, pc, loc, issued>>

Locals == [order : Orders \cup {None}, list : SUBSET Users, has_assigned_to : BOOLEAN,
           custom : Nat, seq : Nat, tries : Nat, inserted : BOOLEAN, gone : SUBSET Users]

NoLocals == [order |-> None, list |-> {}, has_assigned_to |-> FALSE,
             custom |-> 0, seq |-> 0, tries |-> 0, inserted |-> FALSE, gone |-> {}]

\* lpad(seq::text, 4, '0') cuts a number that is a digit too long to its first
\* digits; numbers two digits too long are out of the model.
lpad(n) == IF n < Cap THEN n ELSE n \div Base

Init ==
  /\ rows = [w \in Orders |-> None]
  /\ assigned = [w \in Orders |-> {}]
  /\ nextSeq = 1
  /\ counter = None
  /\ lock = [w \in Orders |-> None]
  /\ pc = [r \in Requests |-> "idle"]
  /\ loc = [r \in Requests |-> NoLocals]
  /\ issued = {}

-------------------------------------------------------------------------------
(* Transactions.                                                              *)

step(r, l, v) ==
  /\ pc' = [pc EXCEPT ![r] = l]
  /\ loc' = [loc EXCEPT ![r] = v]

begin(r, l, v) == pc[r] = "idle" /\ step(r, l, v)

\* COMMIT and ROLLBACK release the locks of the transaction.
end(r) ==
  /\ step(r, "idle", NoLocals)
  /\ counter' = IF counter = r THEN None ELSE counter
  /\ lock' = [w \in Orders |-> IF lock[w] = r THEN None ELSE lock[w]]

\* An error of any statement, a client that goes away or a server that dies:
\* everything the transaction wrote is gone, the counter's increments with it.
Rollback(r) ==
  /\ pc[r] # "idle"
  /\ end(r)
  /\ UNCHANGED <<tables, issued>>

-------------------------------------------------------------------------------
(* create_work_order_from_json.                                               *)

\* A uuid that nothing refers to stands for one never drawn before.
Fresh == {w \in Orders : rows[w] = None /\ \A r \in Requests : loc[r].order # w}

CreateOwn(r, c, A) ==
  /\ \E w \in Fresh :
       begin(r, "insert", [NoLocals EXCEPT !.order = w, !.list = A, !.custom = c])
  /\ UNCHANGED <<tables, locks, issued>>

CreateAuto(r, A) ==
  /\ nextSeq <= MaxSeq
  /\ \E w \in Fresh : begin(r, "bump", [NoLocals EXCEPT !.order = w, !.list = A])
  /\ UNCHANGED <<tables, locks, issued>>

Generating(r) == loc[r].seq # 0

\* A counter that is read and written without holding its row.
BumpUnlocked(r) ==
  /\ pc[r] = "bump"
  /\ LET n == IF Generating(r) THEN loc[r].seq + 1 ELSE nextSeq
     IN  step(r, "insert", [loc[r] EXCEPT !.seq = n, !.custom = lpad(n), !.tries = @ + 1])
  /\ UNCHANGED <<tables, locks, issued>>

\* A counter row that starts out at 1 instead of 2.
BumpFromZero(r) ==
  /\ pc[r] = "bump"
  /\ counter \in {None, r}
  /\ counter' = r
  /\ LET n == IF Generating(r) THEN loc[r].seq + 1 ELSE nextSeq - 1
     IN  step(r, "insert", [loc[r] EXCEPT !.seq = n, !.custom = lpad(n), !.tries = @ + 1])
  /\ UNCHANGED <<tables, lock, issued>>

\* INSERT ... ON CONFLICT DO UPDATE ... RETURNING next_seq - 1: waits for the row, then
\* keeps it; a retry goes on from the transaction's own increment.
Bump(r) ==
  /\ pc[r] = "bump"
  /\ counter \in {None, r}
  /\ counter' = r
  /\ LET n == IF Generating(r) THEN loc[r].seq + 1 ELSE nextSeq
     IN  step(r, "insert", [loc[r] EXCEPT !.seq = n, !.custom = lpad(n), !.tries = @ + 1])
  /\ UNCHANGED <<tables, lock, issued>>

\* Some committed work order has the custom id.
Taken(c) == \E w \in Orders : rows[w] # None /\ rows[w].custom = c

\* A transaction in flight has inserted the custom id: the unique index waits for it.
Contended(r, c) ==
  \E q \in Requests \ {r} : loc[q].inserted /\ loc[q].custom = c

\* A lookup of committed rows in place of the unique index.
InsertChecked(r) ==
  /\ pc[r] = "insert"
  /\ IF ~Taken(loc[r].custom)
     THEN step(r, "arrays", [loc[r] EXCEPT !.inserted = TRUE]) /\ UNCHANGED locks
     ELSE IF Generating(r) /\ loc[r].tries < MaxTries
     THEN step(r, "bump", loc[r]) /\ UNCHANGED locks
     ELSE end(r)
  /\ UNCHANGED <<tables, issued>>

\* A client's id that, once inserted, also moves the counter past it.
InsertThenAlign(r) ==
  /\ pc[r] = "insert"
  /\ ~Contended(r, loc[r].custom)
  /\ IF ~Taken(loc[r].custom)
     THEN /\ step(r, IF Generating(r) THEN "arrays" ELSE "bump",
                  [loc[r] EXCEPT !.inserted = TRUE])
          /\ UNCHANGED locks
     ELSE end(r)
  /\ UNCHANGED <<tables, issued>>

\* INSERT INTO work_order.  On unique_violation a generated id goes round again, until
\* the last try raises; a client's own id raises at once.
Insert(r) ==
  /\ pc[r] = "insert"
  /\ ~Contended(r, loc[r].custom)
  /\ \/ /\ ~Taken(loc[r].custom)
        /\ step(r, "arrays", [loc[r] EXCEPT !.inserted = TRUE])
        /\ UNCHANGED locks
     \/ /\ Taken(loc[r].custom)
        /\ Generating(r) /\ loc[r].tries < MaxTries
        /\ step(r, "bump", loc[r])
        /\ UNCHANGED locks
     \/ /\ Taken(loc[r].custom)
        /\ ~Generating(r)
        /\ end(r)
     \/ /\ Taken(loc[r].custom)
        /\ Generating(r) /\ loc[r].tries >= MaxTries
        /\ step(r, "exhausted", loc[r])
        /\ UNCHANGED locks
  /\ UNCHANGED <<tables, issued>>

\* RAISE EXCEPTION 'could not generate unique custom_id', answered 500.
Exhausted(r) ==
  /\ pc[r] = "exhausted"
  /\ end(r)
  /\ UNCHANGED <<tables, issued>>

\* The assignees, and COMMIT.
CreateCommit(r) ==
  /\ pc[r] = "arrays"
  /\ LET w == loc[r].order
     IN  /\ rows' = [rows EXCEPT ![w] = [custom |-> loc[r].custom, status |-> "OPEN"]]
         /\ assigned' = [assigned EXCEPT ![w] = loc[r].list]
  /\ IF Generating(r)
     THEN nextSeq' = loc[r].seq + 1 /\ issued' = issued \cup {loc[r].seq}
     ELSE UNCHANGED <<nextSeq, issued>>
  /\ end(r)

-------------------------------------------------------------------------------
(* update_work_order_from_json; customers are replaced just as assignees are.  *)

\* The EXISTS check of a patch with the list A in it, or with no list.
UpdateCheck(r, w, A, has) ==
  /\ rows[w] # None
  /\ begin(r, "update",
           [NoLocals EXCEPT !.order = w, !.list = A, !.has_assigned_to = has])
  /\ UNCHANGED <<tables, locks, issued>>

AfterUpdate(r) == IF loc[r].has_assigned_to THEN "unassign" ELSE "commit"

\* A patch of nothing but assignees that leaves the work order's row alone.
UpdateRowUnlocked(r) ==
  /\ pc[r] = "update"
  /\ step(r, AfterUpdate(r), loc[r])
  /\ UNCHANGED <<tables, locks, issued>>

\* UPDATE work_order: waits for the row and locks it; no row, no lock, no error.
UpdateRow(r) ==
  /\ pc[r] = "update"
  /\ lock[loc[r].order] = None
  /\ lock' = IF rows[loc[r].order] = None THEN lock ELSE [lock EXCEPT ![loc[r].order] = r]
  /\ step(r, AfterUpdate(r), loc[r])
  /\ UNCHANGED <<tables, counter, issued>>

\* DELETE FROM work_order_assigned_to: the rows committed when the statement starts.
Unassign(r) ==
  /\ pc[r] = "unassign"
  /\ step(r, "assign", [loc[r] EXCEPT !.gone = assigned[loc[r].order]])
  /\ UNCHANGED <<tables, locks, issued>>

\* An INSERT that no foreign key checks.
AssignUnchecked(r) ==
  /\ pc[r] = "assign"
  /\ step(r, "commit", loc[r])
  /\ UNCHANGED <<tables, locks, issued>>

\* INSERT INTO work_order_assigned_to: the foreign key refuses a work order that has
\* been deleted since the check.
Assign(r) ==
  /\ pc[r] = "assign"
  /\ IF loc[r].list # {} /\ rows[loc[r].order] = None
     THEN end(r)
     ELSE step(r, "commit", loc[r]) /\ UNCHANGED locks
  /\ UNCHANGED <<tables, issued>>

UpdateCommit(r) ==
  /\ pc[r] = "commit"
  /\ LET w == loc[r].order
     IN  assigned' = IF loc[r].has_assigned_to
                     THEN [assigned EXCEPT ![w] = (@ \ loc[r].gone) \cup loc[r].list]
                     ELSE assigned
  /\ end(r)
  /\ UNCHANGED <<rows, nextSeq, issued>>

-------------------------------------------------------------------------------
(* The statements that are a transaction by themselves.                       *)

\* ChangeWorkOrderStatus sets completed_on together with the status.
ChangeWorkOrderStatus(w, s) ==
  /\ rows[w] # None
  /\ lock[w] = None
  /\ rows' = [rows EXCEPT ![w].status = s]
  /\ UNCHANGED <<assigned, nextSeq, locks, pc, loc, issued>>

\* ON DELETE CASCADE takes the assignees along.
DeleteWorkOrderByID(w) ==
  /\ rows[w] # None
  /\ lock[w] = None
  /\ rows' = [rows EXCEPT ![w] = None]
  /\ assigned' = [assigned EXCEPT ![w] = {}]
  /\ UNCHANGED <<nextSeq, locks, pc, loc, issued>>

-------------------------------------------------------------------------------

Step(r) ==
  \/ Bump(r) \/ Insert(r) \/ Exhausted(r) \/ CreateCommit(r)
  \/ UpdateRow(r) \/ Unassign(r) \/ Assign(r) \/ UpdateCommit(r)

Arrive(r) ==
  \/ \E c \in ClientIds, A \in Lists : CreateOwn(r, c, A)
  \/ \E A \in Lists : CreateAuto(r, A)
  \/ \E w \in Orders, A \in Lists : UpdateCheck(r, w, A, TRUE)
  \/ \E w \in Orders : UpdateCheck(r, w, {}, FALSE)

Next ==
  \/ \E r \in Requests : Arrive(r) \/ Step(r) \/ Rollback(r)
  \/ \E w \in Orders, s \in Statuses : ChangeWorkOrderStatus(w, s)
  \/ \E w \in Orders : DeleteWorkOrderByID(w)

Spec == Init /\ [][Next]_vars

-------------------------------------------------------------------------------

PCs == {"idle", "bump", "insert", "exhausted", "arrays", "update", "unassign",
        "assign", "commit"}

TypeOK ==
  /\ rows \in [Orders -> Rows \cup {None}]
  /\ assigned \in [Orders -> SUBSET Users]
  /\ nextSeq \in Nat \ {0}
  /\ counter \in Requests \cup {None}
  /\ lock \in [Orders -> Requests \cup {None}]
  /\ pc \in [Requests -> PCs]
  /\ loc \in [Requests -> Locals]
  /\ issued \subseteq Nat

\* A number the generator has once given to a work order it never gives to another,
\* not even when the first is deleted and however transactions interleave or fail.
NumberNotReissued ==
  \A r \in Requests : pc[r] = "arrays" /\ Generating(r) => loc[r].seq \notin issued

\* Some statement of the transactions in flight can go ahead: they never all wait for
\* one another's counter, custom id or row.
Waiting(r) ==
  \/ pc[r] = "bump" /\ counter \notin {None, r}
  \/ pc[r] = "insert" /\ Contended(r, loc[r].custom)
  \/ pc[r] = "update" /\ lock[loc[r].order] # None

NoWaitCycle ==
  (\E r \in Requests : pc[r] # "idle") => \E r \in Requests : pc[r] # "idle" /\ ~Waiting(r)

\* No work order that is gone has assignees, though an update may have checked for it
\* before it was deleted.
AssigneesHaveOrder ==
  \A w \in Orders : assigned[w] # {} => rows[w] # None

\* The committed tables as clients see them.
Table == INSTANCE WorkOrderTable

\* Every request happens at once or not at all: in particular two updates that replace
\* the assignees of one work order leave one list or the other, never a mixture, and
\* two work orders never share a custom id.
TableSpec == Table!TableInit /\ [][Table!TableNext]_<<rows, assigned>>

\* 007_functions.up.sql:108: "Auto-generate with retry on unique_violation (race-safe)".
GeneratorSucceeds ==
  \A r \in Requests : pc[r] # "exhausted"
===============================================================================
