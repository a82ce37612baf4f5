------------------------------- MODULE Records --------------------------------
(***************************************************************************)
(* A client that reads one of the lists page by page while work orders,    *)
(* profiles and tasks are written.                                         *)
(***************************************************************************)
EXTENDS Tasks

CONSTANTS Demos,      \* the databases the server may start with: demo data and the past
          Queries,    \* what clients ask for
          Renames,    \* names in bodies of PUT /auth/profile, or NULL
          MaxWrites   \* bound on the writes

Searches == {"users", "assets", "teams", "locations"}

\* No patch sets these columns, and demo tasks were never toggled.
ASSUME RecordsAssumption ==
  /\ MaxWrites \in Nat /\ Renames \subseteq Nat \cup {NULL}
  /\ \A q \in Queries :
       \/ q.on = "work_orders" /\ q.pageSize \in Nat
       \/ q.on \in Searches /\ q.pageSize \in Nat \cup {NULL}
  /\ \A p \in Patches :
       /\ DOMAIN p \cap {"created_at", "updated_at", "status"} = {}
       /\ "archived" \in DOMAIN p => p["archived"] \in BOOLEAN
       /\ "asset" \in DOMAIN p => p["asset"] \in Assets \cup {NULL}
       /\ "team" \in DOMAIN p => p["team"] \in Teams \cup {NULL}
       /\ "location" \in DOMAIN p => p["location"] \in Locations \cup {NULL}
       /\ "due_date" \in DOMAIN p => p["due_date"] \in Nat \cup {NULL}
       /\ "title" \in DOMAIN p => p["title"] \in Nat
  /\ \A b \in Bodies :
       /\ b.asset \in Assets \cup {NULL} /\ b.location \in Locations \cup {NULL}
       /\ b.due_date \in Nat \cup {NULL} /\ b.title \in Nat
  /\ \A d \in Demos :
       /\ DOMAIN d.orders \subseteq Orders /\ d.members \in [Users -> Nat \cup {NULL}]
       /\ \A w \in DOMAIN d.orders : RowTypeOK(d.orders[w])
       /\ d.tasks \in [TaskIds -> TaskRows]
       /\ \A t \in TaskIds :
            /\ d.tasks[t].work_order \in DOMAIN d.orders \cup {NULL}
            /\ d.tasks[t].previous_value = NULL

VARIABLES
  asked,   \* the query of the walk
  page,    \* the pageNum it asks for next
  seen,    \* the rows it has been given
  done,    \* it was given an empty page
  steady,  \* history: rows that were in the result all along, never moved to an
           \* earlier place and were never tied with another when a page was read
  writes   \* bound

walkVars == <<asked, page, seen, done>>
vars == <<catalogueVars, taskVars, walkVars, steady, writes>>

Place(x, S) == Rank(x, S.rows, S.order)

Init ==
  /\ \E d \in Demos : CatalogueInit(d.orders, d.members) /\ TasksInit(d.tasks)
  /\ asked \in Queries
  /\ page = 0 /\ seen = {} /\ done = FALSE
  /\ steady = Statement(asked).rows
  /\ writes = 0

\* The page of the statement's rows that the answer holds; the client stops at an empty
\* page.
ReadPage(S) ==
  /\ ~done
  /\ \E P \in Pages(S.rows, S.order, page * S.size, S.size) :
       /\ seen' = seen \cup P
       /\ page' = page + 1
       /\ done' = (P = {})
  /\ UNCHANGED <<catalogueVars, taskVars, asked, writes>>

FilterSearch ==
  /\ asked.on = "work_orders"
  /\ ReadPage(Statement(asked))
  /\ UNCHANGED steady

\* Of the users, assets, teams or locations.
Search ==
  /\ asked.on # "work_orders"
  /\ LET S == Statement(asked)
     IN  /\ ReadPage(S)
         /\ steady' = {x \in steady : Untied(x, S.rows, S.order)}

CatalogueWrite ==
  \/ \E w \in Orders, b \in Bodies, t \in Times : CreateWorkOrder(w, b, t)
  \/ \E w \in Orders, p \in Patches, t \in Times : ModifyWorkOrder(w, p, t)
  \/ \E w \in Orders, s \in Statuses, t \in Times : ChangeStatus(w, s, t)
  \/ \E u \in Users : Join(u)
  \/ \E u \in Users, n \in Renames : UpdateUserProfile(u, n)

\* A delete that keeps the tasks.
DeleteAlone(w) == DeleteWorkOrder(w) /\ UNCHANGED taskVars

Delete(w) == DeleteWorkOrder(w) /\ CascadeTasks(w)

TaskWrite ==
  \/ \E t \in TaskIds, complete \in BOOLEAN : ToggleComplete(t, complete)
  \/ \E t \in TaskIds : DeleteTask(t)

\* What a write leaves of steady.
Unmoved ==
  LET S == Statement(asked)
      T == Statement(asked)'
  IN  {x \in steady : x \in T.rows /\ Place(x, T) >= Place(x, S)}

Write ==
  /\ writes < MaxWrites /\ writes' = writes + 1
  /\ \/ CatalogueWrite /\ UNCHANGED taskVars
     \/ TaskWrite /\ UNCHANGED catalogueVars
     \/ \E w \in Orders : Delete(w)
  /\ UNCHANGED walkVars
  /\ steady' = Unmoved

Next == FilterSearch \/ Search \/ Write

Spec == Init /\ [][Next]_vars

-------------------------------------------------------------------------------

TypeOK ==
  /\ CatalogueTypeOK
  /\ TasksTypeOK
  /\ asked \in Queries
  /\ page \in Nat /\ done \in BOOLEAN /\ writes \in 0..MaxWrites
  /\ steady \subseteq Statement(asked).rows

\* A client that pages through the work-order list to its end has been given every
\* work order that was in the list all along and that no write moved forward, whatever
\* was created, changed or deleted between two pages and however keys tie.
OrdersWalk ==
  asked.on = "work_orders" /\ done /\ asked.pageSize > 0 => steady \subseteq seen

\* The same of the four searches, for rows that were never created in the same instant
\* as another of the result, whatever page size the client asks for.
SearchWalk ==
  asked.on # "work_orders" /\ done => steady \subseteq seen

\* The table alone decides what a page of the work-order list holds, at every moment of
\* a walk: there is one such page, and a client that reloads it before the next write is
\* shown the same rows, though work orders made at once tie, and so do those that share
\* the key they are sorted by or have none.
PagesDetermined ==
  asked.on = "work_orders" =>
    LET S == Statement(asked)
    IN  Cardinality(Pages(S.rows, S.order, page * S.size, S.size)) = 1

\* As long as a task is there, so is the work order that it was made for, whose two lists
\* show it and no others do: a delete leaves no task behind that was listed before.  A
\* template task, made for none, is in no list.
TasksListed ==
  \A t \in Existing, w \in Orders :
    /\ w = home[t] <=>
         \E row \in ListSimpleTasksByWorkOrder(w, DOMAIN orders) : row.id = t
    /\ w = home[t] <=>
         \E row \in GetTasksByWorkOrderID(w, DOMAIN orders) :
           row.task_id = t /\ row.task_value = tasks[t].value

\* Reopening a completed task gives it the value it had before it was completed, unless
\* it was completed when it was complete already.
ReopenRestores ==
  [][\A t \in Existing \ again :
       tasks[t].value = "COMPLETE" /\ ToggleComplete(t, FALSE)
         => tasks'[t].value = last[t]]_vars
===============================================================================
