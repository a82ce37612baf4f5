------------------------------ MODULE Catalogue -------------------------------
(***************************************************************************)
(* What the list and search endpoints of one organisation read: its work   *)
(* orders, its members and what its work orders refer to.  A write is one  *)
(* step, which module WorkOrders shows of the work orders.  Texts are      *)
(* numbers, their places in the collation, and ids are numbers in the      *)
(* order PostgreSQL gives uuids; custom_id and priority sort like title.   *)
(***************************************************************************)
EXTENDS Naturals, FiniteSets, Paging

CONSTANTS
  Orders, Users, Assets, Teams, Locations,  \* ids
  Born, Name, Email,  \* created_at of the entities, their names, the users' emails
  Statuses, OPEN,
  Bodies,             \* bodies of POST /work-orders: columns and their values
  Patches,            \* bodies of PATCH: some columns and their new values
  DefaultSize, MaxSize,
  Times,              \* bound: the instants at which transactions start
  NULL

VARIABLES
  orders,   \* table work_order: its rows by id
  unborn,   \* history: uuids not drawn yet
  members   \* users.name by id of the members of the organisation, NULL for others

catalogueVars == <<orders, unborn, members>>

Entities == Users \cup Assets \cup Teams \cup Locations

Columns == {"created_at", "updated_at", "due_date", "status", "title"}

ASSUME CatalogueAssumption ==
  /\ Orders \subseteq Nat /\ IsFiniteSet(Orders) /\ Times \subseteq Nat
  /\ IsFiniteSet(Users) /\ \A x \in Entities : Born[x] \in Nat /\ Name[x] \in Nat
  /\ Statuses \subseteq Nat /\ OPEN \in Statuses
  /\ DefaultSize \in Nat \ {0} /\ MaxSize \in Nat \ {0}
  /\ NULL \notin Nat

\* A new row; a team and an archived flag in the body are not looked at.
NewRow(body, t) ==
  [created_at |-> t, updated_at |-> t, status |-> OPEN, archived |-> FALSE, team |-> NULL,
   due_date |-> body.due_date, title |-> body.title,
   asset |-> body.asset, location |-> body.location]

\* SET column = value of the patch where it has one; updated_at = now().
Touch(row, patch, t) ==
  [c \in DOMAIN row |->
     IF c = "updated_at" THEN t ELSE IF c \in DOMAIN patch THEN patch[c] ELSE row[c]]

CatalogueInit(table, people) ==
  /\ orders = table
  /\ unborn = Orders \ DOMAIN table
  /\ members = people

-------------------------------------------------------------------------------
(* Writes.                                                                    *)

\* A creation under an id that is still to be drawn.
CreateUndrawn(w, body, t) ==
  /\ w \in unborn
  /\ orders' = [x \in DOMAIN orders \cup {w} |->
                  IF x = w THEN NewRow(body, t) ELSE orders[x]]
  /\ UNCHANGED <<unborn, members>>

\* now() is when the transaction started: writes that overlap commit in any order.
CreateWorkOrder(w, body, t) ==
  /\ w \in unborn
  /\ unborn' = unborn \ {w}
  /\ orders' = [x \in DOMAIN orders \cup {w} |->
                  IF x = w THEN NewRow(body, t) ELSE orders[x]]
  /\ UNCHANGED members

ModifyWorkOrder(w, patch, t) ==
  /\ w \in DOMAIN orders
  /\ orders' = [orders EXCEPT ![w] = Touch(@, patch, t)]
  /\ UNCHANGED <<unborn, members>>

ChangeStatus(w, s, t) ==
  /\ w \in DOMAIN orders
  /\ orders' = [orders EXCEPT ![w].status = s, ![w].updated_at = t]
  /\ UNCHANGED <<unborn, members>>

DeleteWorkOrder(w) ==
  /\ w \in DOMAIN orders
  /\ orders' = [x \in DOMAIN orders \ {w} |-> orders[x]]
  /\ UNCHANGED <<unborn, members>>

\* A sign-up by invite or an accepted invite makes a user a member.
Join(u) ==
  /\ members[u] = NULL
  /\ members' = [members EXCEPT ![u] = Name[u]]
  /\ UNCHANGED <<orders, unborn>>

\* COALESCE($1, name): a profile without a name leaves it alone.
UpdateUserProfile(u, name) ==
  /\ members[u] # NULL
  /\ members' = [members EXCEPT ![u] = IF name = NULL THEN @ ELSE name]
  /\ UNCHANGED <<orders, unborn>>

-------------------------------------------------------------------------------
(* POST /work-orders/search.                                                  *)

Filtered(q) ==
  {w \in DOMAIN orders :
     /\ q.statuses = {} \/ orders[w].status \in q.statuses
     /\ q.archived = NULL \/ orders[w].archived = q.archived
     /\ q.text = NULL \/ orders[w].title \in q.text}

\* NULLS LAST, whichever the direction; a field the query does not know sorts nothing.
KeyBefore(i, j, q) ==
  /\ q.sortField \in Columns
  /\ LET a == orders[i][q.sortField]
         b == orders[j][q.sortField]
     IN  /\ a # NULL
         /\ \/ b = NULL
            \/ b # NULL /\ q.direction = "ASC" /\ a < b
            \/ b # NULL /\ q.direction = "DESC" /\ a > b

\* A fallback without its last key, the id.
BeforeByTime(i, j, q) ==
  \/ KeyBefore(i, j, q)
  \/ /\ ~KeyBefore(j, i, q)
     /\ orders[i].created_at > orders[j].created_at

Before(i, j, q) ==
  \/ KeyBefore(i, j, q)
  \/ /\ ~KeyBefore(j, i, q)
     /\ \/ orders[i].created_at > orders[j].created_at
        \/ orders[i].created_at = orders[j].created_at /\ i > j

ListWorkOrdersPaged(q) ==
  LET f == Filtered(q)
  IN  [rows  |-> f,
       order |-> {e \in f \X f : e[1] # e[2] /\ Before(e[1], e[2], q)},
       size  |-> q.pageSize]

-------------------------------------------------------------------------------
(* POST /users, /assets, /teams, /locations .../search.                       *)

\* Rows of work orders, joined and made DISTINCT.
InUse(column) == {orders[w][column] : w \in DOMAIN orders} \ {NULL}

\* A known field's value; NULL for a field the search does not know.
Field(x, f) ==
  CASE x \notin Users /\ f = "name" -> Name[x]
    [] x \in Users /\ f \in {"name", "firstname", "lastname"} -> members[x]
    [] x \in Users /\ f = "email" -> Email[x]
    [] OTHER -> NULL

\* Every group with a condition on a known field has one that matches.
Kept(S, groups) ==
  {x \in S : \A g \in groups :
     LET known == {c \in g : Field(x, c.field) # NULL}
     IN  known # {} => \E c \in known : Field(x, c.field) \in c.matches}

\* The page size as it was sent.
PageSizeUnclamped(n) == IF n = NULL THEN DefaultSize ELSE n

\* GREATEST(1, LEAST(COALESCE(pageSize, 10), 100))
PageSize(n) ==
  LET asked == IF n = NULL THEN DefaultSize ELSE n
  IN  IF asked = 0 THEN 1 ELSE Least(asked, MaxSize)

\* ORDER BY created_at DESC: rows of the same instant are not compared.
NewestFirst(S, n) ==
  [rows  |-> S,
   order |-> {e \in S \X S : Born[e[1]] > Born[e[2]]},
   size  |-> PageSize(n)]

SearchOrgUsers(q) ==
  NewestFirst(Kept({u \in Users : members[u] # NULL}, q.filterFields), q.pageSize)
SearchOrgAssets(q) ==
  NewestFirst(Kept(InUse("asset"), q.filterFields), q.pageSize)
SearchOrgTeams(q) ==
  NewestFirst(Kept(InUse("team"), q.filterFields), q.pageSize)
SearchOrgLocations(q) ==
  NewestFirst(Kept(InUse("location"), q.filterFields), q.pageSize)

\* The statement a query runs.
Statement(q) ==
  CASE q.on = "work_orders" -> ListWorkOrdersPaged(q)
    [] q.on = "users" -> SearchOrgUsers(q)
    [] q.on = "assets" -> SearchOrgAssets(q)
    [] q.on = "teams" -> SearchOrgTeams(q)
    [] q.on = "locations" -> SearchOrgLocations(q)

RowTypeOK(row) ==
  /\ Columns \cup {"archived", "asset", "team", "location"} \subseteq DOMAIN row
  /\ row.created_at \in Times /\ row.updated_at \in Times
  /\ row.due_date \in Nat \cup {NULL} /\ row.title \in Nat
  /\ row.status \in Statuses /\ row.archived \in BOOLEAN
  /\ row.asset \in Assets \cup {NULL} /\ row.team \in Teams \cup {NULL}
  /\ row.location \in Locations \cup {NULL}

CatalogueTypeOK ==
  /\ unborn \subseteq Orders /\ DOMAIN orders \subseteq Orders \ unborn
  /\ \A w \in DOMAIN orders : RowTypeOK(orders[w])
  /\ members \in [Users -> Nat \cup {NULL}]
===============================================================================
