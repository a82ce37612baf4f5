------------------------------ MODULE MCRecords -------------------------------
(***************************************************************************)
(* Records for TLC: up to three work orders, two members, assets two of    *)
(* which were created in one instant, a team and a location.               *)
(***************************************************************************)
EXTENDS Records, TLC

MCUsers == {"ann", "bob"}
MCAssets == {"fan", "lift", "pump"}
MCTeams == {"crew"}
MCLocations == {"site"}

MCBorn == [x \in MCUsers \cup MCAssets \cup MCTeams \cup MCLocations |->
             IF x \in {"ann", "pump"} THEN 1 ELSE 2]
MCName == [x \in MCUsers \cup MCAssets \cup MCTeams \cup MCLocations |->
             IF x \in {"ann", "fan"} THEN 1 ELSE 2]
MCEmail == [u \in MCUsers |-> IF u = "ann" THEN 1 ELSE 2]

MCBodies ==
  {[due_date |-> NULL, title |-> 1, asset |-> "pump", location |-> NULL],
   [due_date |-> 1, title |-> 1, asset |-> "fan", location |-> "site"]}
MCPatches ==
  {[due_date |-> 2, asset |-> "lift"], [team |-> "crew", title |-> 2], [archived |-> TRUE]}

\* Work orders of the same second, older and newer ones, some patched; a task with each
\* value it can start with, the last a template task.
Row(b, p, t) == Touch(NewRow(b, t), p, t)
Plain == CHOOSE b \in MCBodies : b.due_date = NULL
Dated == CHOOSE b \in MCBodies : b.due_date = 1
Crewed == [team |-> "crew", title |-> 2]

Demo(rows, w, v, people) ==
  [orders |-> rows, members |-> people,
   tasks |-> [t \in TaskIds |-> [work_order |-> w, value |-> v, previous_value |-> NULL]]]

MCDemos ==
  {Demo(<<Row(Plain, <<>>, 1), Row(Dated, <<>>, 1)>>, 1, "PASS", [u \in MCUsers |-> 1]),
   Demo(<<Row(Dated, Crewed, 2)>>, 1, NULL, [u \in MCUsers |-> NULL]),
   Demo(<<Row(Plain, <<>>, 1), Row(Plain, [asset |-> "lift"], 1), Row(Dated, <<>>, 2)>>,
        1, "COMPLETE", [u \in MCUsers |-> MCName[u]]),
   Demo(<<Row(Dated, <<>>, 1)>>, NULL, "OPEN", [u \in MCUsers |-> 1])}

Listed == [on |-> "work_orders", statuses |-> {}, archived |-> NULL, text |-> NULL,
           sortField |-> "due_date", direction |-> "ASC", pageSize |-> 1]
Name1(f, S) == {{[field |-> f, matches |-> S]}}

MCQueries ==
  {Listed,
   [Listed EXCEPT !.statuses = {1}, !.sortField = "status", !.direction = "DESC"],
   [Listed EXCEPT !.archived = FALSE, !.sortField = "updated_at", !.direction = "DESC"],
   [Listed EXCEPT !.text = {1}, !.sortField = "colour", !.pageSize = 2],
   [Listed EXCEPT !.pageSize = 0]}
  \cup
  {[on |-> "users", filterFields |-> Name1("firstname", {1, 2}), pageSize |-> 1],
   [on |-> "users", filterFields |-> Name1("phone", {}), pageSize |-> 0],
   [on |-> "assets", filterFields |-> {}, pageSize |-> NULL],
   [on |-> "assets", filterFields |-> Name1("name", {2}), pageSize |-> 1],
   [on |-> "assets", filterFields |-> {}, pageSize |-> 3],
   [on |-> "teams", filterFields |-> {}, pageSize |-> 1],
   [on |-> "locations", filterFields |-> Name1("name", {1, 2}), pageSize |-> 0]}
===============================================================================
