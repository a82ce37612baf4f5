-------------------------------- MODULE Tasks --------------------------------
(***************************************************************************)
(* Tasks of work orders, and the template tasks of preventive maintenance, *)
(* which have no work order.  No endpoint creates one: they come from the  *)
(* demo data.  Every request is one SQL statement.                         *)
(***************************************************************************)
EXTENDS Catalogue

CONSTANTS TaskIds, Values

TaskRows == [work_order : Orders \cup {NULL},
             value : Values \cup {NULL}, previous_value : Values \cup {NULL}]

ASSUME TaskAssumption ==
  /\ {"OPEN", "COMPLETE", "PASS"} \subseteq Values
  /\ NULL \notin Values /\ NULL \notin TaskRows

VARIABLES
  tasks,  \* table tasks: a row, or NULL
  home,   \* history: the work order that a task was made for, or NULL
  last,   \* history: the last value of a task that was not COMPLETE
  again   \* history: tasks that were completed when they were COMPLETE already

taskVars == <<tasks, home, last, again>>

Existing == {t \in TaskIds : tasks[t] # NULL}

TasksInit(table) ==
  /\ tasks = table
  /\ home = [t \in TaskIds |-> tasks[t].work_order]
  /\ last = [t \in TaskIds |-> IF tasks[t].value \in {"COMPLETE", NULL}
                               THEN "OPEN" ELSE tasks[t].value]
  /\ again = {}

\* A toggle that forgets what it overwrites.
ToggleUnstashed(row, complete) ==
  [row EXCEPT !.value = IF complete THEN "COMPLETE"
                        ELSE IF row.previous_value # NULL THEN row.previous_value
                        ELSE "OPEN"]

\* The SET clause: the right-hand sides are those of the row before the update.
ToggleTaskCompletion(row, complete) ==
  [row EXCEPT !.value = IF complete THEN "COMPLETE"
                        ELSE IF row.previous_value # NULL THEN row.previous_value
                        ELSE "OPEN",
              !.previous_value = IF complete THEN row.value ELSE row.previous_value]

\* PATCH /tasks/{taskID}; a task that is not there is answered 500.
ToggleComplete(t, complete) ==
  /\ t \in Existing
  /\ tasks' = [tasks EXCEPT ![t] = ToggleTaskCompletion(@, complete)]
  /\ last' = IF tasks'[t].value = "COMPLETE" THEN last
             ELSE [last EXCEPT ![t] = tasks'[t].value]
  /\ again' = IF complete /\ tasks[t].value = "COMPLETE" THEN again \cup {t} ELSE again
  /\ UNCHANGED home

\* DELETE /tasks/{taskID}, answered 200 whether it is there or not.
DeleteTask(t) ==
  /\ tasks' = [tasks EXCEPT ![t] = NULL]
  /\ UNCHANGED <<home, last, again>>

\* REFERENCES work_order ON DELETE CASCADE.
CascadeTasks(w) ==
  /\ tasks' = [t \in TaskIds |->
                 IF tasks[t] # NULL /\ tasks[t].work_order = w THEN NULL ELSE tasks[t]]
  /\ UNCHANGED <<home, last, again>>

\* GET /tasks/work-order/{id} and .../full, given the work orders there are.
ListSimpleTasksByWorkOrder(w, there) ==
  {[id |-> t, completed |-> tasks[t].value \in {"COMPLETE", "PASS"}] :
     t \in {s \in Existing : tasks[s].work_order = w /\ w \in there}}

GetTasksByWorkOrderID(w, there) ==
  {[task_id |-> t, task_value |-> tasks[t].value] :
     t \in {s \in Existing : tasks[s].work_order = w /\ w \in there}}

TasksTypeOK ==
  /\ tasks \in [TaskIds -> TaskRows \cup {NULL}]
  /\ home \in [TaskIds -> Orders \cup {NULL}]
  /\ last \in [TaskIds -> Values]
  /\ again \subseteq TaskIds
===============================================================================
