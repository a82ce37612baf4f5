SPECIFICATION Spec
CONSTANTS
  Orders = {1, 2, 3}
  Users <- MCUsers
  Assets <- MCAssets
  Teams <- MCTeams
  Locations <- MCLocations
  Born <- MCBorn
  Name <- MCName
  Email <- MCEmail
  Statuses = {1, 2}
  OPEN = 1
  Bodies <- MCBodies
  Patches <- MCPatches
  Times = {1, 2}
  DefaultSize = 2
  MaxSize = 2
  TaskIds = {t1}
  Values = {"OPEN", "COMPLETE", "PASS"}
  Demos <- MCDemos
  Queries <- MCQueries
  Renames = {2, NULL}
  MaxWrites = 3
  NULL = NULL
INVARIANTS
  TypeOK
  OrdersWalk
  SearchWalk
  PagesDetermined
  TasksListed
PROPERTIES
  ReopenRestores
CHECK_DEADLOCK FALSE
