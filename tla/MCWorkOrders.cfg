SPECIFICATION Spec
CONSTANTS
  Orders = {w1, w2, w3}
  Lists = {{}, {u1}, {u2}}
  Requests = {r1, r2}
  ClientIds = {3}
  Base = 2
  Cap = 4
  MaxTries = 2
  MaxSeq = 3
  None = None
SYMMETRY Interchangeable
INVARIANTS
  TypeOK
  NumberNotReissued
  NoWaitCycle
  AssigneesHaveOrder
PROPERTIES
  TableSpec
