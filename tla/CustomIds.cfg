SPECIFICATION Spec
CONSTANTS
  Orders = {w1, w2, w3, w4}
  Lists = {{}}
  Requests = {r1}
  ClientIds = {}
  Base = 2
  Cap = 4
  MaxTries = 2
  MaxSeq = 4
  None = None
INVARIANTS
  GeneratorSucceeds
