\* Expected to fail: the assertion of request_ref on a request that failed.
SPECIFICATION Spec
CHECK_DEADLOCK FALSE
CONSTANTS
  Requests = {p1}
  Connections = {k1}
  Reqs = {r1, r2}
  Conns = {c1}
  Functors = {f1}
  Cells = {}
  None = None
SYMMETRY Symmetry
INVARIANTS
  RequestRefAssert
