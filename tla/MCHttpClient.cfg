\* Two requests, and two connections made by two objects or one after the other.
\* The program may end with every request settled.
SPECIFICATION Spec
CHECK_DEADLOCK FALSE
CONSTANTS
  Requests = {p1, p2}
  Connections = {k1, k2}
  Reqs = {r1, r2}
  Conns = {c1, c2}
  Functors = {f1}
  Cells = {g1}
  None = None
SYMMETRY Symmetry
INVARIANTS
  OnePlace
  SettledOnce
  FunctorsIntact
