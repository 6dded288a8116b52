\* Two objects and two structures of each kind, which may take each other's place, and two
\* sockets.
SPECIFICATION Spec
CHECK_DEADLOCK FALSE
CONSTANTS
  Listeners = {o1, o2}
  Levs = {k1, k2}
  Bevs = {b1, b2}
  Bufs = {h1, h2}
  Socks = {s1, s2}
  Functors = {f1}
  OptSets = {{"close_on_free"}, {"unlock_callbacks"}}
  None = None
SYMMETRY Symmetry
INVARIANTS
  OwnedOnce
  FunctorsIntact
  SocketsSettled
  LockReturned
