\* Two buffers, the thread that owns them and another one.
\* The program may end with every object destroyed.
SPECIFICATION Spec
CHECK_DEADLOCK FALSE
CONSTANTS
  Buffers = {b1, b2}
  Evbufs = {e1, e2, e3}
  Items = {i1, i2, i3}
  Main = Main
  Workers = {w1}
  None = None
SYMMETRY Symmetry
INVARIANTS
  OwnedOnce
  ReadOnce
  LockReturned
  SharedLocked
