\* Objects and loop in one thread, or in two.  No evcore<stack_event>: it does what
\* one over heap_event does, but for moving.
\* The program may end with every object destroyed.
SPECIFICATION Spec
CHECK_DEADLOCK FALSE
CONSTANTS
  Cores = {c1, c2}
  Stacks = {}
  Evs = {v1, v2}
  Events = {e1, e2}
  Functors = {h1}
  MaxCalls = 2
  None = None
SYMMETRY Symmetry
INVARIANTS
  TypeOK
  SingleOwner
  FunctorsIntact
  CellsIntact
  MembersIntact
