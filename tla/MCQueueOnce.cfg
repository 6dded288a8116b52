\* Two queues, a named functor that breaks its loop and a temporary.  The
\* refinement is checked as a safety property, for which the symmetry is sound.
\* The program may end with every functor settled and every queue destroyed.
SPECIFICATION Spec
CHECK_DEADLOCK FALSE
CONSTANTS
  Queues = {q1, q2}
  Named = {n1}
  Temps = {t1}
  Exits = {}
  Breakers = {n1}
  FlagSets = {{}}
  None = None
SYMMETRY Symmetry
INVARIANTS
  SingleHolder
  HeapOwned
  ReadsIntact
  RequeueInOrder
PROPERTIES
  ImplementsContract
