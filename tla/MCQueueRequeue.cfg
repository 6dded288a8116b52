\* test_requeue of example/evheap.cpp: a temporary carried from q1 to q2.
\* The program may end with every functor settled and every queue destroyed.
SPECIFICATION Spec
CHECK_DEADLOCK FALSE
CONSTANTS
  Queues = {q1, q2}
  Named = {}
  Temps = {t1}
  Exits = {}
  Breakers = {}
  FlagSets = {{}}
  None = None
INVARIANTS
  RequeueReadsIntact
