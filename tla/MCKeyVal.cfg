\* Two objects and a reference, lists of up to three entries, up to two functors.
\* The program may end with every object destroyed.
SPECIFICATION KvSpec
CHECK_DEADLOCK FALSE
CONSTANTS
  Owners = {o1, o2}
  Refs = {r1}
  Lists = {l1, l2, l3}
  Keys = {k1, k2}
  Values = {v1, v2, v3}
  MaxEntries = 2
  MaxPairs = 2
  Null = Null
SYMMETRY Symmetry
INVARIANTS
  OwnedOnce
  FaultNeedsMisuse
  ShownInOrder
PROPERTIES
  ShownAll
