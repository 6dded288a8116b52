\* Three objects. The program may end with every object destroyed.
SPECIFICATION Spec
CHECK_DEADLOCK FALSE
CONSTANTS
  Objs = {o1, o2, o3}
  Hosts = {h1, h2, h3, h4}
  None = None
SYMMETRY Symmetry
INVARIANTS
  TypeOK
  FaultNeedsMisuse
  LinksMatch
  OwnedOnce
