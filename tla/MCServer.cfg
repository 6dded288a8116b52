\* Two requests and both signals.
\* The program ends with main().
SPECIFICATION FairSpec
CHECK_DEADLOCK FALSE
CONSTANTS
  Requests = {r1, r2}
  Signals = {SIGINT, SIGTERM}
  None = None
INVARIANTS
  NothingDangles
  InHand
PROPERTIES
  OnceKept
  Replied
  MainEnds
