\* Two items one way and one the other, with watermarks at the server.
\* The program may end with both ends destroyed.
SPECIFICATION FairSpec
CHECK_DEADLOCK FALSE
CONSTANTS
  Client = Client
  Server = Server
  Total <- MCTotal
  Marks <- MCMarks
  Room = 1
INVARIANTS
  InTransit
  EofIsTrue
PROPERTIES
  ImplementsChannel
  NobodyWaits
