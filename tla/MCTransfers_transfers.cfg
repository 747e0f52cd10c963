\* Three requests of any kind share one connection, two threads and the loop;
\* an object has two chunks.
CONSTANTS
  Requests = {r1, r2, r3}
  PoolSize = 1
  ThreadLimit = 2
  Chunks = 2
  None = None
SPECIFICATION Spec
CHECK_DEADLOCK FALSE
INVARIANTS
  TypeOK
  NobodyHoldsAndWaits
  AuditTellsOutcome
  StreamsReleased
  StandstillIsCircular
PROPERTIES
  EveryRequestSettles
