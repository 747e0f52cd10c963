\* Three requests on two processes, fair scheduling, and the failures after
\* which an upload is still all or nothing.
CONSTANTS
  Requests = {r1, r2, r3}
  Processes = {p1, p2}
  Checksums = {a}
  Faults = {"put", "commit", "respond", "crash"}
  None = None
SPECIFICATION FairSpec
CHECK_DEADLOCK FALSE
INVARIANTS
  CommittedObjectsKept
  UploadIsAllOrNothing
PROPERTIES
  EveryRequestEnds
