\* One upload whose db.refresh fails after its commit.
CONSTANTS
  Requests = {r1}
  Processes = {p1}
  Checksums = {a}
  Faults = {"refresh"}
  None = None
SPECIFICATION Spec
CHECK_DEADLOCK FALSE
INVARIANTS
  CommittedObjectsKept
