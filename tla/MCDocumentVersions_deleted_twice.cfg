\* One document and two concurrent deletions of it.
CONSTANTS
  Requests = {r1, r2, r3}
  Processes = {p1}
  Checksums = {a}
  Faults = {}
  None = None
SPECIFICATION Spec
CHECK_DEADLOCK FALSE
PROPERTIES
  DeletedOnce
