\* Three requests on two processes, everything may fail.
CONSTANTS
  Requests = {r1, r2, r3}
  Processes = {p1, p2}
  Checksums = {a, b}
  Faults = {"statement", "put", "put_unknown", "commit", "commit_unknown",
            "refresh", "respond", "remove", "remove_unknown", "audit", "crash"}
  None = None
SYMMETRY Symmetry
SPECIFICATION Spec
CHECK_DEADLOCK FALSE
INVARIANTS
  TypeOK
  VersionNumbersContiguous
  CurrentIsLatest
  NoRepeatedContent
  RowLockIsTheOnlyQueue
  AckedVersionDownloadable
  SuccessAuditMatchesHistory
PROPERTIES
  DeletedFrozen
  ImplementsDocumentHistory
