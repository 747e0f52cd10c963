\* Three requests of two administrators, and the script that creates one.
CONSTANTS
  Requests = {1, 2, 3}
  alice = alice
  bob = bob
  hr = hr
  InitialUsers <- MCInitialUsers
  InitialDepartments <- MCInitialDepartments
  Payloads <- MCPayloads
  Canonical <- MCCanonical
  None = None
SPECIFICATION Spec
CHECK_DEADLOCK FALSE
INVARIANTS
  TypeOK
  UniqueKeys
  AuditReplaysTables
PROPERTIES
  LastAdminLostOnlyByOverlap
