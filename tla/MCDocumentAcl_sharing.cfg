\* Three requests share one document with a user and a department.
CONSTANTS
  Requests = {r1, r2, r3}
  owner = owner
  boss = boss
  dept = dept
  Users = {owner, boss}
  Departments = {dept}
  Owner = owner
  Role <- MCRole
  DepartmentOf <- MCDepartmentOf
  Payloads <- MCPayloads
  Volatile = {dept}
  Faults = {"statement", "commit", "commit_unknown", "audit"}
  None = None
SYMMETRY Symmetry
SPECIFICATION Spec
CHECK_DEADLOCK FALSE
INVARIANTS
  TypeOK
  NoDuplicateEntries
  AuditReplaysAcl
  AckedGrantInEffect
  AuthorityIsGranted
  ListMatchesCheck
  NoStandstill
