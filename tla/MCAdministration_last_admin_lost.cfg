\* Two administrators act on each other, or each on himself.
CONSTANTS
  Requests = {1, 2}
  alice = alice
  bob = bob
  hr = hr
  InitialUsers <- MCInitialUsers
  InitialDepartments <- MCInitialDepartments
  Payloads <- UserPayloads
  Canonical <- MCCanonical
  None = None
SPECIFICATION Spec
CHECK_DEADLOCK FALSE
INVARIANTS
  AdminRemains
