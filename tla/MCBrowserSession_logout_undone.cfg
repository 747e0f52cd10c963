\* One tab: a call is refused while the user logs out.
CONSTANTS
  MaxRequests = 2
  Tabs = {left}
  Calls = {c1}
  Expiring <- MCExpiring
  None = None
SPECIFICATION Spec
CHECK_DEADLOCK FALSE
PROPERTIES
  LogoutIsFinal
