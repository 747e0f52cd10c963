\* One tab, one call, one token: a page is loaded and calls the API.
CONSTANTS
  MaxRequests = 2
  Tabs = {left}
  Calls = {c1}
  Expiring = {}
  None = None
SPECIFICATION Spec
CHECK_DEADLOCK FALSE
PROPERTIES
  RestoredSessionKept
