\* Two tabs of a browser that is logged in, two calls at a time, and three
\* requests to /auth.
CONSTANTS
  MaxRequests = 3
  Tabs = {left, right}
  Calls = {c1, c2}
  Expiring <- MCExpiring
  None = None
SYMMETRY Symmetry
SPECIFICATION Spec
CHECK_DEADLOCK FALSE
INVARIANTS
  TypeOK
  AuditExplainsTokens
  TokenReusedOnlyByOverlap
  OneLiveTokenPerLogin
  CallsShareOneRefresh
  CookieIsLive
  CallsNeverReuse
  UndisturbedLogoutSticks
