\* Two calls at a time and three in all, two refresh requests on the server, one fault.
CHECK_DEADLOCK FALSE
SPECIFICATION Spec
CONSTANTS
  c1 = c1  c2 = c2  h1 = h1  h2 = h2
  Nobody = Nobody  NoToken = NoToken
  Calls = {c1, c2}
  Servers = {h1, h2}
  MaxSessions = 2
  MaxCalls = 3
  MaxIncidents = 1
INVARIANTS
  PairInStep
PROPERTIES
  SignedOutForCause
  CallsSettle
