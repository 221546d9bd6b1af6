SPECIFICATION ProgressSpec
CONSTANTS
  None = None
  AllRoutes = AllRoutes
  Ticket = {ticket1}
  Route = {route1}
  MaxFaults = 2
  p = p
  q = q
  c1 = c1
  c2 = c2
  c3 = c3
  c4 = c4
  Process = {p, q}
  Call = {c1, c2, c4}
  ProcessOf <- LockProcessOf
  KnowsStart = TRUE
  Impatient = {c2}
  MaxLives = 2
INVARIANTS QuietAsReported
PROPERTIES NoRequestAfterCancel RunsEnd DueServed EveryCallServed
CHECK_DEADLOCK FALSE
