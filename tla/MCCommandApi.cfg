SPECIFICATION ApiSpec
CONSTANTS
  Tasks = {c1, c2}
  Runs = {r1}
  NoRun = NoRun
  MaxRetry = 1
  HandlerErrors <- MCHandlerErrors
  Uncounted <- MCUncounted
  MaxSpared = 1
  Requests <- AllRequests
  PageSize = 1
  BrokerFaults = TRUE
  Conns = {l1}
SYMMETRY Symmetry
VIEW Relevant
CHECK_DEADLOCK FALSE
INVARIANTS
  ApiTypeOK
  SuccessIsFinal
  SteadyListedOnce
  ListDoesNotContradict
  AcceptedIsFound
