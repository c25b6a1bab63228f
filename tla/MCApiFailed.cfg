SPECIFICATION ApiSpec
CONSTANTS
  Tasks = {c1}
  Runs = {r1}
  NoRun = NoRun
  MaxRetry = 1
  HandlerErrors <- MCHandlerErrors
  Uncounted <- MCUncounted
  MaxSpared = 1
  Requests <- OneRequest
  PageSize = 2
  BrokerFaults = FALSE
  Conns = {l1}
CHECK_DEADLOCK FALSE
INVARIANTS
  FailedIsFinal
