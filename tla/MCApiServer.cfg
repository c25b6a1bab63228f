SPECIFICATION ServerSpec
CONSTANTS
  Tasks = {c1}
  Runs = {r1}
  NoRun = NoRun
  MaxRetry = 1
  HandlerErrors <- MCHandlerErrors
  Uncounted <- MCUncounted
  MaxSpared = 0
  Requests <- MCRequests
  PageSize = 1
  BrokerFaults = TRUE
  Conns = {k1}
  UrlForm <- MCUrlForm
  Asked <- MCAsked
  OtherRequests <- MCOtherRequests
  Ids = {"", "unknown"}
  Results <- MCResults
  Faulty = TRUE
CHECK_DEADLOCK FALSE
INVARIANTS
  AnswersDecode
  EchoIsRequest
