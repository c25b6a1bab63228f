SPECIFICATION FairServerSpec
CONSTANTS
  Tasks = {t1}
  Runs = {r1, r2, r3}
  NoRun = NoRun
  MaxRetry = 1
  HandlerErrors <- MCHandlerErrors
  Uncounted <- MCUncounted
  MaxSpared = 1
  Servers = {w1, w2}
  NoServer = NoServer
  NoTask = NoTask
  Concurrency = 1
INVARIANTS
  ServerTypeOK
  DispatchesAccounted
  LeaseIsExclusive
  ArchivedOnlyWhenExhausted
  LiveWithinConcurrency
PROPERTIES
  TerminalIsFinal
  EveryTaskFinishes
