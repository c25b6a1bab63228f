SPECIFICATION ServiceSpec
CONSTANTS
  Commands = {c1}
  Workers = {w1}
  Runs = {r1, r2, r3}
  NoCommand = NoCommand
  NoWorker = NoWorker
  NoRun = NoRun
  NoOutput = NoOutput
  MaxRetry = 1
  Concurrency = 1
  Inputs = {in1}
  Outputs = {o1}
  Hooked = {c1}
  Adapter = "s3"
  ResourceCheck = TRUE
  BrokerFaults = FALSE
  MaxSpared = 1
  Requests <- MCRequests
  PageSize = 1
  Conns = {l1}
SYMMETRY Symmetry
VIEW Relevant
INVARIANTS
  TypeOK
  ReportedIsStored
  CompletedIsNotified
  NotifiedOncePerDispatch
PROPERTIES
  FilesLostOnlyToOverlap
  ImplementsServer
