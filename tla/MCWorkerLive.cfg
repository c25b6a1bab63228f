SPECIFICATION FairSpec
CONSTANTS
  Commands = {c1}
  Workers = {w1}
  Runs = {r1, r2, r3}
  NoCommand = NoCommand
  NoWorker = NoWorker
  NoRun = NoRun
  NoOutput = NoOutput
  MaxRetry = 1
  Concurrency = 1
  Inputs = {in1, in2}
  Outputs = {o1}
  Hooked = {c1}
  Adapter = "file"
  ResourceCheck = TRUE
  BrokerFaults = TRUE
  MaxSpared = 1
PROPERTIES
  EveryCommandFinishes
