SPECIFICATION FairSpec
CONSTANTS
  Notifications = {n1}
  Processes = {p1}
  Runs = {r1, r2, r3}
  NoNotification = NoNotification
  NoProcess = NoProcess
  NoRun = NoRun
  MaxRetry = 1
  Concurrency = 1
  MaxSpared = 1
INVARIANTS
  TypeOK
  DeliveredWasAccepted
  PostsAreDispatches
  DeadAfterAllRetries
PROPERTIES
  ImplementsServer
  EveryNotificationEnds
