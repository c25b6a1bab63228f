SPECIFICATION FairSpec
CONSTANTS
  j1 = j1
  j2 = j2
  j3 = j3
  Jobs = {j1, j2, j3}
  Need <- MCNeed
  Total = 8
  Hosts <- MCHosts
CHECK_DEADLOCK FALSE
INVARIANTS
  TypeOK
  OverLimitOnlyByRace
  AccelerationIsVerified
PROPERTIES
  DelayedJobRuns
