SPECIFICATION RunnersLiveSpec
CONSTANTS
  MaxSha = 1
  MaxRequests = 2
  MaxSweeps = 0
  Events = {}
  MaxTries = 2
INVARIANTS WorkIsAnnounced VerdictIsTrue
PROPERTIES ImplementsTestJobs EveryRunnerExits
CHECK_DEADLOCK FALSE
