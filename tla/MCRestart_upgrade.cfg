SPECIFICATION FairSpec
CONSTANTS
  Job = {"restart", "upgrade"}
  QueueId = {"restart-4cat"}
  QueueOf <- OneQueue
  Recurring = {}
  AttemptCap = 1
  Upgrade = {"upgrade"}
  Requester = {web, extension}
  Docker = TRUE
  Failures = TRUE
  Stuck = FALSE
  Admin = TRUE
  MaxRequests = 2
  MaxManual = 1
  MaxStarts = 4
  MaxScripts = 2
INVARIANTS TypeOK RestartsOnce OneRestart
PROPERTIES RestartEnds
CHECK_DEADLOCK FALSE
