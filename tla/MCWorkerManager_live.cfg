SPECIFICATION FairSpec
CONSTANTS
  api = api
  post = post
  thing = thing
  qApi = qApi
  qWork = qWork
  qOther = qOther
  Job = {api, post, thing}
  QueueId = {qApi, qWork, qOther}
  QueueOf <- SharedQueue
  Recurring = {}
  Api = api
  Processor = {post}
  Scraper = {thing}
  Ensured = {api}
  Known = {api, post, thing}
  AttemptCap = 1
  MaxJobsPerQueue = 1
  MaxId = 3
  MaxStarts = 1
  MaxRequests = 0
  Daemon = TRUE
  Worker = {w1, w2}
PROPERTIES EveryJobGetsItsTurn StopsWhenAsked
CHECK_DEADLOCK FALSE
