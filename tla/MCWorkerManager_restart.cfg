SPECIFICATION Spec
CONSTANTS
  api = api
  post = post
  thing = thing
  qApi = qApi
  qWork = qWork
  qOther = qOther
  Job = {api, post, thing}
  QueueId = {qApi, qWork, qOther}
  QueueOf <- SharedQueue
  Recurring = {thing}
  Api = api
  Processor = {post}
  Scraper = {}
  Ensured = {api, thing}
  Known = {api, post, thing}
  AttemptCap = 1
  MaxJobsPerQueue = 1
  MaxId = 3
  MaxStarts = 2
  MaxRequests = 0
  Daemon = FALSE
  Worker = {w1, w2, w3}
SYMMETRY Symmetry
INVARIANTS TypeOK ClaimHasWorker SlotInv
PROPERTIES ApiStopsLast
CHECK_DEADLOCK FALSE
