SPECIFICATION Spec
CONSTANTS
  search = search
  preset = preset
  first = first
  last = last
  post = post
  first2 = first2
  last2 = last2
  queue = queue
  NoDataset = NoDataset
  Job = {search, preset, first, last, first2, last2}
  QueueId = {queue}
  QueueOf <- MCQueueOf
  Recurring = {}
  AttemptCap = 0
  Parent <- MCParent
  Preset = {preset}
  Follow <- MCFollow
  PresetOf <- MCPresetOf
  Suffix <- MCSuffix
  MaxStarts = 2
  MayFail = FALSE
  MayStop = FALSE
  MayKill = TRUE
  MayDelete = FALSE
  MayQueue = TRUE
INVARIANTS ResultKept
PROPERTIES PresetEndsPipeline SourceComplete
CHECK_DEADLOCK FALSE
