SPECIFICATION FairSpec
CONSTANTS
  search = search
  preset = preset
  first = first
  last = last
  post = post
  first2 = first2
  last2 = last2
  queue = queue
  NoDataset = NoDataset
  Job = {search, preset, first, last, post}
  QueueId = {queue}
  QueueOf <- MCQueueOf
  Recurring = {}
  AttemptCap = 0
  Parent <- MCParent
  Preset = {preset}
  Follow <- MCFollow
  PresetOf <- MCPresetOf
  Suffix <- MCSuffix
  MaxStarts = 1
  MayFail = TRUE
  MayStop = FALSE
  MayKill = FALSE
  MayDelete = FALSE
  MayQueue = FALSE
PROPERTIES EveryDatasetFinishes
CHECK_DEADLOCK FALSE
