SPECIFICATION FairSpec
CONSTANTS
  p1 = p1
  p2 = p2
  f1 = f1
  f2 = f2
  Page = {p1, p2}
  UserField = {f1, f2}
  Child = {}
  Hidden = {}
  Kind = {"dropdown"}
  Editor = {p2}
  Edits <- OnlyFirst
  Given <- BothFields
  Failures = TRUE
  MaxEdits = 3
  MaxInFlight = 2
  MaxApplies = 1
INVARIANTS QuietIsSaved
PROPERTIES NoStaleOverwrite EditReachesServer
CHECK_DEADLOCK FALSE
