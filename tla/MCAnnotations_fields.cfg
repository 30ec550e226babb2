SPECIFICATION Spec
CONSTANTS
  p1 = p1
  p2 = p2
  f1 = f1
  f2 = f2
  Page = {p1, p2}
  UserField = {f1}
  Child = {c1}
  Hidden = {c1}
  Kind = {"dropdown", "checkbox"}
  Editor = {p1, p2}
  Edits <- NoEdits
  Given <- OneField
  Failures = TRUE
  MaxEdits = 0
  MaxInFlight = 1
  MaxApplies = 2
INVARIANTS TypeOK HiddenKept WarnedUnlessChanged
CHECK_DEADLOCK FALSE
