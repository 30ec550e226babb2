SPECIFICATION FairSpec
CONSTANTS
  MaxSubmits = 2
  Slot = {s1, s2}
  Upload = TRUE
  Failures = TRUE
  Elsewhere = TRUE
INVARIANTS TypeOK OneDatasetEach
PROPERTIES FormComesBack QueryLinked
CHECK_DEADLOCK FALSE
