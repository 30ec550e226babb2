SPECIFICATION EndingSpec
CONSTANTS
  MaxQueries = 3
  CanTimeOut = TRUE
  CancellerFails = TRUE
INVARIANTS ClaimHeld
PROPERTIES ApiAnswers HandlerEnds
CHECK_DEADLOCK FALSE
