SPECIFICATION Spec
CONSTANTS
  Answers <- OneAnswer
CHECK_DEADLOCK FALSE
INVARIANT StopsAgree
