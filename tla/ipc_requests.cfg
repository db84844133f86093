CONSTANTS
  Conns = {c1, c2}
  Requests <- MCRequests
  States <- MCStates
  Bad = Bad
  None = None
SPECIFICATION Spec
INVARIANTS WholeRequestsOnly AnswerTrue StateExact
PROPERTIES Answered
CHECK_DEADLOCK FALSE
