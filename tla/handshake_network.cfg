CONSTANTS
  Nodes = {a, b}
  MaxTransports = 2
  MaxClock = 2
  MaxId = 4
  MaxEvents = 1
  None = None
SPECIFICATION Spec
SYMMETRY Symmetry
INVARIANTS NoKeyReuse InOrder AnsweredOnce SentOnCommonKey
PROPERTIES CookieInOrder
CHECK_DEADLOCK FALSE
