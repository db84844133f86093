CONSTANTS
  MaxVersion = 2
SPECIFICATION DaemonSpec
INVARIANTS ParentTruthful
PROPERTIES ParentEnds EndsWhenTold ReloadsLatest
CHECK_DEADLOCK FALSE
