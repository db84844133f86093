CONSTANTS
  Procs = {p1, p2}
  Ids = {0, 1, 2}
  Names <- MCNames
  MaxFaults = 1
  MaxChanges = 2
  None = None
SPECIFICATION Spec
PROPERTIES  ForeignKept ValueNotMissed OpenEnds
