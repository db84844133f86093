SPECIFICATION FairSpec
CONSTANTS
  Capacity = 16
  MaxLen = 5
  Lens = {1, 5}
  Ids = {p, q}
  NoByte = NoByte
INVARIANTS WakeupOnItsWay
PROPERTIES ImplementsFifo EveryPacketRead
