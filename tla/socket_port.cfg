SPECIFICATION SocketSpec
CONSTANTS
  Sockets = {s1, s2, s3}
  Ports = {port1, port2, port3}
  Marks = {0, 7}
  NoMark = 0
  AnyPort = AnyPort
  NoSocket = NoSocket
INVARIANTS
  ListensOnPort
PROPERTIES
  OldPortFreed
