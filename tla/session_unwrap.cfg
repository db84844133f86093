SPECIFICATION Spec
CONSTANTS
  Peers = {p1}
  PublicKeys = {k1}
  Ids = {i1, i2, i3}
  Scopes = {s1, s2}
  Psks = {nopsk}
  InterfaceKeys = {ka}
  NoPsk = nopsk
  KeyOf <- MCKeyOf
  MaxTransports = 1
  QueueSize = 1
  NoPeer = NoPeer
  NoScope = NoScope
  NoHandshake = NoHandshake
SYMMETRY Symmetry
INVARIANTS
  HandshakeStillThere
