SPECIFICATION FairSpec
CONSTANTS
  Peers = {p1}
  PublicKeys = {k1}
  Ids = {i1, i2}
  Scopes = {s1}
  Psks = {nopsk, psk1}
  InterfaceKeys = {ka, kb}
  NoPsk = nopsk
  KeyOf <- MCKeyOf
  MaxTransports = 1
  QueueSize = 1
  NoPeer = NoPeer
  NoScope = NoScope
  NoHandshake = NoHandshake
INVARIANTS
  TypeOK
  AttemptsBounded
  SessionsBounded
  KeysCurrent
  SessionsRouted
PROPERTIES
  AttemptsEnd
