SPECIFICATION Spec
CONSTANTS
  PublicKeys = {k1, k2}
  a = a
  b = b
  b0 = b0
  AllowedIps = {a, b, b0}
  Masked <- MCMasked
  AllowedIpSets <- MCAllowedIpSets
  Psks = {nopsk}
  NoPsk = nopsk
  Endpoints = {e1}
  Keepalives = {0, 25}
  NoPeer = NoPeer
  Absent = Absent
SYMMETRY Symmetry
INVARIANTS
  TakesFromOthers
  RoutesConsistent
  KeepaliveKept
  ReloadApplied
