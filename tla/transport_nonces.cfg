SPECIFICATION Spec
CONSTANTS
  Senders = {tun, keepalive, persistent}
  Flusher = rx
  FlushSize = 2
  Modulus = 10
  RekeyAfter = 2
  RejectAfter = 6
SYMMETRY Symmetry
INVARIANTS
  NonceFresh
  SilentUntilConfirmed
  RekeyBeforeReject
