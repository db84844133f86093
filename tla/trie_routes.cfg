SPECIFICATION TrieSpec
CONSTANTS
  Bits = 3
  Values = {v1, v2}
  NoValue = NoValue
  Nil = Nil
  MaxEntries = 3
INVARIANTS SelfCheck MatchesReference IterExact
