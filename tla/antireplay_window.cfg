SPECIFICATION Spec
CONSTANTS
  WordSize = 2
  Words = 4
  MaxSeq = 15
INVARIANTS
  BitmapExact
PROPERTIES
  ImplementsWindow
