SPECIFICATION Spec
CONSTANTS
  Token <- MCToken
  MaxElement = 32767
  MaxInt = 8191
  BitOr <- MCBitOr
  Sources <- ProgramSources
  NumberOf <- MCNumberOf
  MaxDepth = 6
  CellBytes = 8
  BlockSpan = 32
  Garbage = {0, 77}
  LeftFirst = TRUE
INVARIANTS
  ExamplesPrint
  StructuredMeaning
  JumpsLand
  AccessesOwned
PROPERTIES
  ProgramEnds
