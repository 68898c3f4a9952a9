SPECIFICATION Spec
CONSTANTS
  Token <- MCToken
  MaxElement = 127
  MaxInt = 31
  BitOr <- MCBitOr
  Sources <- TokenSources
  NumberOf <- TinyNumberOf
  MaxDepth = 3
  CellBytes = 8
  BlockSpan = 32
  Garbage = {0, 77}
  LeftFirst = FALSE
CONSTRAINT StackBound
INVARIANTS
  TypeOK
  DictionaryComplete
  CellsResolve
  CallsOlder
PROPERTIES
  EffectsAgree
  KeepsWords
