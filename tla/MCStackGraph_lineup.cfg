SPECIFICATION Spec
CONSTANTS
  Token <- MCToken
  MaxElement = 7
  MaxInt = 7
  BitOr <- MCBitOr
  Graphs <- MCGraphs
  WordEffects <- MCWordEffects
  WordName <- MCWordName
INVARIANTS
  RegistersLineUp
