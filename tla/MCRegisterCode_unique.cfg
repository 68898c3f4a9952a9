SPECIFICATION SpecCode
CONSTANTS
  Token <- MCToken
  MaxElement = 3
  MaxInt = 1
  BitOr <- MCBitOr
  Graphs <- MovingGraphs
  WordEffects <- MCWordEffects
  WordName <- MCWordName
  Answer <- MCAnswer
  Arguments = {0, 1}
  Addresses = {2}
  Unset = Unset
  LeftFirst = TRUE
PROPERTIES
  ElementsKept
