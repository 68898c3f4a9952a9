SPECIFICATION Spec
CONSTANTS
  Token <- MCToken
  MaxElement = 127
  MaxInt = 31
  BitOr <- MCBitOr
  Programs <- MCPrograms
  MaxShort = 15
INVARIANTS
  TypeOK
  CalleesFirst
  SameFlow
  BlocksClosed
PROPERTIES
  TranslationEnds
