SPECIFICATION Spec
CONSTANTS
  Token <- MCToken
  MaxElement = 127
  MaxInt = 31
  BitOr <- MCBitOr
  Programs <- MCPrograms
  MaxSize = 8
INVARIANTS
  TypeOK
  SizeBounded
  Saturated
  ExpansionKept
  LocalsFollow
  BranchesKept
PROPERTIES
  WalkEnds
