SPECIFICATION Spec
CONSTANTS
  Token <- MCToken
  MaxElement = 127
  MaxInt = 31
  BitOr <- MCBitOr
  Programs <- BranchPrograms
  MaxSize = 12
INVARIANTS
  BranchesFixed
