SPECIFICATION Spec
CONSTANTS
  Letter <- MCLetter
  Jobs <- MCJobs
  MaxCalls = 3
  MaxRounds = 2
INVARIANTS
  TokensExact
  ModuleComplete
  StatusTells
PROPERTIES
  DriverEnds
CHECK_DEADLOCK FALSE
