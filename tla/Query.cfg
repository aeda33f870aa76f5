CONSTANTS
  NULL = NULL
  Crash = Crash
  Exit = Exit
  One = 2
  Numeral <- MCNumeral
  Symbols <- MCSymbols
  Rank <- MCRank
  Height <- MCHeight
  Tails <- MCTails
  Garbage <- MCGarbage
  Heaps <- MCHeaps
  Schemas <- MCSchemas
  Literals <- MCLiterals
  Exprs <- MCConditions
  Conditions <- MCConditions
  MaxDeletes = 1
SPECIFICATION Spec
CHECK_DEADLOCK FALSE
INVARIANTS
  TypeOK
  RecordReadBack
  EndsOnlyOnBlank
  ValueReadBack
  DecidesComparisons
  ReturnedSatisfies
  SchemaReadBack
  OpensIfTerminated
