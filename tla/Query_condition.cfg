CONSTANTS
  NULL = NULL
  Crash = Crash
  Exit = Exit
  One = 2
  Numeral <- MCNumeral
  Symbols <- MCSymbols
  Rank <- MCRank
  Height <- AndOrHeight
  Tails <- MCTails
  Garbage <- NoGarbage
  Heaps <- NoHeap
  Schemas <- MCSchemas
  Literals <- PlainLiterals
  Exprs <- AndOr
  Conditions <- AndOr
  MaxDeletes = 0
SPECIFICATION Spec
CHECK_DEADLOCK FALSE
INVARIANT
  ConditionSelects
