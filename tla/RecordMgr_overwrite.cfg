CONSTANTS
  a = a
  b = b
  Names = {t, u}
  Rels = {r}
  Scans = {s}
  Values = {a, b}
  Conditions <- MCConditions
  Zero = Zero
  Junk = Junk
  Schema = Schema
  NULL = NULL
  Gone = Gone
  PoolSize = 3
  MaxRecords = 2
SPECIFICATION Spec
PROPERTY
  InsertKeepsRecords
