CONSTANTS
  a = a
  b = b
  Names = {t}
  Rels = {r}
  Scans = {s}
  Values = {a, b}
  Conditions <- MCConditions
  Zero = Zero
  Junk = Junk
  Schema = Schema
  NULL = NULL
  Gone = Gone
  PoolSize = 3
  MaxRecords = 3
VIEW RecordView
SPECIFICATION Spec
INVARIANTS
  TypeOK
  RecordsInFile
  PoolMatchesFile
  ScanComplete
PROPERTIES
  SchemaSurvives
  ImplementsTable
