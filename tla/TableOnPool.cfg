CONSTANTS
  TablePage = TablePage
  RecordPage = RecordPage
  Clients = {TablePage, RecordPage}
  Pages = {0, 1, 2, 3}
  Data <- MCData
  Values = {v, w}
  Schema = Schema
  Zero = Zero
  Junk = Junk
  NULL = NULL
  Gone = Gone
  NumPages = 3
  Strategies = {"RS_FIFO"}
  LargePage = 10000
  InitPages = 1
  Dense = FALSE
  Spare = FALSE
  NoClient = NoClient
  MaxRecords = 3
  TableName = TableName
  Relation = Relation
VIEW TableView
SYMMETRY Symmetry
SPECIFICATION TableSpec
INVARIANTS
  RestsClean
  CallsSucceed
PROPERTIES
  ImplementsRecordMgr
