CONSTANTS
  Clients = {c1, c2}
  Pages = {0, 1, 2}
  Data = {d, Zero}
  Zero = Zero
  Junk = Junk
  NumPages = 2
  Strategies = {"RS_FIFO", "RS_LRU", "RS_CLOCK"}
  LargePage = 3
  InitPages = 1
  Dense = TRUE
  Spare = TRUE
  NoClient = NoClient
VIEW PoolView
SPECIFICATION FairSpec
INVARIANTS
  TypeOK
  CleanMatchesDisk
PROPERTIES
  Returns
  FlushStoresDirtyPages
  ShutdownKeepsWrites
  ImplementsStore
CHECK_DEADLOCK FALSE
