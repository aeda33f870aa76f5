CONSTANTS
  Clients = {c1, c2}
  Pages = {0, 1, 2, 3}
  Data = {}
  Zero = Zero
  Junk = Junk
  NumPages = 3
  Strategies = {"RS_FIFO", "RS_LRU"}
  LargePage = 10000
  InitPages = 3
  Dense = FALSE
  Spare = FALSE
  NoClient = NoClient
SYMMETRY OrderSymmetry
VIEW OrderView
SPECIFICATION OrderSpec
INVARIANTS
  OneFramePerPage
  PinnedPageResident
  FixCountsPins
PROPERTIES
  FifoEvictsOldest
  LruEvictsLeastRecent
CHECK_DEADLOCK FALSE
