CONSTANTS
  Clients = {c1, c2}
  Pages = {0, 1, 2}
  Data = {d}
  Zero = Zero
  Junk = Junk
  NumPages = 2
  Strategies = {"RS_LRU"}
  LargePage = 10000
  InitPages = 1
  Dense = TRUE
  Spare = FALSE
  NoClient = NoClient
VIEW PoolView
SPECIFICATION Spec
INVARIANTS
  PinnedPageResident
CHECK_DEADLOCK FALSE
