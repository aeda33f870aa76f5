CONSTANTS
  Handles = {h1, h2}
  FileNames = {f}
  Inodes = {i1, i2}
  Data = {d}
  Zero = Zero
  Junk = Junk
  NULL = NULL
  Shared = TRUE
  DiskErrors = FALSE
  MaxPages = 4
  MaxStreams = 3
VIEW StateView
SPECIFICATION Spec
PROPERTIES
  AppendKeepsBlocks
CHECK_DEADLOCK FALSE
