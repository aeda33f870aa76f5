CONSTANTS
  Handles = {h1, h2}
  FileNames = {f}
  Inodes = {i1, i2}
  Data = {d}
  Zero = Zero
  Junk = Junk
  NULL = NULL
  Shared = FALSE
  DiskErrors = TRUE
  MaxPages = 3
  MaxStreams = 3
SYMMETRY Symmetry
VIEW StateView
SPECIFICATION Spec
INVARIANTS
  TypeOK
  TotalTracksFile
  CurrentBlockExists
  NameReachesStream
  StreamsCoverHandles
PROPERTIES
  AppendKeepsBlocks
CHECK_DEADLOCK FALSE
