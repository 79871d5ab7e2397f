SPECIFICATION Spec
CONSTANTS
  Name <- MCName
  NoFile = NoFile
  NULL = NULL
  MAX_RECENT = 2
  Lower <- MCLower
  Slash = "/"
  Newline = "n"
  Space = " "
  Dot = "-"
  Nul = "0"
  Ellipsis = "..."
  IGNORED_SEGMENTS = {}
  BINARY_EXTENSIONS <- MCBinary
  BINARY_HEAD = 2
  MAX_SEARCHABLE_BYTES = 6
  SNIPPET_BEFORE = 1
  SNIPPET_AFTER = 1
  Start <- MCStart
  Contents <- MCContents
  Typeable = {"a", "b"}
  CONCURRENCY = 2
  MAX_FILES_SCANNED = 2
  MAX_MATCHES_PER_FILE = 2
  MAX_CONTENT_MATCHES = 3
  MIN_CONTENT_QUERY = 2
  MAX_FILE_ROWS = 3
  MaxLength = 2
  MaxKeys = 3
  MaxEdits = 1
  MaxFetches = 1
  MaxTroubles = 1
  MaxOpenings = 2
INVARIANTS OneQueryPerList NothingIsMissed HitsAreGenuine
PROPERTY SelectionStays
CHECK_DEADLOCK FALSE
