SPECIFICATION Spec
CONSTANTS
  MaxWire = 4
  MaxTyped = 3
  Width = 3
  Height = 2
  Steps <- SmallSteps
  MaxSent = 3
  MaxLost = 2
  Hours = 3
  Minutes = 2
  Seconds = 2
  Ticks = 2
  Printable = {"a", " "}
  MAX_CMD_LEN = 3
  MAX_HISTORY = 2
  Cols = 4
  Prompts = {1, 2}
  PAGE_SIZE = 4
  KernelEnd = 6
  UserMin = 28
  UserMax = 44
  HEAP_START = 20
  HEAP_SIZE = 32
  Edges = {0, 3, 4, 6, 9, 21, 24, 30, 41, 55, 64}
  MaxRegions = 3
  MaxTries = 3
  MaxFailures = 1
  MaxCalls = 4
  TERMINAL_BUF_MAX = 11
  TERMINAL_LINE_MAX = 3
  TERMINAL_CAP_MAX = 4
  APP_TEXT_MAX_LINES = 4
  TermCols = 3
  TermRows = 2
  TrackHeight = 6
  MinThumb = 1
  Typable = {"a", " "}
  Outputs <- SmallOutputs
  MaxEntered = 2
  WORD = 32
  ELF_USER_MIN_ADDR = 12
  ELF_USER_MAX_ADDR = 20
  ELF_MAX_FILE_SIZE = 8
  EHDR = 1
  PHDR = 1
  ClusterSize = 2
  BufferPlaces = {4, 16}
  ElfFiles <- SmallElfFiles
  SleepTypes = {0, 1, 5, 7}
  Preludes <- SmallPreludes
  LengthBytes <- SmallLengthBytes
  PartitionTables <- SmallTables
  Volumes <- SmallVolumes
  TableEntries = 4
  Dirs = {"root", "sub"}
  RootDir = "root"
  FileNames = {"f"}
  FILES_MAX_ENTRIES = 2
  FILES_DBLCLICK_TICKS = 1
  MaxEntries = 2
  TextCols = 3
  TextRows = 2
  Glyphs = {"a"}
  BlankCell = " "
\* The bounds on keys, packets and calls end a behaviour, and so do the last
\* step of the boot and a disk that does not answer.
CHECK_DEADLOCK FALSE
INVARIANT TypeOK
INVARIANT KeysAsTyped
INVARIANT PointerTracks
INVARIANT TimeNeverAhead
INVARIANT ScreenInStep
INVARIANT PagesKept
INVARIANT QuietMeansDone
PROPERTY ImplementsLine
INVARIANT NothingOutOfReach
INVARIANT ProgramIsWhole
INVARIANT PoweroffIsS5
INVARIANT ClustersInVolume
INVARIANT ActsOnWhatWasClicked
INVARIANT NoStaleText
