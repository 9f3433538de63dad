SPECIFICATION TerminalSpec
CONSTANTS
  TERMINAL_BUF_MAX = 11
  TERMINAL_LINE_MAX = 3
  TERMINAL_CAP_MAX = 4
  MAX_CMD_LEN = 3
  APP_TEXT_MAX_LINES = 4
  TermCols = 3
  TermRows = 2
  TrackHeight = 6
  MinThumb = 1
  Typable = {"a", " "}
  Outputs <- SmallOutputs
  MaxEntered = 2
INVARIANT TypingIsHeard
