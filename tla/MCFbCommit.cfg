\* A back buffer that is committed page by page.
INIT ConsoleInit
NEXT ConsoleNext
CONSTANTS
  W = 5  H = 2  FONT_W = 8  RIM = 3  WORD = 4096
  w1 = w1  w2 = w2  Nobody = Nobody
  Palette <- MCPalette
  Task <- MCTask
  Operation <- MCOperation
  Key <- MCKey
  FbMode <- MCPaged
  MAX_CALLS = 3  MAX_KEYS = 3  MAX_TICKS = 2
CHECK_DEADLOCK FALSE
INVARIANT CommitShows
