\* The devices: an interrupt, a screen and a keyboard at a time.
SPECIFICATION DriversSpec
CONSTANTS
  pit = pit  kbd = kbd  aux = aux  None = None
  HALF = 4  PIC_SLOTS = 3
  Machine <- MCMachine
  Handler <- MCHandler
  irqOf <- MCIrqOf
  timer = pit
  MAX_NEST = 2
  MAX_OPS = 4
  W = 5  H = 2  FONT_W = 8  RIM = 3  WORD = 4096
  w1 = w1  w2 = w2  Nobody = Nobody
  Palette <- MCPalette
  Task <- MCTask
  Operation <- MCOperation
  Key <- MCKey
  FbMode <- MCFbMode
  MAX_CALLS = 3  MAX_KEYS = 3  MAX_TICKS = 2
  WIDTH = 3  HEIGHT = 2
  Drawing <- MCDrawing
  COLS = 12  ROWS = 4
  Positions <- MCPositions
  Indexes <- MCIndexes
  Keys <- MCKeys
  MAX_REQUESTS = 3  MAX_TYPED = 2
  r1 = r1  r2 = r2  NONE = NONE
  Reader <- MCReaders1
  KBD_MAXNUM = 2
  KBD_MAXEVENTS = 2
  MAX_PRESSES = 3
  Parts = {"intr", "console", "pixels", "serial", "kbd"}
\* Calls, keys and interrupts are used up.
CHECK_DEADLOCK FALSE
INVARIANTS HandlersRun SwitchExact ServiceEnds ScreensExact CommitShows OutputWhole EventsOnceInOrder
