\* Two tasks read one keyboard through the terminal; the ring can overflow.
SPECIFICATION TermFairSpec
CONSTANTS
  r1 = r1  r2 = r2
  NONE = NONE
  Reader <- MCReaders2
  KBD_MAXNUM = 1
  KBD_MAXEVENTS = 4
  MAX_PRESSES = 5
INVARIANT CharsInOrder
PROPERTY CharsDelivered
