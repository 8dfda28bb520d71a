\* test_select with the reader polling with a zero timeval: pth_poll arms
\* a 0 ms timer that the timers loop finds due again after every re-arm.
CONSTANTS
  NrWriters = 2
  NrChars = 3
  MaxLate = 3
  ULLBits = 6
  TvUsec = 0
  HandleChunk = 2
  ArrayChunk = 2
  MaxHandles = 2
  MaxArray = 2
SPECIFICATION Spec

PROPERTY Termination
