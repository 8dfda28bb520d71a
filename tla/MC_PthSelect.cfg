\* test_select with two writers of three bytes each; the reactor's tables
\* grow by two entries, enough for the reader's two handles.
CONSTANTS
  NrWriters = 2
  NrChars = 3
  MaxLate = 3
  ULLBits = 6
  TvUsec = 1000
  HandleChunk = 2
  ArrayChunk = 2
  MaxHandles = 2
  MaxArray = 2
SPECIFICATION Spec
INVARIANT TypeOK
PROPERTY PollTimeoutExact Termination
