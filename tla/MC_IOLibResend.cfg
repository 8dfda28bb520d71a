\* Buffers of two bytes, a peer sending three, calls of up to two bytes,
\* four library calls before io_fclose.
CONSTANTS
  InSize = 2
  OutSize = 2
  InLen = 3
  MaxChunk = 2
  MaxOps = 4
SPECIFICATION Spec



INVARIANT NoByteSentTwice
