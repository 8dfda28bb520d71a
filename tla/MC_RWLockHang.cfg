\* test_rwlock without watchdogs, one writer doing one increment, two readers.
CONSTANTS
  r1 = r1
  r2 = r2
  w1 = w1
  w2 = w2
  Readers <- MCReaders
  Writers <- MCOneWriter
  Iters = 1
  UseWatchdog = FALSE
  WritersHavePriority = TRUE
SPECIFICATION Spec
INVARIANT ReactorNeverHangs
