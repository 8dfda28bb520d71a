\* test_rwlock without watchdogs: two writers doing two increments each, two readers.
CONSTANTS
  r1 = r1
  r2 = r2
  w1 = w1
  w2 = w2
  Readers <- MCReaders
  Writers <- MCWriters
  Iters = 2
  UseWatchdog = FALSE
  WritersHavePriority = TRUE
SPECIFICATION Spec
PROPERTY WriterPriorityHonoured
