\* test_rwlock, writer priority, with watchdogs: 2 readers, 2 writers, 2 increments each.
CONSTANTS
  r1 = r1
  r2 = r2
  w1 = w1
  w2 = w2
  Readers <- MCReaders
  Writers <- MCWriters
  Iters = 2
  UseWatchdog = TRUE
  WritersHavePriority = TRUE
SPECIFICATION Spec
SYMMETRY RoleSymmetry
INVARIANT TypeOK
INVARIANT RWExclusion
INVARIANT NoLostUpdate
INVARIANT WaitersAccounted
