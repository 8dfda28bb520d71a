\* test_mutex with watchdogs: 3 fibers, 2 increments each.
CONSTANTS
  f1 = f1
  f2 = f2
  f3 = f3
  Fibers <- MCFibers
  NoFiber = NoFiber
  Iters = 2
  UseWatchdog = TRUE
SPECIFICATION Spec
INVARIANT TypeOK
INVARIANT NoLostUpdate
INVARIANT LockScopedToHolder
INVARIANT WaitersAccounted
PROPERTY Termination
