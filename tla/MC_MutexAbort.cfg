\* test_mutex with watchdogs: does wq_sleep_on ever reach abort()?
CONSTANTS
  f1 = f1
  f2 = f2
  f3 = f3
  Fibers <- MCFibers
  NoFiber = NoFiber
  Iters = 2
  UseWatchdog = TRUE
SPECIFICATION Spec
INVARIANT NoAbort
