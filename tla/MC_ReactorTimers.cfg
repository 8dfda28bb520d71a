\* Two fibers, two rounds, sleeps of 1 ms and 1000 ms, watchdogs of 0 and
\* 1 s; int is 12 bits and unsigned long long 14 bits wide.
CONSTANTS
  f1 = f1
  f2 = f2
  f3 = f3
  Fibers <- TwoFibers
  NoTimer = NoTimer
  Delays = {1, 1000}
  WatchdogSecs = {0, 1}
  Rounds = 2
  MaxLate = 1
  IntBits = 12
  ULLBits = 14
  StartTime = 8192
SPECIFICATION Spec
INVARIANT TypeOK
PROPERTY TimerSpec
PROPERTY NoEarlyFire
INVARIANT NoTimerOfExitedFiber
PROPERTY TimersEventuallyFire
