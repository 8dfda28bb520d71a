------------------------------ MODULE TimerSet ------------------------------
(***************************************************************************)
(* What the reactor promises about timers (spec 3, 4.3 step 1, P2): the    *)
(* armed timers form a set of (timer, expiry) pairs over the reactor's     *)
(* millisecond clock.  A timer fires only once the clock has reached its   *)
(* expiry, and the one that fires has the earliest expiry of those armed.  *)
(* Timers belong to fibers (a timer lives in a subpool of its fiber's      *)
(* pool); a step of one fiber arms and cancels only that fiber's timers,   *)
(* and leaves every other timer, and its expiry, as it was.  The clock     *)
(* never goes back.  `fired` is the timer whose callback ran in the last   *)
(* step, NoTimer if none.                                                  *)
(***************************************************************************)
EXTENDS Naturals

CONSTANTS Fibers, Kinds, NoTimer

TimerIds == Fibers \X Kinds

VARIABLES armed,        \* set of <<timer, expiry>>
          reactor_time, \* the clock, in ms
          fired

Owner(x) == x[1][1]

\* Every armed timer has one expiry.
Unique(S) == \A x, y \in S : x[1] = y[1] => x = y

\* The timers not owned by fiber f are the same before and after the step.
OthersKept(f, removed) ==
  {x \in armed' : Owner(x) # f} = {x \in armed \ removed : Owner(x) # f}

Init ==
  /\ armed = {}
  /\ reactor_time \in Nat
  /\ fired = NoTimer

\* Fiber f runs (pth_start, a do_wake_up swap): it arms and cancels timers
\* of its own.
FiberStep(f) ==
  /\ OthersKept(f, {})
  /\ Unique(armed')
  /\ fired' = NoTimer
  /\ UNCHANGED reactor_time

\* An armed timer that is due and earliest fires; its callback resumes its
\* fiber, which may arm and cancel timers of its own.
Fire(x) ==
  /\ x \in armed
  /\ x[2] <= reactor_time
  /\ \A y \in armed : x[2] <= y[2]
  /\ fired' = x[1]
  /\ OthersKept(Owner(x), {x})
  /\ Unique(armed')
  /\ UNCHANGED reactor_time

Advance ==
  /\ reactor_time' >= reactor_time
  /\ fired' = NoTimer
  /\ UNCHANGED armed

Next ==
  \/ \E f \in Fibers : FiberStep(f)
  \/ \E x \in armed : Fire(x)
  \/ Advance

Spec == Init /\ [][Next]_<<armed, reactor_time, fired>>
=============================================================================
