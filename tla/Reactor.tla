------------------------------ MODULE Reactor ------------------------------
(***************************************************************************)
(* One tick of reactor_invoke (src/src/pthr_reactor.c) as seen by fibers   *)
(* that suspend on timers and on wait queues (no descriptor handles are    *)
(* registered in the systems that use this module).                        *)
(*                                                                         *)
(*   "timers"  step 1: while the head timer is due, unlink it and run it.  *)
(*   "prepoll" step 2: run the first not-yet-fired prepoll handler until   *)
(*             none is left; every handler here is a do_wake_up, which     *)
(*             swaps into each fiber of its private copy in turn and then  *)
(*             unregisters itself.                                         *)
(*   "poll"    steps 3-6: poll(2) sleeps until the head timer expires, the *)
(*             clock is refreshed and the head timer fires (r == 0).       *)
(*   "main"    main() starting the fibers before its reactor loop.         *)
(*                                                                         *)
(* Time is abstract.  A timer armed with a delay of at least 1 ms cannot   *)
(* be due before the clock is refreshed, which happens only after poll;    *)
(* after poll, any non-empty set of armed timers may be due (the delays    *)
(* are inputs).  Step 1 fires every due timer before moving on, in any     *)
(* order.  The r == 0 branch fires the head timer right after poll; the    *)
(* next tick's step 1 follows with nothing in between, so it is the same   *)
(* as firing that timer first in step 1.                                   *)
(*                                                                         *)
(* Callbacks are operator arguments: OnTimer(t, tm) is the callback of     *)
(* timer t given the timer set tm once t is unlinked; it fixes timers'.    *)
(* OnWake(f) is the code fiber f runs when do_wake_up swaps into it.       *)
(***************************************************************************)
EXTENDS Sequences, SequencesExt, FiniteSets

CONSTANTS Fibers

VARIABLES rstep,    \* where reactor_invoke is
          timers,   \* armed timers: <<fiber, kind>>
          due,      \* armed timers whose expiry <= reactor_time
          prepolls, \* registered do_wake_up handlers (private copies)
          waking    \* rest of the copy of the do_wake_up that is running

reactorVars == <<rstep, timers, due, prepolls, waking>>

TimerKinds == {"sleep", "alarm"}   \* _sleep's timer, pth_timeout's alarm
Timers == Fibers \X TimerKinds

ReactorTypeOK ==
  /\ rstep \in {"main", "timers", "prepoll", "poll"}
  /\ timers \subseteq Timers
  /\ due \subseteq timers
  /\ prepolls \in Seq(Seq(Fibers))
  /\ waking \in Seq(Fibers)

\* main() ends with for (;;) reactor_invoke ().
MainLoop ==
  /\ rstep = "main"
  /\ rstep' = "timers"
  /\ UNCHANGED <<timers, due, prepolls, waking>>

\* Step 1: the head timer is due; reactor_unset_timer_early unlinks it
\* before fn (data) runs.  Timers the callback cancels stop being due.
\* The caller conjoins the callback fn (data), which fixes timers'
\* starting from timers \ {t}.
FireTimer(t) ==
  /\ rstep = "timers"
  /\ t \in due
  /\ due' = (due \ {t}) \cap timers'
  /\ UNCHANGED <<rstep, waking>>

\* Step 1 ends when the head timer is not due.
EndTimers ==
  /\ rstep = "timers"
  /\ due = {}
  /\ rstep' = "prepoll"
  /\ UNCHANGED <<timers, due, prepolls, waking>>

\* Step 2: clear the fired flags, take the first unfired handler from the
\* head.  Handlers registered while one runs are linked at the head and
\* are unfired, so the most recently registered runs next.
RunPrepoll ==
  /\ rstep = "prepoll"
  /\ waking = <<>>
  /\ prepolls # <<>>
  /\ waking' = Head(prepolls)
  /\ prepolls' = Tail(prepolls)
  /\ UNCHANGED <<rstep, timers, due>>

\* do_wake_up: _pth_switch_calling_to_thread_context into the next fiber
\* of the copy; the fiber runs until it suspends or exits.  The caller
\* conjoins what the fiber Head(waking) does.
WakeNext ==
  /\ rstep = "prepoll"
  /\ waking # <<>>
  /\ waking' = Tail(waking)
  /\ UNCHANGED <<rstep, due>>

\* Step 2 ends when no unfired prepoll handler is left.
EndPrepoll ==
  /\ rstep = "prepoll"
  /\ waking = <<>>
  /\ prepolls = <<>>
  /\ rstep' = "poll"
  /\ UNCHANGED <<timers, due, prepolls, waking>>

\* Steps 3-6: poll with timeout = head expiry - now; when it returns the
\* clock is refreshed and at least the head timer is due.
Poll ==
  /\ rstep = "poll"
  /\ timers # {}
  /\ \E d \in SUBSET timers \ {{}} : due' = d
  /\ rstep' = "timers"
  /\ UNCHANGED <<timers, prepolls, waking>>

\* poll(2) on no descriptors with timeout -1: the process sleeps forever.
Blocked == rstep = "poll" /\ timers = {}
=============================================================================
