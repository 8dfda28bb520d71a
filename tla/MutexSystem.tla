---------------------------- MODULE MutexSystem ----------------------------
(***************************************************************************)
(* Fibers contending for one mutex over the reactor: the program of        *)
(* src/src/test_mutex.c (each fiber does Iters slow read/modify/writes of  *)
(* `var` inside the lock, sleeping 1 ms inside and 1 ms after it), where   *)
(* a fiber may also begin with pth_timeout, the per-fiber watchdog.        *)
(*                                                                         *)
(* Fibers are cooperative: the code a fiber runs between two suspension    *)
(* points is one action.  A fiber is suspended at                          *)
(*   "wq"   wq_sleep_on in mutex_enter,                                    *)
(*   "cs"   pth_millisleep (1) inside the critical section,                *)
(*   "rest" pth_millisleep (1) after mutex_leave,                          *)
(* and is resumed by its sleep timer, its alarm timer, or do_wake_up.      *)
(***************************************************************************)
EXTENDS Naturals, Sequences, SequencesExt, Functions

CONSTANTS Fibers,      \* the pseudothreads (NR_THREADS)
          NoFiber,     \* the null pseudothread
          Iters,       \* NR_INCREMENTS
          UseWatchdog  \* whether a fiber may start with pth_timeout

ASSUME Iters \in Nat \ {0} /\ UseWatchdog \in BOOLEAN /\ NoFiber \notin Fibers

MQ == "mutex_wq"

VARIABLES pc, iter, v, var, incs,
          holder, lockPool,
          rstep, timers, due, prepolls, waking, sleepers, aborted

vars == <<pc, iter, v, var, incs, holder, lockPool,
          rstep, timers, due, prepolls, waking, sleepers, aborted>>

R  == INSTANCE Reactor
WQ == INSTANCE WaitQueue WITH Queues <- {MQ}
M  == INSTANCE Mutex

TypeOK ==
  /\ pc \in [Fibers -> {"init", "wq", "cs", "rest", "done"}]
  /\ iter \in [Fibers -> 0..Iters]
  /\ v \in [Fibers -> Nat]
  /\ var \in Nat
  /\ incs \in [Fibers -> 0..Iters]   \* completed increments (history)
  /\ M!MutexTypeOK
  /\ R!ReactorTypeOK
  /\ WQ!WaitQueueTypeOK

Init ==
  /\ pc = [f \in Fibers |-> "init"]
  /\ iter = [f \in Fibers |-> 0]
  /\ v = [f \in Fibers |-> 0]
  /\ var = 0
  /\ incs = [f \in Fibers |-> 0]
  /\ holder = NoFiber
  /\ lockPool = NoFiber
  /\ rstep = "main"
  /\ timers = {}
  /\ due = {}
  /\ prepolls = <<>>
  /\ waking = <<>>
  /\ sleepers = [q \in {MQ} |-> <<>>]
  /\ aborted = FALSE

-----------------------------------------------------------------------------
(* Fiber code.  tm is the timer set as the fiber is resumed; each         *)
(* operator fixes pc', v', timers' and the mutex and wait-queue state.    *)

\* The timers allocated in fiber f's pool.
FiberTimers(f) == {f} \X R!TimerKinds

\* mutex_enter (lock); v = var; pth_millisleep (1): mutex_try_enter, and
\* wq_sleep_on when it fails (the while loop of mutex_enter).
mutex_enter(f, tm) ==
  IF M!MutexFree
  THEN /\ M!mutex_try_enter(f)
       /\ v' = [v EXCEPT ![f] = var]
       /\ timers' = tm \cup {<<f, "sleep">>}
       /\ pc' = [pc EXCEPT ![f] = "cs"]
       /\ UNCHANGED <<sleepers, prepolls, aborted>>
  ELSE /\ WQ!wq_sleep_on(MQ, f)
       /\ timers' = tm
       /\ pc' = [pc EXCEPT ![f] = "wq"]
       /\ UNCHANGED <<holder, lockPool, v>>

\* thread_trampoline after run returns or pth_exit longjmps: delete the
\* fiber's pool (its lock subpool, its timers) and leave for good.
thread_exit(f, tm) ==
  /\ M!ReleaseOnExit(f)
  /\ timers' = tm \ FiberTimers(f)
  /\ pc' = [pc EXCEPT ![f] = "done"]
  /\ UNCHANGED v

\* pth_start from main: run the fiber until it first suspends.  The fiber
\* may first call pth_timeout (seconds), arming its alarm timer.
Start(f) ==
  /\ rstep = "main"
  /\ pc[f] = "init"
  /\ \E arm \in IF UseWatchdog THEN BOOLEAN ELSE {FALSE} :
       mutex_enter(f, IF arm THEN timers \cup {<<f, "alarm">>} ELSE timers)
  /\ UNCHANGED <<iter, var, incs, rstep, due, waking>>

\* return_from_sleep in the critical section: var = v + 1;
\* mutex_leave (lock); pth_millisleep (1).
LeaveCS(f, tm) ==
  /\ var' = v[f] + 1
  /\ incs' = [incs EXCEPT ![f] = @ + 1]
  /\ M!mutex_leave(f)
  /\ timers' = tm \cup {<<f, "sleep">>}
  /\ pc' = [pc EXCEPT ![f] = "rest"]
  /\ UNCHANGED <<iter, v>>

\* A fault: the for loop bound written i <= NR_INCREMENTS.
NextIterationOffByOne(f, tm) ==
  /\ iter' = [iter EXCEPT ![f] = @ + 1]
  /\ IF iter[f] + 1 <= Iters
     THEN mutex_enter(f, tm)
     ELSE thread_exit(f, tm)
  /\ UNCHANGED <<var, incs>>

\* return_from_sleep after the critical section: next iteration of the
\* for loop, or nr_threads-- and return from start_thread.
NextIteration(f, tm) ==
  /\ iter' = [iter EXCEPT ![f] = @ + 1]
  /\ IF iter[f] + 1 < Iters
     THEN mutex_enter(f, tm)
     ELSE thread_exit(f, tm)
  /\ UNCHANGED <<var, incs>>

\* return_from_alarm: the fiber resumes with alarm_received set and exits
\* at the suspension point it was in: wq_sleep_on erases it from the queue
\* (or aborts), _sleep cancels its sleep timer.  A fiber waiting in
\* mutex_enter holds no lock.
Alarm(f, tm) ==
  /\ IF pc[f] = "wq"
     THEN /\ WQ!wq_sleep_on_alarm(MQ, f)
          /\ IF aborted'
             THEN timers' = tm /\ UNCHANGED pc
             ELSE /\ timers' = tm \ FiberTimers(f)
                  /\ pc' = [pc EXCEPT ![f] = "done"]
          /\ UNCHANGED <<holder, lockPool, v>>
     ELSE thread_exit(f, tm \ {<<f, "sleep">>})
  /\ UNCHANGED <<iter, var, incs>>

\* The callback of a timer that fires.
OnTimer(t, tm) ==
  LET f == t[1] IN
  CASE t[2] = "alarm"                 -> Alarm(f, tm)
    [] t[2] = "sleep" /\ pc[f] = "cs" -> LeaveCS(f, tm)
    [] t[2] = "sleep" /\ pc[f] = "rest" -> NextIteration(f, tm)

\* do_wake_up swaps into a fiber in wq_sleep_on; alarm_received is clear
\* (an alarm resumes the fiber at once), so mutex_enter loops and retries.
OnWake(f) ==
  /\ mutex_enter(f, timers)
  /\ UNCHANGED <<iter, var, incs>>

\* Step 1 of reactor_invoke: a due timer is unlinked and its callback runs.
TimerFires == \E t \in due : OnTimer(t, timers \ {t}) /\ R!FireTimer(t)

\* do_wake_up swaps into the next fiber of its copy.
FiberWoken == R!WakeNext /\ OnWake(Head(waking))

-----------------------------------------------------------------------------
fiberVars == <<pc, iter, v, var, incs, holder, lockPool, sleepers, aborted>>

AllDone == \A f \in Fibers : pc[f] = "done"

\* After abort() or once the reactor sleeps forever nothing happens.
Halted == aborted \/ R!Blocked

Next ==
  \/ /\ ~aborted
     /\ \/ \E f \in Fibers : Start(f)
        \/ R!MainLoop /\ (\A f \in Fibers : pc[f] # "init")
                      /\ UNCHANGED fiberVars
        \/ TimerFires
        \/ R!EndTimers /\ UNCHANGED fiberVars
        \/ R!RunPrepoll /\ UNCHANGED fiberVars
        \/ FiberWoken
        \/ R!EndPrepoll /\ UNCHANGED fiberVars
        \/ R!Poll /\ UNCHANGED fiberVars
  \/ Halted /\ UNCHANGED vars

\* main() starts every fiber and then runs reactor_invoke forever; poll
\* returns once the head timer expires.  Each reactor step is weakly fair.
Fairness ==
  /\ \A f \in Fibers : WF_vars(Start(f))
  /\ WF_vars(R!MainLoop /\ (\A f \in Fibers : pc[f] # "init")
               /\ UNCHANGED fiberVars)
  /\ WF_vars(TimerFires)
  /\ WF_vars(R!EndTimers /\ UNCHANGED fiberVars)
  /\ WF_vars(R!RunPrepoll /\ UNCHANGED fiberVars)
  /\ WF_vars(FiberWoken)
  /\ WF_vars(R!EndPrepoll /\ UNCHANGED fiberVars)
  /\ WF_vars(R!Poll /\ UNCHANGED fiberVars)

Spec == Init /\ [][Next]_vars /\ Fairness

-----------------------------------------------------------------------------
(* Properties *)

\* test_mutex's final assertion, at every moment: var equals the number of
\* read/modify/writes completed, although each one reads var, sleeps
\* (letting every other fiber run) and writes var + 1 after the sleep.
NoLostUpdate == var = SumFunction(incs)

\* P4: the lock is tied to its holder's scope.  The live subpool belongs
\* to the holder, and a holder is a live fiber inside its critical
\* section: a fiber that leaves or exits (alarm, return) has released it.
LockScopedToHolder ==
  /\ lockPool = holder
  /\ holder # NoFiber => pc[holder] = "cs"

\* P3: every fiber waiting in mutex_enter is in exactly one place - on the
\* queue, in a registered do_wake_up copy, or in the copy being run - and
\* no other fiber is in any of them.  So each sleeper is resumed once.
WaitersAccounted ==
  \A f \in Fibers :
    WQ!Occurrences(f, waking) = IF pc[f] = "wq" THEN 1 ELSE 0

\* Every fiber eventually finishes its increments or is stopped by its
\* watchdog (or the process aborts): no wake-up of a waiter is lost.
Termination == <>(AllDone \/ aborted)

\* wq_sleep_on never reaches abort(): a watchdog that fires on a waiting
\* fiber finds it on the queue (spec 4.5: the removal is defensive).
NoAbort == ~aborted
=============================================================================
