---------------------------- MODULE ReactorTimers ----------------------------
(***************************************************************************)
(* The timers of the reactor (src/src/pthr_reactor.c) under the fibers     *)
(* that use them (src/src/pthr_pseudothread.c): pth_millisleep arms a      *)
(* sleep timer through _sleep, pth_timeout arms the fiber's alarm timer,   *)
(* and the timer queue is the delta queue of TimerQueue.tla.  A fiber,     *)
(* whenever it is resumed and has rounds left, runs one of the scripts     *)
(*   pth_millisleep (d)                                                    *)
(*   pth_timeout (s); pth_millisleep (d)                                   *)
(*   wq_wake_up (q); pth_millisleep (d)                                    *)
(*   wq_sleep_on (q)                                                       *)
(* with d in Delays and s in WatchdogSecs, and otherwise returns (its pool *)
(* is deleted).  Wake-ups are deferred to the prepoll step as in           *)
(* WaitQueue.tla and Reactor.tla: the one wait queue is `waiting`, the     *)
(* registered do_wake_up copies, newest first, are `prepolls`, and the     *)
(* copy being run is `waking`.  No descriptor is registered, so poll       *)
(* returns only when its timeout expires.                                  *)
(*                                                                         *)
(* C int is IntBits wide and unsigned long long ULLBits wide; both are     *)
(* scaled down for TLC, keeping int narrower than unsigned long long.      *)
(***************************************************************************)
EXTENDS Integers, Sequences, SequencesExt

CONSTANTS Fibers, Delays, WatchdogSecs, Rounds, MaxLate,
          IntBits, ULLBits, StartTime, NoTimer

Kinds == {"sleep", "alarm"}
TimerIds == Fibers \X Kinds

ASSUME /\ Delays \subseteq Int /\ WatchdogSecs \subseteq Int
       /\ Rounds \in Nat /\ MaxLate \in Nat
       /\ IntBits < ULLBits /\ StartTime \in 0..2^ULLBits - 1
       /\ NoTimer \notin TimerIds

VARIABLES rstep, queue, reactor_time, pc, rounds, alarm, waiting, prepolls, waking,
          aborted,
          fired,      \* the timer whose callback ran in the last step
          deadline    \* history: reactor_time + the delay asked for, in Int

vars == <<rstep, queue, reactor_time, pc, rounds, alarm, waiting, prepolls, waking,
          aborted, fired, deadline>>

TQ == INSTANCE TimerQueue

\* C's conversion of a wider integer to int: its low IntBits bits, read
\* as two's complement.
int(x) == LET r == x % 2^IntBits
          IN  IF r >= 2^(IntBits - 1) THEN r - 2^IntBits ELSE r

TypeOK ==
  /\ rstep \in {"main", "timers", "prepoll", "poll"}
  /\ queue \in TQ!TimerLists
  /\ reactor_time \in 0..TQ!ULL - 1
  /\ pc \in [Fibers -> {"init", "sleep", "wait", "done"}]
  /\ rounds \in [Fibers -> 0..Rounds]
  /\ alarm \in [Fibers -> BOOLEAN]
  /\ waiting \in Seq(Fibers) /\ waking \in Seq(Fibers)
  /\ prepolls \in Seq(Seq(Fibers))
  /\ aborted \in BOOLEAN
  /\ fired \in TimerIds \cup {NoTimer}

Init ==
  /\ rstep = "main"
  /\ queue = <<>>
  /\ reactor_time = StartTime
  /\ pc = [f \in Fibers |-> "init"]
  /\ rounds = [f \in Fibers |-> 0]
  /\ alarm = [f \in Fibers |-> FALSE]
  /\ waiting = <<>> /\ prepolls = <<>> /\ waking = <<>>
  /\ aborted = FALSE
  /\ fired = NoTimer
  /\ deadline = [t \in TimerIds |-> StartTime]

-----------------------------------------------------------------------------
(* Fiber code, from the list q as the fiber is resumed.  Each operator     *)
(* fixes queue', pc', alarm' and deadline'.                               *)

\* _sleep (millis): reactor_set_timer (current_pth->pool, timeout,
\* return_from_sleep, current_pth), then swap to the reactor.
pth_millisleep(f, q, d) ==
  /\ queue' = TQ!reactor_set_timer(q, <<f, "sleep">>, d)
  /\ deadline' = [deadline EXCEPT ![<<f, "sleep">>] = reactor_time + d]
  /\ pc' = [pc EXCEPT ![f] = "sleep"]

\* pth_timeout (seconds); pth_millisleep (d): unset the old alarm, and for
\* seconds != 0 arm reactor_set_timer (pool, seconds * 1000, ...), the
\* product computed in int.
pth_timeout(f, q, s, d) ==
  LET q1 == IF alarm[f] THEN TQ!reactor_unset_timer_early(q, <<f, "alarm">>)
                        ELSE q
      q2 == IF s # 0 THEN TQ!reactor_set_timer(q1, <<f, "alarm">>, int(s * 1000))
                     ELSE q1
  IN  /\ alarm' = [alarm EXCEPT ![f] = s # 0]
      /\ queue' = TQ!reactor_set_timer(q2, <<f, "sleep">>, d)
      /\ deadline' = [deadline EXCEPT ![<<f, "alarm">>] = reactor_time + s * 1000,
                                      ![<<f, "sleep">>] = reactor_time + d]
      /\ pc' = [pc EXCEPT ![f] = "sleep"]

\* A fault: the pool teardown leaves the alarm timer in the queue, as an
\* alarm registered on a pool other than the fiber's would be.
thread_exit_keepalarm(f, q) ==
  /\ queue' = q
  /\ alarm' = [alarm EXCEPT ![f] = FALSE]
  /\ pc' = [pc EXCEPT ![f] = "done"]
  /\ UNCHANGED <<deadline, waiting, prepolls, rounds>>

\* thread_trampoline after run returns: delete_pool runs remove_timer for
\* a still armed alarm.
thread_exit(f, q) ==
  /\ queue' = IF alarm[f] THEN TQ!remove_timer(q, <<f, "alarm">>) ELSE q
  /\ alarm' = [alarm EXCEPT ![f] = FALSE]
  /\ pc' = [pc EXCEPT ![f] = "done"]
  /\ UNCHANGED <<deadline, waiting, prepolls, rounds>>

\* A fault: a fiber that runs one round more than it may.
Resume_extra(f, q) ==
  /\ IF rounds[f] > Rounds
     THEN thread_exit(f, q)
     ELSE
       /\ rounds' = [rounds EXCEPT ![f] = @ + 1]
       /\ \E d \in Delays :
            /\ pth_millisleep(f, q, d) /\ UNCHANGED <<alarm, waiting, prepolls>>
  /\ UNCHANGED aborted

\* The fiber's code from a resumption to its next suspension: the end of
\* _sleep (an alarm already received makes it exit; otherwise it returns)
\* and the caller's next call.
Resume(f, q) ==
  /\ IF rounds[f] = Rounds
     THEN thread_exit(f, q)
     ELSE
       /\ rounds' = [rounds EXCEPT ![f] = @ + 1]
       /\ \E d \in Delays, s \in WatchdogSecs :
            /\ \/ pth_millisleep(f, q, d) /\ UNCHANGED <<alarm, waiting, prepolls>>
               \/ pth_timeout(f, q, s, d) /\ UNCHANGED <<waiting, prepolls>>
               \/ /\ waiting # <<>>                  \* wq_wake_up
                  /\ prepolls' = Cons(waiting, prepolls)
                  /\ waiting' = <<>>
                  /\ pth_millisleep(f, q, d) /\ UNCHANGED alarm
               \/ /\ waiting' = Append(waiting, f)   \* wq_sleep_on
                  /\ pc' = [pc EXCEPT ![f] = "wait"]
                  /\ queue' = q
                  /\ UNCHANGED <<alarm, prepolls, deadline>>
  /\ UNCHANGED aborted

\* return_from_alarm: alarm_timer = 0, alarm_received = 1, swap in.  In
\* _sleep the fiber unsets its sleep timer and exits; in wq_sleep_on it
\* erases itself from the queue and exits, or aborts if a wake-up has
\* already taken it off.
Alarm(f, q) ==
  /\ alarm' = [alarm EXCEPT ![f] = FALSE]
  /\ IF pc[f] = "sleep"
     THEN /\ queue' = TQ!reactor_unset_timer_early(q, <<f, "sleep">>)
          /\ pc' = [pc EXCEPT ![f] = "done"]
          /\ UNCHANGED <<waiting, aborted>>
     ELSE IF Contains(waiting, f)
     THEN /\ waiting' = RemoveFirst(waiting, f)
          /\ queue' = q
          /\ pc' = [pc EXCEPT ![f] = "done"]
          /\ UNCHANGED aborted
     ELSE /\ aborted' = TRUE
          /\ queue' = q
          /\ UNCHANGED <<pc, waiting>>
  /\ UNCHANGED <<rounds, prepolls, deadline>>

-----------------------------------------------------------------------------
(* The reactor. *)

\* pth_start from main for each fiber, then for (;;) reactor_invoke ().
Start(f) ==
  /\ rstep = "main" /\ pc[f] = "init"
  /\ Resume(f, queue)
  /\ UNCHANGED <<rstep, reactor_time, fired, waking>>

MainLoop ==
  /\ rstep = "main" /\ \A f \in Fibers : pc[f] # "init"
  /\ rstep' = "timers"
  /\ fired' = NoTimer
  /\ UNCHANGED <<queue, reactor_time, pc, rounds, alarm, waiting, prepolls,
                 waking, aborted, deadline>>

\* The timers loop: while head_timer->delta <= reactor_time, unset the
\* head early and call its fn (return_from_sleep or return_from_alarm).
TimerFires ==
  /\ rstep = "timers" /\ TQ!HeadDue(queue)
  /\ LET t == queue[1].id
         q == TQ!reactor_unset_timer_early(queue, t)
     IN  /\ fired' = t
         /\ IF t[2] = "sleep" THEN Resume(t[1], q) ELSE Alarm(t[1], q)
  /\ UNCHANGED <<rstep, reactor_time, waking>>

\* A fault: the timers loop written as a single if.
EndTimersEarly ==
  /\ rstep = "timers"
  /\ rstep' = "prepoll"
  /\ fired' = NoTimer
  /\ UNCHANGED <<queue, reactor_time, pc, rounds, alarm, waiting, prepolls,
                 waking, aborted, deadline>>

\* The loop ends when the head timer is not due.
EndTimers ==
  /\ rstep = "timers" /\ ~TQ!HeadDue(queue)
  /\ rstep' = "prepoll"
  /\ fired' = NoTimer
  /\ UNCHANGED <<queue, reactor_time, pc, rounds, alarm, waiting, prepolls,
                 waking, aborted, deadline>>

\* The prepoll scan runs the first unfired handler, the newest.
RunPrepoll ==
  /\ rstep = "prepoll" /\ waking = <<>> /\ prepolls # <<>>
  /\ waking' = Head(prepolls)
  /\ prepolls' = Tail(prepolls)
  /\ fired' = NoTimer
  /\ UNCHANGED <<rstep, queue, reactor_time, pc, rounds, alarm, waiting,
                 aborted, deadline>>

\* do_wake_up swaps into the next fiber of its copy.
WakeNext ==
  /\ rstep = "prepoll" /\ waking # <<>>
  /\ waking' = Tail(waking)
  /\ Resume(Head(waking), queue)
  /\ fired' = NoTimer
  /\ UNCHANGED <<rstep, reactor_time>>

EndPrepoll ==
  /\ rstep = "prepoll" /\ waking = <<>> /\ prepolls = <<>>
  /\ rstep' = "poll"
  /\ fired' = NoTimer
  /\ UNCHANGED <<queue, reactor_time, pc, rounds, alarm, waiting, prepolls,
                 waking, aborted, deadline>>

\* poll (poll_array, 0, head_timer ? head_timer->delta - reactor_time : -1):
\* the unsigned difference is passed as an int; a negative timeout
\* waits for ever.
PollTimeout ==
  IF queue = <<>> THEN -1 ELSE int(TQ!ull(queue[1].delta - reactor_time))

\* poll returns once the timeout has elapsed (possibly later) and
\* reactor_time is read from gettimeofday; the r == 0 branch and the next
\* timers loop fire what is due.
Poll ==
  /\ rstep = "poll" /\ PollTimeout >= 0
  /\ \E late \in 0..MaxLate :
       reactor_time' = TQ!ull(reactor_time + PollTimeout + late)
  /\ rstep' = "timers"
  /\ fired' = NoTimer
  /\ UNCHANGED <<queue, pc, rounds, alarm, waiting, prepolls, waking,
                 aborted, deadline>>

\* Nothing more happens after abort (), or in a poll that waits for ever.
Halted == aborted \/ (rstep = "poll" /\ PollTimeout < 0)

Next ==
  \/ /\ ~aborted
     /\ \/ \E f \in Fibers : Start(f)
        \/ MainLoop \/ TimerFires \/ EndTimers
        \/ RunPrepoll \/ WakeNext \/ EndPrepoll \/ Poll
  \/ Halted /\ UNCHANGED vars

\* main runs reactor_invoke for ever; each of its steps is weakly fair.
Fairness ==
  /\ \A f \in Fibers : WF_vars(Start(f))
  /\ WF_vars(MainLoop) /\ WF_vars(TimerFires) /\ WF_vars(EndTimers)
  /\ WF_vars(RunPrepoll) /\ WF_vars(WakeNext) /\ WF_vars(EndPrepoll)
  /\ WF_vars(Poll)

Spec == Init /\ [][Next]_vars /\ Fairness
-----------------------------------------------------------------------------
(* Properties. *)

\* The delta queue implements the abstract timer set of TimerSet.tla: the
\* timer the loop fires is due and has the earliest expiry, a fiber's
\* reactor_set_timer and remove_timer leave every other timer's expiry as
\* it was, and reactor_time never goes back.
TS == INSTANCE TimerSet WITH armed <- TQ!ArmedSet(queue), Kinds <- Kinds
TimerSpec == TS!Spec

\* P2: a timer's callback (return_from_sleep, return_from_alarm) runs only
\* once reactor_time has reached the time the fiber asked for, its
\* reactor_time at the call plus the delay, computed without wrapping.
NoEarlyFire ==
  [][fired' # NoTimer => reactor_time >= deadline[fired']]_vars

\* A fiber that has exited has no timer left in the reactor's queue:
\* thread_trampoline's delete_pool removes its alarm (pth_timeout arms it
\* on the fiber's pool) and return_from_alarm's pth_exit follows _sleep's
\* reactor_unset_timer_early of the sleep timer.  A timer left behind
\* would later run return_from_sleep or return_from_alarm on a freed
\* pseudothread.
NoTimerOfExitedFiber ==
  \A f \in Fibers :
    pc[f] = "done" => \A k \in Kinds : ~TQ!Armed(queue, <<f, k>>)

\* Every armed timer eventually fires or is unset (by its fiber's exit or
\* alarm), unless the program has aborted: reactor_invoke never stops
\* with a timer pending, as it would in a poll that waits for ever.
TimersEventuallyFire ==
  \A t \in TimerIds :
    TQ!Armed(queue, t) ~> (fired = t \/ ~TQ!Armed(queue, t) \/ aborted)
=============================================================================
