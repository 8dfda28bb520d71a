--------------------------- MODULE RWLockSystem ---------------------------
(***************************************************************************)
(* Readers and writers sharing one rwlock over the reactor: the program of *)
(* src/src/test_rwlock.c.  Each writer does Iters slow read/modify/writes  *)
(* of `var` under rwlock_enter_write; each reader takes the read lock,     *)
(* sleeps 1 ms, leaves and sleeps 1 ms for as long as a writer is left.    *)
(* A fiber may begin with pth_timeout.  The monitor fiber, which calls     *)
(* exit (0) once the writers are done, is left out: it ends the test, not  *)
(* the lock's obligations to the readers still waiting.                    *)
(*                                                                         *)
(* Suspension points: "rwq"/"wwq" wq_sleep_on in rwlock_enter_read/write;  *)
(* "rcs"/"wcs" pth_millisleep (1) holding the lock; "rrest"/"wrest"        *)
(* pth_millisleep (1) after rwlock_leave.                                  *)
(***************************************************************************)
EXTENDS Integers, Sequences, SequencesExt, Functions

CONSTANTS Readers, Writers, Iters, UseWatchdog, WritersHavePriority

ASSUME /\ Readers \cap Writers = {} /\ Writers # {}
       /\ Iters \in Nat \ {0}
       /\ UseWatchdog \in BOOLEAN /\ WritersHavePriority \in BOOLEAN

Fibers == Readers \cup Writers
RQ  == "readers_wq"
WQu == "writers_wq"

VARIABLES pc, iter, v, var, incs, nrWriters,
          n, holders,
          rstep, timers, due, prepolls, waking, sleepers, aborted

vars == <<pc, iter, v, var, incs, nrWriters, n, holders,
          rstep, timers, due, prepolls, waking, sleepers, aborted>>

R  == INSTANCE Reactor
WQ == INSTANCE WaitQueue WITH Queues <- {RQ, WQu}
L  == INSTANCE RWLock

PCs == {"init", "rwq", "rcs", "rrest", "wwq", "wcs", "wrest", "done"}

TypeOK ==
  /\ pc \in [Fibers -> PCs]
  /\ iter \in [Writers -> 0..Iters]
  /\ v \in [Writers -> Nat]
  /\ var \in Nat
  /\ incs \in [Writers -> 0..Iters]   \* completed increments (history)
  /\ nrWriters \in 0..Cardinality(Writers)
  /\ L!RWLockTypeOK
  /\ R!ReactorTypeOK
  /\ WQ!WaitQueueTypeOK

Init ==
  /\ pc = [f \in Fibers |-> "init"]
  /\ iter = [w \in Writers |-> 0]
  /\ v = [w \in Writers |-> 0]
  /\ var = 0
  /\ incs = [w \in Writers |-> 0]
  /\ nrWriters = Cardinality(Writers)
  /\ n = 0
  /\ holders = {}
  /\ rstep = "main"
  /\ timers = {}
  /\ due = {}
  /\ prepolls = <<>>
  /\ waking = <<>>
  /\ sleepers = [q \in {RQ, WQu} |-> <<>>]
  /\ aborted = FALSE

-----------------------------------------------------------------------------
(* Fiber code; tm is the timer set as the fiber is resumed. *)

FiberTimers(f) == {f} \X R!TimerKinds
SetPc(f, p) == pc' = [pc EXCEPT ![f] = p]

\* rwlock_enter_write; v = var; pth_millisleep (1).
rwlock_enter_write(w, tm) ==
  IF L!WriteFree
  THEN /\ L!rwlock_try_enter_write(w)
       /\ v' = [v EXCEPT ![w] = var]
       /\ timers' = tm \cup {<<w, "sleep">>}
       /\ SetPc(w, "wcs")
       /\ UNCHANGED <<sleepers, prepolls, aborted>>
  ELSE /\ WQ!wq_sleep_on(WQu, w)
       /\ timers' = tm
       /\ SetPc(w, "wwq")
       /\ UNCHANGED <<n, holders, v>>

\* rwlock_enter_read; pth_millisleep (1).
rwlock_enter_read(r, tm) ==
  /\ IF L!ReadAdmissible
     THEN /\ L!rwlock_try_enter_read(r)
          /\ timers' = tm \cup {<<r, "sleep">>}
          /\ SetPc(r, "rcs")
          /\ UNCHANGED <<sleepers, prepolls, aborted>>
     ELSE /\ WQ!wq_sleep_on(RQ, r)
          /\ timers' = tm
          /\ SetPc(r, "rwq")
          /\ UNCHANGED <<n, holders>>
  /\ UNCHANGED v

\* thread_trampoline: delete the fiber's pool (lock subpool, timers).
thread_exit(f, tm) ==
  /\ L!ReleaseOnExit(f)
  /\ timers' = tm \ FiberTimers(f)
  /\ SetPc(f, "done")
  /\ UNCHANGED v

\* The top of start_reader_thread's while (nr_writer_threads > 0) loop.
ReaderLoop(r, tm) ==
  IF nrWriters > 0 THEN rwlock_enter_read(r, tm) ELSE thread_exit(r, tm)

\* pth_start from main (writers first, then readers), after an optional
\* pth_timeout.
Start(f) ==
  /\ rstep = "main"
  /\ pc[f] = "init"
  /\ f \in Readers => \A w \in Writers : pc[w] # "init"
  /\ \E arm \in IF UseWatchdog THEN BOOLEAN ELSE {FALSE} :
       LET tm == IF arm THEN timers \cup {<<f, "alarm">>} ELSE timers
       IN  IF f \in Writers THEN rwlock_enter_write(f, tm)
                            ELSE ReaderLoop(f, tm)
  /\ UNCHANGED <<iter, var, incs, nrWriters, rstep, due, waking>>

\* Writer, sleep timer in the critical section: var = v + 1;
\* rwlock_leave; pth_millisleep (1).
WriterLeave(w, tm) ==
  /\ var' = v[w] + 1
  /\ incs' = [incs EXCEPT ![w] = @ + 1]
  /\ L!rwlock_leave(w)
  /\ timers' = tm \cup {<<w, "sleep">>}
  /\ SetPc(w, "wrest")
  /\ UNCHANGED <<iter, v, nrWriters>>

\* A fault: the writer's for loop bound written i <= NR_INCREMENTS.
WriterNextOffByOne(w, tm) ==
  /\ iter' = [iter EXCEPT ![w] = @ + 1]
  /\ IF iter[w] + 1 <= Iters
     THEN rwlock_enter_write(w, tm) /\ UNCHANGED nrWriters
     ELSE thread_exit(w, tm) /\ nrWriters' = nrWriters - 1
  /\ UNCHANGED <<var, incs>>

\* Writer, sleep timer after the critical section: next iteration, or
\* nr_writer_threads-- and return.
WriterNext(w, tm) ==
  /\ iter' = [iter EXCEPT ![w] = @ + 1]
  /\ IF iter[w] + 1 < Iters
     THEN rwlock_enter_write(w, tm) /\ UNCHANGED nrWriters
     ELSE thread_exit(w, tm) /\ nrWriters' = nrWriters - 1
  /\ UNCHANGED <<var, incs>>

\* Reader, sleep timer in the critical section: rwlock_leave;
\* pth_millisleep (1).
ReaderLeave(r, tm) ==
  /\ L!rwlock_leave(r)
  /\ timers' = tm \cup {<<r, "sleep">>}
  /\ SetPc(r, "rrest")
  /\ UNCHANGED <<iter, v, var, incs, nrWriters>>

\* Reader, sleep timer after the critical section: the loop test.
ReaderNext(r, tm) ==
  /\ ReaderLoop(r, tm)
  /\ UNCHANGED <<iter, var, incs, nrWriters>>

\* return_from_alarm: wq_sleep_on erases the fiber from its queue (or
\* aborts); _sleep cancels its timer; then pth_exit.
Alarm(f, tm) ==
  /\ IF pc[f] \in {"rwq", "wwq"}
     THEN /\ WQ!wq_sleep_on_alarm(IF pc[f] = "rwq" THEN RQ ELSE WQu, f)
          /\ IF aborted'
             THEN timers' = tm /\ UNCHANGED pc
             ELSE timers' = tm \ FiberTimers(f) /\ SetPc(f, "done")
          /\ UNCHANGED <<n, holders, v>>
     ELSE thread_exit(f, tm \ {<<f, "sleep">>})
  /\ UNCHANGED <<iter, var, incs, nrWriters>>

OnTimer(t, tm) ==
  LET f == t[1] IN
  CASE t[2] = "alarm"                      -> Alarm(f, tm)
    [] t[2] = "sleep" /\ pc[f] = "wcs"     -> WriterLeave(f, tm)
    [] t[2] = "sleep" /\ pc[f] = "wrest"   -> WriterNext(f, tm)
    [] t[2] = "sleep" /\ pc[f] = "rcs"     -> ReaderLeave(f, tm)
    [] t[2] = "sleep" /\ pc[f] = "rrest"   -> ReaderNext(f, tm)

\* do_wake_up swaps into a fiber in wq_sleep_on: the enter loop retries.
OnWake(f) ==
  /\ IF f \in Writers THEN rwlock_enter_write(f, timers)
                      ELSE rwlock_enter_read(f, timers)
  /\ UNCHANGED <<iter, var, incs, nrWriters>>

\* Step 1 of reactor_invoke: a due timer is unlinked and its callback runs.
TimerFires == \E t \in due : OnTimer(t, timers \ {t}) /\ R!FireTimer(t)

\* do_wake_up swaps into the next fiber of its copy.
FiberWoken == R!WakeNext /\ OnWake(Head(waking))

-----------------------------------------------------------------------------
fiberVars == <<pc, iter, v, var, incs, nrWriters, n, holders,
               sleepers, aborted>>

AllDone == \A f \in Fibers : pc[f] = "done"

Halted == aborted \/ R!Blocked

Next ==
  \/ /\ ~aborted
     /\ \/ \E f \in Fibers : Start(f)
        \/ R!MainLoop /\ (\A f \in Fibers : pc[f] # "init")
                      /\ UNCHANGED fiberVars
        \/ TimerFires
        \/ R!EndTimers /\ UNCHANGED fiberVars
        \/ R!RunPrepoll /\ UNCHANGED fiberVars
        \/ FiberWoken
        \/ R!EndPrepoll /\ UNCHANGED fiberVars
        \/ R!Poll /\ UNCHANGED fiberVars
  \/ Halted /\ UNCHANGED vars

Spec == Init /\ [][Next]_vars

-----------------------------------------------------------------------------
(* Properties *)

\* Readers XOR one writer, and rw->n agrees with who is inside: n = -1
\* exactly when one writer holds the lock, otherwise n counts the readers
\* in their critical sections, and every fiber inside holds a subpool.
RWExclusion ==
  /\ \A f \in Fibers : pc[f] \in {"rcs", "wcs"} <=> f \in holders
  /\ n = -1 <=> \E w \in Writers : holders = {w}
  /\ n >= 0 => /\ n = Cardinality(holders)
               /\ holders \subseteq Readers

\* test_rwlock's final assertion at every moment: no writer's slow
\* read/modify/write is lost.
NoLostUpdate == var = SumFunction(incs)

\* P3 for both queues: a fiber waiting in an enter loop is in exactly one
\* place (a queue or a pending do_wake_up copy); nobody else is in any.
WaitersAccounted ==
  \A f \in Fibers :
    WQ!Occurrences(f, waking) = IF pc[f] \in {"rwq", "wwq"} THEN 1 ELSE 0

\* The reactor never sleeps forever in poll while a fiber is still alive:
\* whenever nothing is armed and no wake-up is pending, every fiber has
\* finished.
ReactorNeverHangs == R!Blocked => AllDone

\* P6: under writer priority no reader enters while a writer is waiting
\* to enter (asleep on writers_wq or woken and not yet run).
WriterPriorityHonoured ==
  [][WritersHavePriority /\ (\E w \in Writers : pc[w] = "wwq")
       => \A r \in Readers : ~(pc[r] # "rcs" /\ pc'[r] = "rcs")]_vars
=============================================================================
