------------------------------- MODULE Mutex -------------------------------
(***************************************************************************)
(* The mutex of src/src/pthr_mutex.c.                                      *)
(*                                                                         *)
(* struct mutex is (pth, wq, pool).  The lock is held through a subpool of *)
(* the holder's pool carrying the _do_release cleanup; `lockPool` is the   *)
(* fiber whose pool owns that live subpool.  Deleting it, by mutex_leave   *)
(* or by the teardown of the holder's pool when the fiber exits, runs      *)
(* _do_release.                                                            *)
(***************************************************************************)
EXTENDS Naturals

CONSTANTS Fibers, NoFiber, MQ   \* MQ: the mutex's wait queue m->wq

VARIABLES holder,   \* m->pth
          lockPool, \* owner of the live subpool m->pool (NoFiber if none)
          sleepers, prepolls, aborted

WQ == INSTANCE WaitQueue WITH Queues <- {MQ}

MutexTypeOK ==
  /\ holder \in Fibers \cup {NoFiber}
  /\ lockPool \in Fibers \cup {NoFiber}

(* Plausible faults of this code, used to show that the properties of  *)
(* MutexSystem can tell them apart from the real code.                  *)
\* try_enter that skips the m->pth == 0 test
MutexFreeUnchecked == TRUE
\* _do_release that clears the holder but never wakes a sleeper
do_release_nowake ==
  /\ holder' = NoFiber
  /\ lockPool' = NoFiber
  /\ UNCHANGED <<sleepers, prepolls, aborted>>
\* pool teardown that leaves the lock subpool alive
ReleaseOnExitForgotten(f) ==
  UNCHANGED <<holder, lockPool, sleepers, prepolls, aborted>>

\* mutex_try_enter: the condition m->pth == 0 ...
MutexFree == holder = NoFiber

\* ... and the acquiring branch: new subpool of the current fiber's pool
\* with _do_release registered on it, m->pth and m->pool set.
mutex_try_enter(f) ==
  /\ holder' = f
  /\ lockPool' = f

\* _do_release: m->pth = 0, m->pool = 0, wake one sleeper if any.
do_release ==
  /\ holder' = NoFiber
  /\ lockPool' = NoFiber
  /\ IF WQ!wq_nr_sleepers(MQ) > 0
     THEN WQ!wq_wake_up_one(MQ)
     ELSE UNCHANGED <<sleepers, prepolls, aborted>>

\* mutex_leave: assert (m->pth == current_pth), then delete_pool (m->pool).
mutex_leave(f) ==
  IF holder # f
  THEN /\ aborted' = TRUE
       /\ UNCHANGED <<holder, lockPool, sleepers, prepolls>>
  ELSE do_release

\* The holder's pool is deleted (thread_trampoline): its subpool goes too.
ReleaseOnExit(f) ==
  IF lockPool = f
  THEN do_release
  ELSE UNCHANGED <<holder, lockPool, sleepers, prepolls, aborted>>
=============================================================================
