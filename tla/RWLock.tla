------------------------------- MODULE RWLock -------------------------------
(***************************************************************************)
(* The reader/writer lock of src/src/pthr_rwlock.c.                        *)
(*                                                                         *)
(* rw->n is 0 (free), the number of readers, or -1 (one writer).  Every    *)
(* holder owns a subpool of its pool, recorded in the hash rw->pools,      *)
(* whose deletion (rwlock_leave, or the holder's pool teardown when it     *)
(* exits) runs _do_release; `holders` is the key set of that hash.         *)
(***************************************************************************)
EXTENDS Integers, FiniteSets

CONSTANTS Fibers,
          WritersHavePriority, \* rw->writers_have_priority
          RQ, WQu              \* rw->readers_wq, rw->writers_wq

VARIABLES n, holders, sleepers, prepolls, aborted

WQ == INSTANCE WaitQueue WITH Queues <- {RQ, WQu}

RWLockTypeOK ==
  /\ n \in -1..Cardinality(Fibers)
  /\ holders \subseteq Fibers

(* Plausible faults of this code, used to show that the properties of  *)
(* RWLockSystem can tell them apart from the real code.                 *)
\* try_enter_write testing n >= 0 instead of n == 0
WriteFreeLoose == n >= 0
\* a writer's release that forgets to reset n
do_release_keep_n(f) ==
  /\ holders' = holders \ {f}
  /\ UNCHANGED <<n, sleepers, prepolls, aborted>>

\* rwlock_try_enter_read: the condition ...
ReadAdmissible ==
  /\ n >= 0
  /\ \/ ~WritersHavePriority
     \/ WQ!wq_nr_sleepers(WQu) = 0

\* ... and the acquiring branch: _do_enter (subpool in rw->pools), n++.
rwlock_try_enter_read(f) ==
  /\ holders' = holders \cup {f}
  /\ n' = n + 1

\* rwlock_try_enter_write: the condition n == 0 ...
WriteFree == n = 0

\* ... and the acquiring branch: _do_enter, n = -1.
rwlock_try_enter_write(f) ==
  /\ holders' = holders \cup {f}
  /\ n' = -1

\* _do_release for holder f: assert n != 0, erase f from rw->pools; a
\* reader decrements n and, when it reaches 0, wakes one writer if any
\* waits; a writer sets n = 0 and wakes one writer if any waits, else one
\* reader if any waits.
do_release(f) ==
  IF n = 0 \/ f \notin holders
  THEN /\ aborted' = TRUE
       /\ UNCHANGED <<n, holders, sleepers, prepolls>>
  ELSE /\ holders' = holders \ {f}
       /\ IF n > 0
          THEN /\ n' = n - 1
               /\ IF n - 1 = 0 /\ WQ!wq_nr_sleepers(WQu) > 0
                  THEN WQ!wq_wake_up_one(WQu)
                  ELSE UNCHANGED <<sleepers, prepolls, aborted>>
          ELSE /\ n' = 0
               /\ CASE WQ!wq_nr_sleepers(WQu) > 0 -> WQ!wq_wake_up_one(WQu)
                    [] WQ!wq_nr_sleepers(RQ) > 0  -> WQ!wq_wake_up_one(RQ)
                    [] OTHER -> UNCHANGED <<sleepers, prepolls, aborted>>

\* rwlock_leave: abort () unless the current fiber is in rw->pools, then
\* delete its subpool.
rwlock_leave(f) ==
  IF f \notin holders
  THEN /\ aborted' = TRUE
       /\ UNCHANGED <<n, holders, sleepers, prepolls>>
  ELSE do_release(f)

\* The fiber's pool is deleted (thread_trampoline): its lock subpool too.
ReleaseOnExit(f) ==
  IF f \in holders
  THEN do_release(f)
  ELSE UNCHANGED <<n, holders, sleepers, prepolls, aborted>>
=============================================================================
