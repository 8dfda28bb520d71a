----------------------------- MODULE WaitQueue -----------------------------
(***************************************************************************)
(* Wait queues of src/src/pthr_wait_queue.c.                               *)
(*                                                                         *)
(* A queue is the vector of fibers sleeping on it.  Waking never resumes a *)
(* fiber inline: the waker moves the woken sleepers into a private copy    *)
(* and registers a do_wake_up prepoll handler in the reactor, which will   *)
(* swap into each of them at the prepoll step of a later reactor tick.     *)
(* The registered handlers are the reactor's variable `prepolls` (see      *)
(* Reactor.tla): a sequence of private copies, the most recently           *)
(* registered first.                                                       *)
(*                                                                         *)
(* Every action operator here fixes sleepers', prepolls' and aborted'.     *)
(***************************************************************************)
EXTENDS Sequences, SequencesExt

CONSTANTS Fibers,   \* the pseudothreads
          Queues    \* the wait queues

VARIABLES sleepers, \* sleepers[q]: wq->sleepers, in order of arrival
          prepolls, \* do_wake_up handlers registered and not yet run
          aborted   \* the process has called abort()

WaitQueueTypeOK ==
  /\ sleepers \in [Queues -> Seq(Fibers)]
  /\ prepolls \in Seq(Seq(Fibers))
  /\ aborted \in BOOLEAN

\* wq_nr_sleepers
wq_nr_sleepers(q) == Len(sleepers[q])

\* wq_sleep_on, up to the swap back into the calling (reactor) context.
wq_sleep_on(q, f) ==
  /\ sleepers' = [sleepers EXCEPT ![q] = Append(@, f)]
  /\ UNCHANGED <<prepolls, aborted>>

\* A fault: wake_up copying the sleepers without removing them (a missing
\* vector_clear / vector_pop_front).
wake_up_nopop(q, n) ==
  IF wq_nr_sleepers(q) = 0
  THEN UNCHANGED <<sleepers, prepolls, aborted>>
  ELSE LET copy == IF n = -1 THEN sleepers[q] ELSE SubSeq(sleepers[q], 1, n)
       IN /\ prepolls' = Cons(copy, prepolls)
          /\ UNCHANGED <<sleepers, aborted>>

\* wake_up(wq, n): nothing if nobody sleeps; otherwise take a private copy
\* of the whole queue (n = -1) or of its first n sleepers, remove them from
\* the queue and register a do_wake_up prepoll handler for the copy.
\* reactor_register_prepoll links the new handler at the list head.
wake_up(q, n) ==
  IF wq_nr_sleepers(q) = 0
  THEN UNCHANGED <<sleepers, prepolls, aborted>>
  ELSE LET copy == IF n = -1 THEN sleepers[q] ELSE SubSeq(sleepers[q], 1, n)
       IN /\ prepolls' = Cons(copy, prepolls)
          /\ sleepers' = [sleepers EXCEPT ![q] =
                            SubSeq(@, Len(copy) + 1, Len(@))]
          /\ UNCHANGED aborted

\* wq_wake_up
wq_wake_up(q) == wake_up(q, -1)

\* wq_wake_up_one: waking one on an empty queue aborts the process.
wq_wake_up_one(q) ==
  IF wq_nr_sleepers(q) < 1
  THEN /\ aborted' = TRUE
       /\ UNCHANGED <<sleepers, prepolls>>
  ELSE wake_up(q, 1)

\* wq_sleep_on after the swap, when _pth_alarm_received(): the fiber looks
\* for itself on the queue and erases the entry; if it is not there any
\* more it calls abort().  (The caller then performs pth_exit.)
wq_sleep_on_alarm(q, f) ==
  IF Contains(sleepers[q], f)
  THEN /\ sleepers' = [sleepers EXCEPT ![q] = RemoveFirst(@, f)]
       /\ UNCHANGED <<prepolls, aborted>>
  ELSE /\ aborted' = TRUE
       /\ UNCHANGED <<sleepers, prepolls>>

(***************************************************************************)
(* Where a fiber can be while it waits: on a queue, in a registered        *)
(* handler's private copy, or in the copy of the handler that is running   *)
(* (`waking`, Reactor.tla).  The number of places a fiber occupies.        *)
(***************************************************************************)
Occurrences(f, waking) ==
  LET count(s) == Len(SelectSeq(s, LAMBDA x : x = f))
  IN  FoldSet(LAMBDA q, acc : acc + count(sleepers[q]), 0, Queues)
        + FoldSeq(LAMBDA s, acc : acc + count(s), 0, prepolls)
        + count(waking)
=============================================================================
