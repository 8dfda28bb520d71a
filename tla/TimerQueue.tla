----------------------------- MODULE TimerQueue -----------------------------
(***************************************************************************)
(* The timer delta queue of src/src/pthr_reactor.c.                        *)
(*                                                                         *)
(* head_timer is a doubly linked list, modelled as a sequence q of         *)
(* [id, delta] records from the head.  The head's delta is its absolute    *)
(* trigger time; every later delta is the time after its predecessor's.    *)
(* reactor_time, the deltas and the sums are unsigned long long: all       *)
(* arithmetic on them is modulo ULL = 2^ULLBits.  A timeout is a C int.    *)
(* The list operations are operators from the list before to the list     *)
(* after, so that a fiber step can apply several in the order the code     *)
(* calls them.                                                             *)
(***************************************************************************)
EXTENDS Integers, Sequences, SequencesExt, FiniteSetsExt

CONSTANTS TimerIds,
          ULLBits   \* width of unsigned long long (scaled down for TLC)

VARIABLE reactor_time

ULL == 2^ULLBits

\* Conversion to unsigned long long: reduction modulo 2^ULLBits.
ull(x) == x % ULL

Entry(t, d) == [id |-> t, delta |-> d]

TimerLists == Seq([id : TimerIds, delta : 0..ULL-1])

\* this_time once the loop of reactor_set_timer has added the deltas of
\* the first i timers: the trigger time of the i-th.
Expiry(q, i) == FoldLeft(LAMBDA acc, e : ull(acc + e.delta), 0, SubSeq(q, 1, i))

Armed(q, t) == \E i \in DOMAIN q : q[i].id = t

Position(q, t) == CHOOSE i \in DOMAIN q : q[i].id = t

(* Plausible faults, used to show that the properties of ReactorTimers     *)
(* tell them apart from the real code.                                     *)
\* Insertion before p that forgets p->delta = this_time - trigger_time.
reactor_set_timer_nofix(q, t, timeout) ==
  LET trigger == ull(reactor_time + timeout)
      later   == {i \in DOMAIN q : Expiry(q, i) >= trigger}
  IN  IF later = {}
      THEN Append(q, Entry(t, ull(trigger - Expiry(q, Len(q)))))
      ELSE LET i == Min(later)
           IN  InsertAt(q, i, Entry(t, ull(trigger - (Expiry(q, i) - q[i].delta))))
\* Unlinking that forgets timer->next->delta += timer->delta.
remove_timer_nocarry(q, t) == RemoveAt(q, Position(q, t))

\* reactor_set_timer (pp, timeout, fn, data): trigger_time = reactor_time
\* + timeout; walk the list summing deltas into this_time and insert
\* before the first timer p with this_time >= trigger_time, splitting
\* p's delta; else append with the remaining delta.  The empty list is
\* the append case with this_time = 0 (delta = trigger_time).
reactor_set_timer(q, t, timeout) ==
  LET trigger == ull(reactor_time + timeout)
      later   == {i \in DOMAIN q : Expiry(q, i) >= trigger}
  IN  IF later = {}
      THEN Append(q, Entry(t, ull(trigger - Expiry(q, Len(q)))))
      ELSE LET i == Min(later)
           IN  InsertAt([q EXCEPT ![i].delta = ull(Expiry(q, i) - trigger)],
                        i,
                        Entry(t, ull(trigger - (Expiry(q, i) - q[i].delta))))

\* remove_timer, the cleanup of the timer's subpool (run by
\* reactor_unset_timer_early and by deleting the owner's pool): unlink it
\* and add its delta to its successor's.
remove_timer(q, t) ==
  LET i == Position(q, t)
  IN  RemoveAt(IF i < Len(q)
               THEN [q EXCEPT ![i + 1].delta = ull(@ + q[i].delta)]
               ELSE q,
               i)

\* reactor_unset_timer_early (timer): delete_pool (timer->pool), whose
\* cleanup is remove_timer.
reactor_unset_timer_early(q, t) == remove_timer(q, t)

\* The test of the timers loop: head_timer->delta <= reactor_time.
HeadDue(q) == q # <<>> /\ q[1].delta <= reactor_time

\* The armed timers with their trigger times, as TimerSet sees them.
ArmedSet(q) == {<<q[i].id, Expiry(q, i)>> : i \in DOMAIN q}
=============================================================================
