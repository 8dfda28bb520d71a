------------------------------- MODULE Prepoll -------------------------------
(***************************************************************************)
(* The prepoll handlers of src/src/pthr_reactor.c and the fired-flag scan  *)
(* of reactor_invoke (spec 4.3 step 2).  head_prepoll is a singly linked   *)
(* list, modelled as a sequence of handler ids from the head; a handler    *)
(* id stands for one struct reactor_prepoll, and an id registered again    *)
(* after its unregistration is a new struct (the allocator may hand back   *)
(* the same memory).  A handler's fn is application code: it may           *)
(* unregister handlers (itself included, as do_wake_up does) and register  *)
(* a new one (as wq_wake_up does from a fiber that do_wake_up resumed).    *)
(* The same code runs between ticks, from timer and readiness callbacks.   *)
(*                                                                         *)
(* reactor_register_prepoll never writes p->fired and pmalloc does not     *)
(* clear memory, so a new handler's flag is whatever the memory held: 0 or *)
(* non-zero, modelled as 0 or 1.                                           *)
(***************************************************************************)
EXTENDS Integers, Sequences, SequencesExt, FiniteSetsExt

CONSTANTS Handlers, NoHandler,
          MaxRegs,  \* registrations per tick (bounds a scan that keeps
                    \* registering new handlers)
          Ticks     \* calls of reactor_invoke

ASSUME NoHandler \notin Handlers /\ MaxRegs \in Nat /\ Ticks \in Nat

VARIABLES head_prepoll,
          live,     \* the structs allocated (their subpool not deleted)
          fired,    \* [Handlers -> {0, 1}]: prepoll->fired
          rstep,    \* "outside" (main, timers, poll, dispatch) or "scan"
          tick,
          regs,     \* registrations since the tick began
          runs,     \* history: runs of each handler this tick
          atStart,  \* history: handlers registered when the flags were cleared
          midScan   \* history: handlers registered by a callback of the scan

vars == <<head_prepoll, live, fired, rstep, tick, regs, runs, atStart, midScan>>

TypeOK ==
  /\ head_prepoll \in Seq(Handlers) /\ IsInjective(head_prepoll)
  /\ live \subseteq Handlers
  /\ fired \in [Handlers -> {0, 1}]
  /\ rstep \in {"outside", "scan"}
  /\ tick \in 0..Ticks /\ regs \in 0..MaxRegs
  /\ runs \in [Handlers -> Nat]
  /\ atStart \subseteq Handlers /\ midScan \subseteq Handlers

Init ==
  /\ head_prepoll = <<>> /\ live = {}
  /\ fired = [h \in Handlers |-> 0]
  /\ rstep = "outside" /\ tick = 0 /\ regs = 0
  /\ runs = [h \in Handlers |-> 0]
  /\ atStart = {} /\ midScan = {}

-----------------------------------------------------------------------------
(* The list operations. *)

\* reactor_register_prepoll: p->next = head_prepoll; head_prepoll = p.
reactor_register_prepoll(l, h) == <<h>> \o l

\* A fault: a search that unlinks the head handler only.
remove_prepoll_headonly(l, h) == IF l # <<>> /\ Head(l) = h THEN Tail(l) ELSE l

\* remove_prepoll, the cleanup of the handler's subpool: find it from the
\* head and unlink it.
remove_prepoll(l, h) == SelectSeq(l, LAMBDA x : x # h)

\* reactor_unregister_prepoll (handle): delete_pool (handle->pool).
reactor_unregister_prepoll(l, h) == remove_prepoll(l, h)

\* Application code: unregister the handlers of some set U (their memory
\* is freed), then register at most one handler in memory not allocated,
\* whose flag is that memory's old content g.  l, fl and rn are the list,
\* the flags and the run counts before it runs.
AppCode(l, fl, rn, inScan) ==
  \E U \in SUBSET live, r \in Handlers \cup {NoHandler}, g \in {0, 1} :
    LET l1 == FoldSet(LAMBDA h, acc : reactor_unregister_prepoll(acc, h), l, U)
    IN  IF r = NoHandler
        THEN /\ head_prepoll' = l1 /\ fired' = fl /\ runs' = rn
             /\ live' = live \ U
             /\ UNCHANGED <<regs, atStart, midScan>>
        ELSE /\ r \notin live \ U /\ regs < MaxRegs
             /\ live' = (live \ U) \cup {r}
             /\ head_prepoll' = reactor_register_prepoll(l1, r)
             /\ fired' = [fl EXCEPT ![r] = g]
             /\ runs' = [rn EXCEPT ![r] = 0]
             /\ regs' = regs + 1
             /\ atStart' = atStart \ {r}
             /\ midScan' = IF inScan THEN midScan \cup {r} ELSE midScan \ {r}

-----------------------------------------------------------------------------
(* reactor_invoke and the code around it. *)

\* Code outside the scan (main, timer callbacks, fibers resumed by poll's
\* callbacks) registering and unregistering handlers.
Outside ==
  /\ rstep = "outside" /\ tick < Ticks
  /\ AppCode(head_prepoll, fired, runs, FALSE)
  /\ UNCHANGED <<rstep, tick>>

\* A fault: the clearing loop written without its loop, clearing the
\* head's flag only.
StartTick_headonly ==
  /\ rstep = "outside" /\ tick < Ticks
  /\ fired' = IF head_prepoll = <<>> THEN fired
              ELSE [fired EXCEPT ![Head(head_prepoll)] = 0]
  /\ runs' = [h \in Handlers |-> 0]
  /\ atStart' = ToSet(head_prepoll) /\ midScan' = {}
  /\ regs' = 0 /\ tick' = tick + 1 /\ rstep' = "scan"
  /\ UNCHANGED <<head_prepoll, live>>

\* reactor_invoke (after the timers loop): clear the flag of every handler
\* on the list, then start the scan.
StartTick ==
  /\ rstep = "outside" /\ tick < Ticks
  /\ fired' = [h \in Handlers |-> IF h \in ToSet(head_prepoll) THEN 0 ELSE fired[h]]
  /\ runs' = [h \in Handlers |-> 0]
  /\ atStart' = ToSet(head_prepoll) /\ midScan' = {}
  /\ regs' = 0 /\ tick' = tick + 1 /\ rstep' = "scan"
  /\ UNCHANGED <<head_prepoll, live>>

\* The handlers whose flag reads 0.
Unfired == {k \in DOMAIN head_prepoll : fired[head_prepoll[k]] = 0}

\* A fault: the label prepoll_again placed before the loop that clears the
\* flags.
ScanStep_relabel ==
  /\ rstep = "scan" /\ Unfired # {}
  /\ LET h == head_prepoll[Min(Unfired)]
     IN  AppCode(head_prepoll,
                 [x \in Handlers |-> IF x \in ToSet(head_prepoll) THEN 0 ELSE fired[x]],
                 [runs EXCEPT ![h] = @ + 1], TRUE)
  /\ UNCHANGED <<rstep, tick>>

\* prepoll_again: the first handler from the head whose flag is 0 gets
\* fired = 1 and its fn runs; then the scan starts again from the head.
ScanStep ==
  /\ rstep = "scan" /\ Unfired # {}
  /\ LET h == head_prepoll[Min(Unfired)]
     IN  AppCode(head_prepoll, [fired EXCEPT ![h] = 1],
                 [runs EXCEPT ![h] = @ + 1], TRUE)
  /\ UNCHANGED <<rstep, tick>>

\* No handler's flag reads 0: reactor_invoke goes on to poll.
EndScan ==
  /\ rstep = "scan" /\ Unfired = {}
  /\ rstep' = "outside"
  /\ UNCHANGED <<head_prepoll, live, fired, tick, regs, runs, atStart, midScan>>

\* The bounded run of main is over.
Done == rstep = "outside" /\ tick = Ticks

Next ==
  \/ Outside \/ StartTick \/ ScanStep \/ EndScan
  \/ Done /\ UNCHANGED vars

Spec == Init /\ [][Next]_vars

-----------------------------------------------------------------------------
(* Properties. *)

\* P1, first half: within one tick no handler's fn runs twice, however the
\* callbacks register and unregister handlers during the scan.
RunsAtMostOnce == \A h \in ToSet(head_prepoll) : runs[h] <= 1

\* P1, second half: when the scan ends, every handler that was registered
\* when the flags were cleared and is still registered has run this tick.
EveryRegisteredHandlerRuns ==
  [][rstep = "scan" /\ rstep' = "outside" =>
       \A h \in ToSet(head_prepoll) \cap atStart : runs[h] = 1]_vars

\* Spec 4.3 step 2 and S5: a handler registered by a callback during the
\* scan starts with fired = 0 and runs in the same tick.
NewHandlersRunThisTick ==
  [][rstep = "scan" /\ rstep' = "outside" =>
       \A h \in ToSet(head_prepoll) \cap midScan : runs[h] = 1]_vars
=============================================================================
