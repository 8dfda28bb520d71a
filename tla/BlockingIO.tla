----------------------------- MODULE BlockingIO -----------------------------
(***************************************************************************)
(* A server built on pthrlib: pthr_server_main_loop starts the listener of *)
(* src/src/pthr_listener.c and runs reactor_invoke for ever; the listener  *)
(* loops on pth_accept and starts a processor fiber for each connection    *)
(* (new_pseudothread, pth_start); a processor blocks on descriptors (block *)
(* or _poll of src/src/pthr_pseudothread.c) until its connection ends, and *)
(* thread_trampoline then deletes it and returns its stack to the one-slot *)
(* pool of src/src/pthr_stack.c.  The readiness tables are those of        *)
(* ReactorHandles.tla, with the poll and dispatch steps of reactor_invoke  *)
(* (src/src/pthr_reactor.c).  No timer is armed, so poll's timeout is -1.  *)
(*                                                                         *)
(* Clients are the fiber slots: Listener, and processors reused after they *)
(* exit.  A processor waits on lists of (fd, events) pairs over the        *)
(* descriptors other than the listening socket: block (sock, ops) is a     *)
(* list of one, _poll (fds, n, -1) a list of n, registered in order.  When *)
(* a handle's callback (return_from_block, return_from_poll) swaps into a  *)
(* fiber, it unregisters all its handles in order and goes on.  A fiber's  *)
(* run between two swaps is one step.                                      *)
(***************************************************************************)
EXTENDS Integers, Sequences, SequencesExt, FiniteSets

CONSTANTS Clients, NoClient, Listener, ListenFd, Fds, Ops,
          MaxPollFds,   \* largest n passed to _poll
          Rounds,       \* waits per connection
          MaxAccepts,   \* connections accepted in a run
          HandleChunk, ArrayChunk, MaxHandles, MaxArray, OverlapCopy

Processors == Clients \ {Listener}

ASSUME /\ Listener \in Clients /\ ListenFd \in Fds
       /\ MaxPollFds \in Nat \ {0} /\ Rounds \in Nat \ {0} /\ MaxAccepts \in Nat
       \* the arrays never outgrow their bounds: there are never more than
       \* 1 + Cardinality(Processors) * MaxPollFds live handles or pollfds
       /\ 1 + Cardinality(Processors) * MaxPollFds <= MaxHandles
       /\ MaxHandles % HandleChunk = 0
       /\ 1 + Cardinality(Processors) * MaxPollFds <= MaxArray
       /\ MaxArray % ArrayChunk = 0

VARIABLES table,    \* the reactor's HANDLES and POLL_ARRAY
          rstep,    \* "main", "poll" or "dispatch"
          i,        \* the dispatch loop's index into HANDLES
          pc,       \* [Clients -> {"init", "free", "blocked"}]
          hd,       \* the fiber's handle[] (or block's handle)
          fds,      \* the pairs it waits on, in order
          rounds,
          accepts,  \* connections accepted
          stacks,   \* [pending: the slot whose stack is pending_stack_base,
                    \*  mapped: stacks mmapped and not yet munmapped]
          ready,    \* history: the pairs the last poll found ready
          mustRun,  \* history: fibers waiting on a ready pair at the last
                    \* poll and not resumed since
          called    \* the fiber whose callback ran in the last step

vars == <<table, rstep, i, pc, hd, fds, rounds, accepts, stacks, ready,
          mustRun, called>>

RH == INSTANCE ReactorHandles WITH Data <- Clients, NoData <- NoClient

Pairs == Fds \X Ops
ListenPair == <<ListenFd, "in">>

\* The argument lists of block (n = 1) and _poll on a connection.
PollSets == UNION {[1..n -> (Fds \ {ListenFd}) \X Ops] : n \in 1..MaxPollFds}

Live == {c \in Clients : pc[c] = "blocked"}

TypeOK ==
  /\ table \in RH!Tables
  /\ rstep \in {"main", "poll", "dispatch"}
  /\ i \in 0..MaxHandles
  /\ pc \in [Clients -> {"init", "free", "blocked"}]
  /\ hd \in [Clients -> Seq(RH!HandleIdx)]
  /\ fds \in [Clients -> Seq(Pairs)]
  /\ rounds \in [Clients -> 0..Rounds]
  /\ accepts \in 0..MaxAccepts
  /\ stacks \in [pending : Clients \cup {NoClient}, mapped : 0..Cardinality(Clients) + 1]
  /\ ready \subseteq Pairs
  /\ mustRun \subseteq Clients
  /\ called \in Clients \cup {NoClient}

Init ==
  /\ table = RH!InitTable
  /\ rstep = "main" /\ i = 0
  /\ pc = [c \in Clients |-> IF c = Listener THEN "init" ELSE "free"]
  /\ hd = [c \in Clients |-> <<>>]
  /\ fds = [c \in Clients |-> <<>>]
  /\ rounds = [c \in Clients |-> 0]
  /\ accepts = 0
  /\ stacks = [pending |-> NoClient, mapped |-> 0]
  /\ ready = {} /\ mustRun = {}
  /\ called = NoClient

-----------------------------------------------------------------------------
(* The stack pool. *)

\* A fault: _pth_get_stack that does not unmap the pending stack.
pth_get_stack_keep(s) == [s EXCEPT !.mapped = @ + 1]

\* _pth_get_stack: unmap the pending stack, if any, then mmap a new one.
pth_get_stack(s) ==
  [pending |-> NoClient,
   mapped  |-> s.mapped - (IF s.pending # NoClient THEN 1 ELSE 0) + 1]

\* _pth_return_stack: unmap the pending stack, if any, and make the
\* returned one, still in use by the exiting fiber, pending.
pth_return_stack(s, c) ==
  [pending |-> c,
   mapped  |-> s.mapped - (IF s.pending # NoClient THEN 1 ELSE 0)]

-----------------------------------------------------------------------------
(* Fiber code.  Each operator fixes the primed per-fiber variables from    *)
(* the table t, and the stack pool s, as the code reaches them.            *)

\* The registration loop of _poll (one call for block): the table after
\* registering the pairs of ps for fiber c, and the handles it got.
RegisterAll(t, c, ps) ==
  FoldLeft(LAMBDA acc, p : [t  |-> RH!reactor_register(acc.t, p, c),
                            hs |-> Append(acc.hs, RH!NewHandle(acc.t))],
           [t |-> t, hs |-> <<>>], ps)

\* The unregistration loop of _poll after the swap back (one call for
\* block).
UnregisterAll(t, hs) ==
  FoldLeft(LAMBDA acc, h : RH!reactor_unregister(acc, h), t, hs)

\* The processor registers ps and swaps out (block, _poll).
Wait(c, t, ps, s) ==
  LET r == RegisterAll(t, c, ps)
  IN  /\ table' = r.t
      /\ hd' = [hd EXCEPT ![c] = r.hs]
      /\ fds' = [fds EXCEPT ![c] = ps]
      /\ pc' = [pc EXCEPT ![c] = "blocked"]
      /\ rounds' = [rounds EXCEPT ![c] = @ + 1]
      /\ stacks' = s

\* thread_trampoline after run returns (the connection ended): the
\* threads slot is cleared, the pool deleted and the stack returned.
thread_trampoline(c, t, s) ==
  /\ table' = t
  /\ pc' = [pc EXCEPT ![c] = "free"]
  /\ hd' = [hd EXCEPT ![c] = <<>>]
  /\ fds' = [fds EXCEPT ![c] = <<>>]
  /\ rounds' = [rounds EXCEPT ![c] = 0]
  /\ stacks' = pth_return_stack(s, c)

\* A fault: a processor that waits one round more than it may.
Processor_extra(c, t, s) ==
  \/ thread_trampoline(c, t, s)
  \/ rounds[c] <= Rounds /\ \E ps \in PollSets : Wait(c, t, ps, s)

\* A processor from a swap in to its next swap out: it waits again (its
\* protocol reads or writes and meets EWOULDBLOCK) or its connection ends
\* and it returns from run.
Processor(c, t, s) ==
  \/ thread_trampoline(c, t, s)
  \/ rounds[c] < Rounds /\ \E ps \in PollSets : Wait(c, t, ps, s)

\* The listener registers the listening socket and swaps out (pth_accept's
\* block), after the rest of its run has changed the table to t, the
\* per-fiber variables to the values in q, and the stack pool to s.
ListenerBlocks(t, q, s) ==
  LET r == RegisterAll(t, Listener, <<ListenPair>>)
  IN  /\ table' = r.t
      /\ hd' = [q.hd EXCEPT ![Listener] = r.hs]
      /\ fds' = [q.fds EXCEPT ![Listener] = <<ListenPair>>]
      /\ pc' = [q.pc EXCEPT ![Listener] = "blocked"]
      /\ rounds' = q.rounds
      /\ stacks' = s

\* The per-fiber variables and the table after processor p's first run,
\* started by pth_start inside the listener: the stack is taken by
\* new_pseudothread, then the processor blocks or returns at once.
FirstRun(t, p, s) ==
  LET s1 == pth_get_stack(s)
  IN  { LET r == RegisterAll(t, p, ps)
        IN  [t |-> r.t, s |-> s1,
             hd |-> [hd EXCEPT ![p] = r.hs], fds |-> [fds EXCEPT ![p] = ps],
             pc |-> [pc EXCEPT ![p] = "blocked"],
             rounds |-> [rounds EXCEPT ![p] = 1]]
        : ps \in PollSets }
      \cup
      { [t |-> t, s |-> pth_return_stack(s1, p),
         hd |-> hd, fds |-> fds, pc |-> pc, rounds |-> rounds] }

\* The listener from a swap in (block returned in pth_accept) to its next
\* swap out: accept fails (EWOULDBLOCK, or an error that run reports and
\* skips) and the loop blocks again; or it returns a connection, and
\* processor_fn creates a processor in a free slot and pth_starts it.
ListenerRun(t) ==
  \/ ListenerBlocks(t, [hd |-> hd, fds |-> fds, pc |-> pc, rounds |-> rounds],
                    stacks)
     /\ UNCHANGED accepts
  \/ /\ accepts < MaxAccepts
     /\ \E p \in Processors :
          /\ pc[p] = "free"
          /\ \E q \in FirstRun(t, p, stacks) : ListenerBlocks(q.t, q, q.s)
     /\ accepts' = accepts + 1

\* A fiber resumed by its handle's callback: block or _poll unregisters
\* its handles, and it runs to its next swap.
Resume(c) ==
  LET t == UnregisterAll(table, hd[c])
  IN  IF c = Listener
      THEN ListenerRun(t)
      ELSE Processor(c, t, stacks) /\ UNCHANGED accepts

-----------------------------------------------------------------------------
(* The reactor. *)

\* pthr_server_main_loop: new_listener creates the listener
\* (new_pseudothread takes a stack) and pth_starts it; it runs up to
\* pth_accept's block.
Start ==
  /\ rstep = "main" /\ pc[Listener] = "init"
  /\ ListenerBlocks(table,
                    [hd |-> hd, fds |-> fds, pc |-> pc, rounds |-> rounds],
                    pth_get_stack(stacks))
  /\ UNCHANGED <<rstep, i, accepts, ready, mustRun, called>>

MainLoop ==
  /\ rstep = "main" /\ pc[Listener] # "init"
  /\ rstep' = "poll"
  /\ UNCHANGED <<table, i, pc, hd, fds, rounds, accepts, stacks, ready,
                 mustRun, called>>

\* poll (poll_array, nr_array_used, -1) returns r > 0 with some of the
\* registered pairs ready, and reactor_invoke starts the dispatch loop.
Poll ==
  /\ rstep = "poll" /\ table.nu > 0
  /\ \E R \in SUBSET {RH!Pair(table, a) : a \in 0..table.nu - 1} \ {{}} :
       /\ table' = RH!PollResult(table, R)
       /\ ready' = R
       /\ mustRun' = {c \in Live : \E k \in DOMAIN fds[c] : fds[c][k] \in R}
  /\ rstep' = "dispatch" /\ i' = 0
  /\ called' = NoClient
  /\ UNCHANGED <<pc, hd, fds, rounds, accepts, stacks>>

\* handles[i].offset >= 0 and poll_array[a].revents != 0: call fn, which
\* swaps into the fiber.  Garbage revents may read as non-zero.
DispatchCall ==
  /\ rstep = "dispatch" /\ i < table.nh
  /\ LET a == table.handles[i].offset
         c == table.handles[i].data
     IN  /\ a >= 0 /\ table.pa[a].revents # 0
         /\ Resume(c)
         /\ called' = c
         /\ mustRun' = mustRun \ {c}
  /\ i' = i + 1
  /\ UNCHANGED <<rstep, ready>>

DispatchSkip ==
  /\ rstep = "dispatch" /\ i < table.nh
  /\ LET a == table.handles[i].offset
     IN  IF a < 0 THEN TRUE ELSE table.pa[a].revents # 1
  /\ i' = i + 1
  /\ called' = NoClient
  /\ UNCHANGED <<table, rstep, pc, hd, fds, rounds, accepts, stacks, ready,
                 mustRun>>

\* The loop ends at nr_handles_allocated, re-read after every callback;
\* reactor_invoke returns and the main loop, with the listener still
\* counted by pseudothread_count_threads, calls it again.
EndDispatch ==
  /\ rstep = "dispatch" /\ i >= table.nh
  /\ rstep' = "poll"
  /\ called' = NoClient
  /\ UNCHANGED <<table, i, pc, hd, fds, rounds, accepts, stacks, ready,
                 mustRun>>

Next ==
  \/ Start \/ MainLoop \/ Poll \/ DispatchCall \/ DispatchSkip \/ EndDispatch

Spec == Init /\ [][Next]_vars

-----------------------------------------------------------------------------
(* Properties. *)

\* The tables agree with the waiting fibers (spec 3, R1): each handle a
\* fiber holds points at a used pollfd for its own (fd, events) and names
\* that fiber; no other handle is in use; every used pollfd is pointed at
\* by some handle, and no two used pollfds are for the same pair.  So
\* after reactor_unregister of every handle, POLL_ARRAY is back to its
\* size before the registrations.
TableConsistent ==
  /\ \A c \in Live :
       \A k \in DOMAIN hd[c] :
         LET h == table.handles[hd[c][k]]
         IN  /\ h.offset \in 0..table.nu - 1
             /\ RH!Pair(table, h.offset) = fds[c][k]
             /\ h.data = c
  /\ \A h \in 0..table.nh - 1 :
       table.handles[h].offset # -1 =>
         \E c \in Live : \E k \in DOMAIN hd[c] : hd[c][k] = h
  /\ \A a \in 0..table.nu - 1 : \E h \in 0..table.nh - 1 : table.handles[h].offset = a
  /\ \A a, b \in 0..table.nu - 1 : a # b => RH!Pair(table, a) # RH!Pair(table, b)

\* Spec 4.3 step 5: the dispatch loop of reactor_invoke calls back only a
\* fiber that was waiting, when poll returned, on a pair poll found ready,
\* and only once; the code's comment says the loop is free of races
\* although callbacks register and unregister handles.
NoSpuriousCallback ==
  [][called' # NoClient => called' \in mustRun]_vars

\* Every fiber waiting on a pair that poll found ready has been resumed by
\* the time the dispatch loop ends, whatever the callbacks before it
\* registered and unregistered.
ReadyClientsResumed ==
  [][rstep = "dispatch" /\ rstep' # "dispatch" => mustRun = {}]_vars

\* P5: the stacks mapped are exactly those of the live fibers and at most
\* one more, the pending stack of a fiber that has exited, however
\* processors are created and exit, even inside the listener's pth_start.
StacksAccounted ==
  /\ stacks.mapped = Cardinality(Live) + (IF stacks.pending = NoClient THEN 0 ELSE 1)
  /\ stacks.pending # NoClient => stacks.pending \notin Live
=============================================================================
