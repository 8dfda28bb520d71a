------------------------------ MODULE PthSelect ------------------------------
(***************************************************************************)
(* src/src/test_select.c on pth_select and pth_poll of                     *)
(* src/src/pthr_pseudothread.c, run by reactor_invoke of                   *)
(* src/src/pthr_reactor.c with the timer delta queue of TimerQueue.tla and *)
(* the readiness tables of ReactorHandles.tla.                             *)
(*                                                                         *)
(* Writer w (1..NrWriters) owns pipe w, whose read end is descriptor w (the *)
(* read ends are created in writer order, so descriptor order is writer    *)
(* order); it writes NrChars data bytes, sleeping Sleep ms after each, then *)
(* the byte 0xff, closes its end and returns.  The reader keeps every read *)
(* end in readfds and loops on pth_select with a 1 ms timeout, reading one *)
(* byte from each descriptor pth_select returns; on 0xff it closes that    *)
(* descriptor (which stays in readfds) and counts the writer down.  main   *)
(* starts the writers in order, then the reader, and calls reactor_invoke  *)
(* while pseudothread_count_threads () > 0.                                *)
(*                                                                         *)
(* A fiber's run between two swaps is one step, except the reader's, which *)
(* is split at the points of the code below so that its loops show; no     *)
(* other step is enabled until it swaps out.  Pipes never fill, so         *)
(* pth_write never blocks, and pth_read only reads a descriptor poll has   *)
(* just found readable.  reactor_time is the gettimeofday after poll, later *)
(* than the poll's timeout by 0..MaxLate ms (MaxLate also bounds the time  *)
(* a poll with a ready descriptor takes).                                  *)
(***************************************************************************)
EXTENDS Integers, Sequences, SequencesExt, FiniteSets

CONSTANTS NrWriters, NrChars, MaxLate, ULLBits,
          TvUsec,       \* the reader's tv.tv_usec: 1000 in test_select.c
          HandleChunk, ArrayChunk, MaxHandles, MaxArray

Writers == 1..NrWriters
Reader == 0
NoFiber == -1
Sleep == 3          \* pth_millisleep (3)

VARIABLES reactor_time,
          queue,      \* the timer delta queue, ids are fibers
          table,      \* HANDLES and POLL_ARRAY
          rstep,      \* "check", "timers", "poll", "fire" or "dispatch"
          i,          \* the dispatch loop's index into HANDLES
          started,    \* fibers main has started
          exited,     \* main has left its loop
          written,    \* data bytes writer w has written
          wdone,      \* writer w has written 0xff, closed and returned
          pipe,       \* the bytes in pipe w: "c" a data byte, "ff" 0xff
          rd,         \* the reader: "init", "select", "read", "poll",
                      \* "resume" or "done"
          running,    \* the reader's count of writers not yet finished
          closed,     \* read ends the reader has closed
          rset,       \* the descriptors pth_select returned in returnfds
          hd,         \* _poll's handle[]
          poll_timeout,
          pollStart   \* history: reactor_time when the current pth_poll
                      \* call began

vars == <<reactor_time, queue, table, rstep, i, started, exited, written,
          wdone, pipe, rd, running, closed, rset, hd, poll_timeout, pollStart>>

TQ == INSTANCE TimerQueue WITH TimerIds <- Writers \cup {Reader}
RH == INSTANCE ReactorHandles WITH Fds <- Writers, Ops <- {"in"},
        Data <- {Reader}, NoData <- NoFiber, OverlapCopy <- "forward"

\* to = timeout->tv_sec * 1000 + timeout->tv_usec / 1000 in pth_select.
SelectTimeout(sec, usec) == sec * 1000 + usec \div 1000

\* The reader's tv: tv_sec = 0, tv_usec = TvUsec.
To == SelectTimeout(0, TvUsec)

\* What poll (2) reports for read end w: POLLIN while the pipe holds a
\* byte, POLLHUP once the writer has closed and the pipe is empty, POLLNVAL
\* once the reader has closed it.
Revents(w) ==
  IF w \in closed THEN {"nval"}
  ELSE IF pipe[w] # <<>> THEN {"in"}
  ELSE IF wdone[w] THEN {"hup"}
  ELSE {}

\* The pairs of POLL_ARRAY that poll finds ready.
ReadyPairs ==
  {RH!Pair(table, a) : a \in {b \in 0..table.nu - 1 : Revents(table.pa[b].fd) # {}}}

LiveThreads == {w \in Writers : ~wdone[w]} \cup (IF rd = "done" THEN {} ELSE {Reader})

TypeOK ==
  /\ reactor_time \in 0..TQ!ULL - 1
  /\ queue \in TQ!TimerLists
  /\ table.nh \in 0..MaxHandles /\ table.na \in 0..MaxArray
  /\ table.nu \in 0..table.na
  /\ \A a \in 0..table.nu - 1 : table.pa[a].fd \in Writers
  /\ rstep \in {"check", "timers", "poll", "fire", "dispatch"}
  /\ i \in 0..MaxHandles
  /\ started \in 0..NrWriters + 1 /\ exited \in BOOLEAN
  /\ written \in [Writers -> 0..NrChars] /\ wdone \in [Writers -> BOOLEAN]
  /\ pipe \in [Writers -> Seq({"c", "ff"})]
  /\ rd \in {"init", "select", "read", "poll", "resume", "done"}
  /\ running \in 0..NrWriters /\ closed \subseteq Writers /\ rset \subseteq Writers
  /\ hd \in Seq(RH!HandleIdx) /\ poll_timeout \in BOOLEAN
  /\ pollStart \in 0..TQ!ULL - 1

Init ==
  /\ reactor_time = 0 /\ queue = <<>> /\ table = RH!InitTable
  /\ rstep = "check" /\ i = 0 /\ started = 0 /\ exited = FALSE
  /\ written = [w \in Writers |-> 0] /\ wdone = [w \in Writers |-> FALSE]
  /\ pipe = [w \in Writers |-> <<>>]
  /\ rd = "init" /\ running = NrWriters /\ closed = {} /\ rset = {}
  /\ hd = <<>> /\ poll_timeout = FALSE /\ pollStart = 0

-----------------------------------------------------------------------------
(* The writer.                                                              *)

(* A plausible fault: one byte more than NrChars (i <= NR_CHARS).         *)
WriterRun_extra(w, q) ==
  IF written[w] <= NrChars
  THEN /\ pipe' = [pipe EXCEPT ![w] = Append(@, "c")]
       /\ written' = [written EXCEPT ![w] = @ + 1]
       /\ queue' = TQ!reactor_set_timer(q, w, Sleep)
       /\ UNCHANGED wdone
  ELSE /\ pipe' = [pipe EXCEPT ![w] = Append(@, "ff")]
       /\ wdone' = [wdone EXCEPT ![w] = TRUE]
       /\ queue' = q
       /\ UNCHANGED written

\* One pass of the writer's loop from pth_write to pth_millisleep, or its
\* tail (0xff, close, return: thread_trampoline deletes its pool, which
\* holds no timer once the sleep timer has fired), with q the queue once
\* the timer that resumed it is gone.
WriterRun(w, q) ==
  IF written[w] < NrChars
  THEN /\ pipe' = [pipe EXCEPT ![w] = Append(@, "c")]
       /\ written' = [written EXCEPT ![w] = @ + 1]
       /\ queue' = TQ!reactor_set_timer(q, w, Sleep)
       /\ UNCHANGED wdone
  ELSE /\ pipe' = [pipe EXCEPT ![w] = Append(@, "ff")]
       /\ wdone' = [wdone EXCEPT ![w] = TRUE]
       /\ queue' = q
       /\ UNCHANGED written

\* A timer's callback: return_from_sleep swaps into a writer, which runs
\* to its next sleep; return_from_poll_timeout sets poll_timeout and
\* swaps into the reader.
RunTimer(id, q) ==
  IF id = Reader
  THEN /\ queue' = q /\ poll_timeout' = TRUE /\ rd' = "resume"
       /\ UNCHANGED <<written, wdone, pipe>>
  ELSE /\ WriterRun(id, q)
       /\ UNCHANGED <<poll_timeout, rd>>

\* main's loop: pth_start of writer w runs it to its first sleep.
StartWriter ==
  /\ started < NrWriters
  /\ started' = started + 1
  /\ WriterRun(started + 1, queue)
  /\ UNCHANGED <<reactor_time, table, rstep, i, exited, rd, running, closed,
                 rset, hd, poll_timeout, pollStart>>

\* pth_start (reader_pth): the reader enters its loop and pth_select.
StartReader ==
  /\ started = NrWriters
  /\ started' = started + 1
  /\ rd' = "select" /\ pollStart' = reactor_time
  /\ UNCHANGED <<reactor_time, queue, table, rstep, i, exited, written, wdone,
                 pipe, running, closed, rset, hd, poll_timeout>>

-----------------------------------------------------------------------------
(* The reader, from pth_select to its next swap.                           *)

ReaderIdle == rd \in {"init", "poll", "done"}

\* pth_select's vector of pollfds: every descriptor of readfds, in
\* descriptor order, the closed ones included.
PollFds == [k \in 1..NrWriters |-> k]

\* _poll's loop handle[i] = reactor_register (fds[i].fd, fds[i].events,
\* return_from_poll, current_pth): the table and the handles, in order.
RegisterOne(acc, w) ==
  <<RH!reactor_register(acc[1], <<w, "in">>, Reader),
    Append(acc[2], RH!NewHandle(acc[1]))>>

\* pth_select after pth_poll returns r > 0: FD_ZERO (readfds), then
\* FD_SET for each pollfd whose revents has POLLIN (POLLHUP and POLLNVAL
\* set no bit).
ReturnFds == {w \in Writers : "in" \in Revents(w)}

(* A plausible fault: pth_poll without `if (current_pth->poll_timeout)    *)
(* return 0', looping to its zero poll after a timeout as after a wake-up. *)
ReaderResume_noreturn ==
  /\ rd = "resume"
  /\ table' = FoldLeft(RH!reactor_unregister, table, hd)
  /\ hd' = <<>>
  /\ queue' = IF poll_timeout THEN queue
              ELSE TQ!reactor_unset_timer_early(queue, Reader)
  /\ pollStart' = pollStart
  /\ rd' = "select"
  /\ UNCHANGED <<reactor_time, rstep, i, started, exited, written, wdone, pipe,
                 running, closed, rset, poll_timeout>>

\* Back in _poll after the swap: unregister every handle in order, unset
\* the timer unless it has fired, and go on in pth_poll: after a timeout
\* it returns 0, pth_select returns 0 and, running being non-zero, the
\* reader calls pth_select again; otherwise `goto again'.
ReaderResume ==
  /\ rd = "resume"
  /\ table' = FoldLeft(RH!reactor_unregister, table, hd)
  /\ hd' = <<>>
  /\ queue' = IF poll_timeout THEN queue
              ELSE TQ!reactor_unset_timer_early(queue, Reader)
  /\ pollStart' = IF poll_timeout THEN reactor_time ELSE pollStart
  /\ rd' = "select"
  /\ UNCHANGED <<reactor_time, rstep, i, started, exited, written, wdone, pipe,
                 running, closed, rset, poll_timeout>>

\* pth_poll's poll (fds, n, 0).  No descriptor ready: _poll registers them
\* all, arms a To ms timer and swaps out.  Some ready: pth_poll returns,
\* and pth_select sets returnfds to the descriptors with POLLIN (POLLHUP
\* and POLLNVAL set no bit).
ReaderSelect ==
  /\ rd = "select"
  /\ LET ready == {w \in Writers : Revents(w) # {}}
         reg   == FoldLeft(RegisterOne, <<table, <<>>>>, PollFds)
     IN  \/ /\ ready = {}
            /\ table' = reg[1] /\ hd' = reg[2]
            /\ queue' = TQ!reactor_set_timer(queue, Reader, To)
            /\ poll_timeout' = FALSE
            /\ rd' = "poll"
            /\ UNCHANGED rset
         \/ /\ ready # {}
            /\ rset' = ReturnFds
            /\ rd' = "read"
            /\ UNCHANGED <<table, hd, queue, poll_timeout>>
  /\ UNCHANGED <<reactor_time, rstep, i, started, exited, written, wdone, pipe,
                 running, closed, pollStart>>

\* The reader's loop over returnfds: pth_read one byte of each; on 0xff
\* count the writer down and close the descriptor.  Then, while running,
\* pth_select again; otherwise the reader returns (its pool holds no
\* timer or handle by now).
ReaderRead ==
  /\ rd = "read"
  /\ LET ff == {w \in rset : Head(pipe[w]) = "ff"}
     IN  /\ pipe' = [w \in Writers |-> IF w \in rset THEN Tail(pipe[w]) ELSE pipe[w]]
         /\ closed' = closed \cup ff
         /\ running' = running - Cardinality(ff)
         /\ rd' = IF running - Cardinality(ff) = 0 THEN "done" ELSE "select"
  /\ pollStart' = reactor_time
  /\ UNCHANGED <<reactor_time, queue, table, rstep, i, started, exited, written,
                 wdone, rset, hd, poll_timeout>>

-----------------------------------------------------------------------------
(* reactor_invoke, called by main while pseudothread_count_threads () > 0. *)

Reactor == <<started, written, wdone, pipe, running, closed, rset, hd, pollStart>>

\* main's test pseudothread_count_threads () > 0.
Check ==
  /\ rstep = "check" /\ ReaderIdle /\ started = NrWriters + 1 /\ ~exited
  /\ LiveThreads # {}
  /\ rstep' = "timers"
  /\ UNCHANGED <<reactor_time, queue, table, i, exited, rd, poll_timeout, Reactor>>

\* No thread left: main calls exit (0).
Exit ==
  /\ rstep = "check" /\ ReaderIdle /\ started = NrWriters + 1 /\ ~exited
  /\ LiveThreads = {}
  /\ exited' = TRUE
  /\ UNCHANGED <<reactor_time, queue, table, rstep, i, rd, poll_timeout, Reactor>>

(* A plausible fault: `if' for the `while' of the timers loop.            *)
FireDue_once ==
  /\ rstep = "timers" /\ ReaderIdle /\ TQ!HeadDue(queue)
  /\ RunTimer(queue[1].id, TQ!reactor_unset_timer_early(queue, queue[1].id))
  /\ rstep' = "poll"
  /\ UNCHANGED <<reactor_time, table, i, started, exited, running, closed, rset,
                 hd, pollStart>>

\* The timers loop: while the head timer is due, unset it and call it.
FireDue ==
  /\ rstep = "timers" /\ ReaderIdle /\ TQ!HeadDue(queue)
  /\ RunTimer(queue[1].id, TQ!reactor_unset_timer_early(queue, queue[1].id))
  /\ UNCHANGED <<reactor_time, table, rstep, i, started, exited, running, closed,
                 rset, hd, pollStart>>

\* No prepoll handler is registered: on to poll.
EndTimers ==
  /\ rstep = "timers" /\ ReaderIdle /\ ~TQ!HeadDue(queue)
  /\ rstep' = "poll"
  /\ UNCHANGED <<reactor_time, queue, table, i, exited, rd, poll_timeout, Reactor>>

\* poll (poll_array, nr_array_used, head timer's delta - reactor_time)
\* returns at once with the ready pairs, then reactor_time is refreshed.
PollReady ==
  /\ rstep = "poll" /\ ReadyPairs # {}
  /\ table' = RH!PollResult(table, ReadyPairs)
  /\ reactor_time' \in reactor_time..reactor_time + MaxLate
  /\ rstep' = "dispatch" /\ i' = 0
  /\ UNCHANGED <<queue, exited, rd, poll_timeout, Reactor>>

\* Nothing ready: poll returns 0 once the head timer's time has come.
\* With no timer, poll (..., -1) never returns and no step is enabled.
PollTimeout ==
  /\ rstep = "poll" /\ ReadyPairs = {} /\ queue # <<>>
  /\ table' = RH!PollResult(table, {})
  /\ reactor_time' \in queue[1].delta..queue[1].delta + MaxLate
  /\ rstep' = "fire"
  /\ UNCHANGED <<queue, i, exited, rd, poll_timeout, Reactor>>

\* r == 0: unset the head timer and call it.
FireHead ==
  /\ rstep = "fire"
  /\ RunTimer(queue[1].id, TQ!reactor_unset_timer_early(queue, queue[1].id))
  /\ rstep' = "check"
  /\ UNCHANGED <<reactor_time, table, i, started, exited, running, closed, rset,
                 hd, pollStart>>

\* r > 0: for each handle i with a = handles[i].offset >= 0 and
\* poll_array[a].revents != 0, call its fn, return_from_poll, which swaps
\* into the reader.  Garbage revents may read as either.
Dispatch ==
  /\ rstep = "dispatch" /\ ReaderIdle /\ i < table.nh
  /\ i' = i + 1
  /\ LET a   == table.handles[i].offset
         rev == IF a >= 0 THEN table.pa[a].revents ELSE 0
     IN  \/ rev \in {1, RH!Garbage} /\ rd' = "resume"
         \/ rev \in {0, RH!Garbage} /\ UNCHANGED rd
  /\ UNCHANGED <<reactor_time, queue, table, rstep, exited, poll_timeout, Reactor>>

EndDispatch ==
  /\ rstep = "dispatch" /\ ReaderIdle /\ i = table.nh
  /\ rstep' = "check"
  /\ UNCHANGED <<reactor_time, queue, table, i, exited, rd, poll_timeout, Reactor>>

\* exit (0): the program has stopped.
Done == exited /\ UNCHANGED vars

Step ==
  \/ StartWriter \/ StartReader
  \/ ReaderResume \/ ReaderSelect \/ ReaderRead
  \/ Check \/ Exit \/ FireDue \/ EndTimers \/ PollReady \/ PollTimeout
  \/ FireHead \/ Dispatch \/ EndDispatch

Next == Step \/ Done

\* One process runs main's loop and every fiber: whenever a step is
\* enabled the program takes one.
Spec == Init /\ [][Next]_vars /\ WF_vars(Step)

-----------------------------------------------------------------------------
(* Properties.                                                              *)

\* The reader's timer fires and return_from_poll_timeout resumes it.
TimedOut == rd = "poll" /\ rd' = "resume" /\ poll_timeout'

\* pth_poll (fds, n, To) returns 0 only once To ms have passed since the
\* call began, and no more than MaxLate ms after that, although every
\* `goto again' after a wake-up arms a fresh To ms timer in _poll.
PollTimeoutExact ==
  [][TimedOut => /\ pollStart + To <= reactor_time
                 /\ reactor_time <= pollStart + To + MaxLate]_vars

\* test_select terminates: the reader reads every writer's 0xff and main
\* leaves its reactor loop.  The reader never swaps out again once a
\* closed descriptor in readfds makes every poll return POLLNVAL, so
\* this needs every writer's 0xff to be in its pipe by the reader's pass
\* that reads the first one.
Termination == <>exited
=============================================================================
