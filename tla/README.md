# TLA+ models of pthrlib's cooperative concurrency engine

pthrlib (`src/src/`) runs many pseudothreads ("fibers") on one OS thread.
A fiber runs until it reaches a suspension point (a sleep, a blocked
syscall, a wait on a queue) and then swaps back to the reactor loop.
The reactor (`reactor_invoke`) fires timers, runs prepoll handlers, and
polls descriptors. Wait queues, mutexes and rwlocks are built on these
parts. Because scheduling is cooperative, the code a fiber runs between
two suspension points is atomic. The models use exactly this
granularity: one TLA+ action is one fiber's run from one resumption to
its next suspension, or one step of the reactor loop.

On top of this engine sit the protocol libraries: an HTTP request
parser and response writer (`pthr_http.c`) and a CGI form parser
(`pthr_cgi.c`). The example servers in `src/examples/` use them. eg1
echoes a request back, and eg2 serves files and directories. Their
processor fibers each own one connection. The database binding
(`pthr_dbi.c`) wraps a PostgreSQL connection. It opens a transaction
lazily, and it reports errors either by return value or, with
`DBI_THROW_ERRORS`, through the `pth_catch`/`_pth_die` exception stack
of `pthr_pseudothread.c`. It waits for the server with
`pth_wait_readable`/`pth_wait_writable`, which block the whole process,
so each of its calls is one atomic step.

## Inventory of the system

| Part | Source | State | Operations | Interacts with |
|---|---|---|---|---|
| Stack pool | `pthr_stack.c` | one pending stack | `_pth_get_stack`, `_pth_return_stack` | fiber creation/exit |
| Machine context | `pthr_context.c` | saved register sets | `mctx_save/restore/switch` | every suspension |
| Reactor | `pthr_reactor.c` | handle table, `poll_array`, timer delta queue, prepoll list, `reactor_time` | register/unregister, set/unset timer, register/unregister prepoll, `reactor_invoke` | every blocking wrapper, wait queues |
| Pseudothread | `pthr_pseudothread.c` | fiber list, `current_pth`, per-fiber pool, alarm timer, `alarm_received`, exception stack | `new_pseudothread`, `pth_start`, `thread_trampoline`, `pth_exit`, `pth_catch`, `_pth_die`, `_sleep`, `pth_timeout`, `block`, `_poll`, `pth_poll`, `pth_select` | reactor, stack pool |
| Wait queue | `pthr_wait_queue.c` | sleeper vector; wake copies held by prepolls | `wq_sleep_on`, `wake_up`, `do_wake_up`, `wq_wake_up(_one)` | reactor prepolls, fibers |
| Mutex | `pthr_mutex.c` | `pth`, `wq`, `pool` | `mutex_try_enter`, `mutex_enter`, `mutex_leave`, `_do_release` | wait queue, holder's pool |
| RWLock | `pthr_rwlock.c` | `n`, `readers_wq`, `writers_wq`, `pools` hash, priority flag | `rwlock_try_enter_read/write`, `rwlock_enter_read/write`, `rwlock_leave`, `_do_enter`, `_do_release` | wait queues, holders' pools |
| Server, listener | `pthr_server.c`, `pthr_listener.c` | listening socket | accept loop spawning processor fibers | reactor, pseudothread |
| Buffered I/O | `pthr_iolib.c` | `io_handle`: input and output buffers, positions, buffer mode | `io_fdopen`, `io_fputc`, `io_fflush`, `io_fwrite`, `io_fgetc`, `io_ungetc`, `io_fread`, `io_fclose`, `_flush`, `_do_close` | `pth_read`/`pth_write`, pool teardown |
| HTTP | `pthr_http.c` | `http_request` (method, URL, path, query string, version, headers), `http_response` (header bitmap, Content-Length) | `new_http_request`, `parse_url`, `new_http_response`, `http_response_send_header(s)`, `http_response_end_headers` | `io_fgets`/`io_fputs` of the connection's `io_handle` |
| CGI | `pthr_cgi.c` | `cgi` (name → vector of values) | `new_cgi`, `parse_qs`, `insert_param`, `cgi_param_list`, `cgi_escape`, `cgi_unescape` | reads a POST body with `io_fread` |
| Example servers | `src/examples/pthr_eg1_echo.c`, `pthr_eg2_server.c` | one processor fiber per connection | `run`, and for eg2 `file_not_found_error`, `moved_permanently`, `serve_directory`, `serve_file` | HTTP, CGI, the file system |
| FTP client | `pthr_ftpc.c` | control connection `io`, `passive_mode`, the reply buffer, a data socket per transfer | `new_ftpc`, `ftpc_login`, one-command calls, `ftpc_ls`/`ftpc_dir`, `ftpc_get`, `ftpc_put`, `ftpc_quit`, `do_command`, `eat_reply`, `issue_port_or_pasv`, `open_data` | iolib, `pth_connect`/`pth_accept`, an FTP server |
| Database binding | `pthr_dbi.c` | `db_handle` (connection, `in_transaction`, flags), `st_handle` (result, `fetch_allowed`, `next_tuple`) | `new_db_handle`, `new_st_handle`, `st_execute`, `st_fetch`, `st_fetch_all_rows`, `st_finish`, `db_commit`, `db_rollback`, `st_serial` | a PostgreSQL server, the exception stack, the thread's pool |

The hard behaviours are the following:

- **Deferred wake-ups.** `wake_up` copies sleepers into a private vector.
  The woken fibers run only at the next prepoll step. Until then, a woken
  fiber is on no queue.
- **Watchdogs.** `pth_timeout` is a timer. It can fire at any suspension
  point, including after a wake-up has been posted.
- **Lock release by pool teardown.** Releasing a lock is a cleanup
  callback on a subpool of the holder's pool. It runs on `*_leave`, and
  also when the holder exits.
- **Barging.** A woken fiber retries `try_enter`, and a fiber whose timer
  fired earlier in the same tick may have taken the lock first.

The correctness properties, from spec §8:

| Property | Meaning |
|---|---|
| P1/S5 | Each prepoll runs once per tick. |
| P2 | Timers never fire early. |
| P3 | A waiter is in one place, and each sleeper is woken once. |
| P4 | Locks are released at fiber death, and the holder is cleared before any sleeper runs. |
| P5 | At most one stack is pending. |
| P6 | Under writer priority, no reader enters while a writer waits. |
| P7 | An alarm is delivered only at suspension points. |

S1 and S2 are the `test_mutex` and `test_rwlock` programs. `test_select`
runs writers and a reader on pipes through `pth_select`.

## Modules

The component modules are:

- **`WaitQueue.tla`** models the wait queues.
  - `sleepers[q]` is `wq->sleepers`.
  - `prepolls` is the list of registered `do_wake_up` handlers, each
    holding its private copy. The newest handler is first, because
    `reactor_register_prepoll` links at the head.
  - `aborted` records `abort()`.
  - Operators: `wq_sleep_on`, `wq_sleep_on_alarm` (the alarm branch of
    `wq_sleep_on`, which searches the queue and aborts if the fiber is
    not on it), `wake_up`, `wq_wake_up`, and `wq_wake_up_one` (which
    aborts on an empty queue).
- **`Reactor.tla`** models `reactor_invoke` as phases in `rstep`:
  - `main` covers main's `pth_start` calls.
  - `timers`: `FireTimer` fires one due timer. The timer leaves `timers`
    before the callback runs, and `due` keeps only timers still armed.
  - `prepoll`: `RunPrepoll` takes the head handler and `WakeNext` swaps
    into each fiber of its copy. Handlers registered meanwhile are
    linked at the head, so the next scan finds them in the same tick.
    This is the fired-flag scan.
  - `poll`: with no descriptors, poll returns when the head timer
    expires. `Poll` lets any nonempty set of armed timers become due,
    and the timers loop fires them. The `r == 0` branch fires the head
    timer in the same call, and the next call's loop fires the rest;
    no prepoll runs in between, so the effect is the same.
  - Timers armed by a callback are never already due: the programs arm
    1 ms delays. `Blocked` (poll with no timer) sleeps forever.
- **`Mutex.tla`** models `pthr_mutex.c`.
  - `holder` is `m->pth`.
  - `lockPool` is the fiber whose pool owns the live subpool.
  - `ReleaseOnExit` is the subpool's cleanup running during
    `thread_trampoline`'s `delete_pool`.
- **`RWLock.tla`** models `pthr_rwlock.c`.
  - `n` is `rw->n`.
  - `holders` is the key set of `rw->pools`.
  - `do_release` is `_do_release` with both of its branches.
  - `WritersHavePriority` is a constant.

The compositions are the two test programs, over the reactor, the
queues and a lock:

- **`MutexSystem.tla`** is `test_mutex.c`. Each fiber loops: enter,
  `v = var`, sleep 1 ms, `var = v + 1`, leave, sleep 1 ms. It may first
  call `pth_timeout`. `pc` is the suspension point:
  - `wq`: in `wq_sleep_on`;
  - `cs`: sleeping in the critical section;
  - `rest`: sleeping after it;
  - `done`: finished.

  `OnTimer` and `OnWake` are what a timer callback and `do_wake_up` swap
  into.
- **`RWLockSystem.tla`** is `test_rwlock.c`. Writers do `Iters` slow
  increments. Readers loop while `nr_writer_threads > 0`. Writers are
  started before readers, as in main.

The timer and readiness modules are:

- **`TimerSet.tla`** is the abstract timer promise (spec §3, §4.3 step 1,
  P2). `armed` is a set of (timer, expiry) pairs. `Fire(x)` needs `x` to be
  due and to have the earliest expiry. A fiber's step (`FiberStep`)
  changes only its own timers. The clock never goes back.
- **`TimerQueue.tla`** holds pure operators on the delta queue
  `head_timer`, as a sequence of `[id, delta]` records: `reactor_set_timer`
  (insertion before the first timer with a later or equal expiry, splitting
  its delta), `remove_timer` (the subpool cleanup, carrying the delta to
  the successor), `reactor_unset_timer_early`, `HeadDue`, and `ArmedSet`,
  the refinement mapping to `TimerSet`. All arithmetic is modulo
  `2^ULLBits`, as `unsigned long long` is modulo 2^64.
- **`ReactorTimers.tla`** composes the queue with `reactor_invoke` and the
  fibers of `pthr_pseudothread.c`. A fiber, each time it is resumed, runs
  `pth_millisleep`, `pth_timeout` then `pth_millisleep`, `wq_wake_up`
  then `pth_millisleep`, or `wq_sleep_on`, or exits when its rounds are
  spent (`thread_exit`: `delete_pool` removes its alarm). `Alarm` is
  `return_from_alarm` with its three outcomes: in `_sleep` the fiber
  unsets its sleep timer and exits; in `wq_sleep_on` it leaves the queue
  and exits, or aborts if a wake-up already took it off. The reactor
  steps are `TimerFires` (the `while` loop), `EndTimers`, `RunPrepoll`,
  `WakeNext`, `EndPrepoll` and `Poll`. `Poll` uses the code's timeout
  `head_timer->delta - reactor_time`, converted to a C `int` of `IntBits`
  bits by `int(x)`, and `reactor_time` advances by that much plus up to
  `MaxLate` ms. The history variables `deadline` (what the fiber asked
  for, computed without wrapping) serves `NoEarlyFire`. `thread_exit` is the
  pool teardown of `thread_trampoline`, which removes a still-armed
  alarm.
- **`ReactorHandles.tla`** holds pure operators on `HANDLES` and
  `POLL_ARRAY`, as one record `[handles, nh, pa, na, nu]`:
  `reactor_register` (the first free handle, or grow by `HandleChunk`; share
  a pollfd with the same fd and events, or append, growing by `ArrayChunk`;
  `revents` of new memory is `Garbage`, since `realloc` does not set it),
  `reactor_unregister` (the compaction by an overlapping `memcpy` and the
  renumbering of later handles) and `PollResult` (poll writes `revents` of
  the used entries only). `memcpy_down` models the overlapping copy,
  which is undefined behaviour. The constant `OverlapCopy` picks what the
  build does: a forward or a backward copy. The runs use a forward
  copy, the common implementation. With `OverlapCopy = "backward"`,
  removing one of three pollfds leaves the last pair twice and
  `TableConsistent` fails.
- **`Prepoll.tla`** models the prepoll list with arbitrary handlers.
  `head_prepoll` is the list, newest first. `live` is the set of structs
  whose subpool is alive. `fired` is each struct's flag. The operators
  are `reactor_register_prepoll`, `remove_prepoll` and
  `reactor_unregister_prepoll`. `StartTick` is the loop that clears the
  flags, `ScanStep` is one pass of `prepoll_again` (mark the first unfired
  handler from the head and run its `fn`), and `EndScan` is the exit to
  poll. A handler's `fn`, and code outside the scan (`Outside`), is
  application code (`AppCode`): it unregisters any handlers, itself
  included, and registers at most one new one. The new struct may take
  memory just freed. `reactor_register_prepoll` never writes
  `p->fired`, so the new flag is the memory's old content, 0 or 1.
- **`BlockingIO.tla`** is the plain server: the tables composed with
  `block`, `pth_accept` and `pth_read`, the listener of
  `pthr_listener.c`, the stack pool of `pthr_stack.c`, and the poll and
  dispatch steps of `reactor_invoke`.
  - A fiber registers its pairs in order (`RegisterAll`, a `FoldLeft`
    over `reactor_register`) and swaps out (`Wait`). When a handle's
    callback resumes it (`Resume`), it unregisters all of them
    (`UnregisterAll`).
  - The listener (`Start`, `ListenerRun`) blocks on the listening
    socket. When resumed it either re-blocks (`accept` failed with
    `EWOULDBLOCK`) or accepts. An accept creates a processor through
    `new_pseudothread` and `pth_start` (`FirstRun`), whose first run
    happens inside the listener's own step, inside the dispatch
    callback. Then the listener blocks again (`ListenerBlocks`).
    One accept per resumption is the code's own order: `pth_accept`
    calls `block` before every `accept`, so the listener's loop swaps
    out again before it can accept a second connection.
  - A processor (`Processor`) either waits again (`pth_read`'s retry)
    or leaves `processor_fn`; `thread_trampoline` then returns its
    stack with `_pth_return_stack`. `pth_get_stack` and
    `pth_return_stack` model the one pending slot: a stack is unmapped
    only when the next one is returned or taken.
  - `Poll` reports any nonempty set of registered pairs ready.
    `DispatchCall` and `DispatchSkip` are the two outcomes of one
    iteration of the loop over `nr_handles_allocated`, which is re-read
    after each callback. `MainLoop` is `pthr_server_main_loop`'s
    `reactor_invoke` loop.

- **`FtpClient.tla`** models one `ftpc` of `pthr_ftpc.c` talking to an
  RFC 959 server.
  - `ctl` and `rep` are the two directions of the control connection,
    as FIFO sequences. A command carries a tag: its number, counting
    from 1. A reply line carries the tag of the command it answers,
    with 0 for the greeting. Only the class of a reply code matters to
    the client. A reply may have a `xyz-` line before its final line.
  - The client's actions:
    - `ftpc_login`, `SimpleCommand` (which stands for every call that
      sends one command and tests for 2xx), `XferStart` (the start of
      `issue_port_or_pasv`) and `ftpc_quit` begin a call.
    - `eat_reply` takes a line. At a final line, `OnReply` continues
      the call in `new_ftpc_reply`, `ftpc_login_reply`, `port_reply`,
      `xfer_reply` or `return_reply`.
    - `ConnectData` (passive) and `AcceptData` (active) are
      `open_data`.
    - `ReadData` and `WriteData` are the data loops of `ftpc_get`,
      `ftpc_ls` and `ftpc_put`.
  - `dsock` is the data socket. It is `"leaked"` when a call returned
    without closing it. In active mode such a socket still listens at
    the address the server was given.
  - The server actions (`Srv...`) are the environment, not code of
    this repository. The server answers each command in order and
    waits for the data connection after a 150. It may give up on that
    connection with 425.

- **`PthSelect.tla`** is `test_select.c` on `pth_select` and `pth_poll`,
  with the delta queue of `TimerQueue` (`TQ`) and the tables of
  `ReactorHandles` (`RH`).
  - Writer w owns pipe w, and read end w is descriptor w, so
    descriptor order is writer order. `WriterRun` is one pass of its
    loop: a byte, then `pth_millisleep (3)`. The last pass writes 0xff,
    closes and returns. `pipe[w]` holds the bytes not yet read.
  - The reader's run is split at the code's loops.
    - `ReaderSelect` is `pth_poll`'s zero poll. If nothing is ready,
      `_poll` registers every descriptor in order (`RegisterOne`) and
      arms a `To` ms timer. Otherwise `pth_select` returns
      `ReturnFds`, the descriptors with POLLIN.
    - `ReaderRead` reads a byte from each of them and closes those that
      gave 0xff.
    - `ReaderResume` is `_poll` after the swap. It unregisters the
      handles and unsets the timer if it has not fired. Then it
      returns 0 (timeout) or goes back to the zero poll.
  - `Revents` is what poll(2) reports for a read end: POLLIN with bytes
    in the pipe, POLLHUP once the writer has closed, POLLNVAL once the
    reader has closed it. A closed read end stays in `readfds`.
  - The reactor steps are `Check` and `Exit` (main's loop on
    `pseudothread_count_threads`), `FireDue` and `EndTimers` (the timers
    loop), `PollReady` and `PollTimeout` (poll returning `r > 0` or
    `r == 0`, with `reactor_time` refreshed up to `MaxLate` ms late),
    `FireHead`, `Dispatch` (a `Garbage` `revents` may read either way)
    and `EndDispatch`.
  - `pollStart` is a history variable: the time the current `pth_poll`
    call began.
  - No other step is enabled while the reader runs (`ReaderIdle`).

- **`IOLib.tla`** models one fiber's `io_handle` of `pthr_iolib.c` on a
  non-blocking socket. Bytes are numbered: output byte k is the k-th
  byte handed to `io_fputc` or `io_fwrite`, and input byte k is the
  k-th byte of the peer's stream. `outbuf` is `[outbuf, outbufpos)`,
  `sent` is `_flush`'s `cptr - outbuf`, and `inbuf`, `pos` and `len` are
  the input buffer, `inbufpos` and `inbuflen`. `pc` says where the fiber
  is: between calls, or in one of the library's loops.
  - `Call` is one library call: `Fputc` (`io_fputc`, with a byte that is
    or is not `'\n'`), `Fflush`, `io_fwrite`, `Fgetc`, `Fread`,
    `Ungetc` (of the last byte read) or `Setbufmode`. Each `io_fflush`
    at the start of a call is `FlushThen`. `Close` is `io_fclose`, and the
    fiber's normal exit has the same effect.
  - The loops are `FlushWrite` (`_flush`), `DirectWrite` (`io_fwrite`),
    `FgetcNext` (`io_fgetc`'s `next`), `FreadBuffer` and `FreadSock`
    (`io_fread`). One step covers the syscalls up to the next suspension.
    A write moves some bytes and then finishes, blocks (`EWOULDBLOCK`)
    or fails. A read returns bytes, EOF, blocks or fails. A failed write
    breaks the connection for good.
  - A blocked fiber is resumed by `Ready` (the socket's callback) or by
    `Alarm` (its watchdog, which makes `block` call `pth_exit`).
    `pth_exit`, and `_err` on a failure, lead to `Teardown`: the pool
    deletion runs `_do_close`, which flushes what `outbufpos` says is
    buffered, starting from `outbuf`. If the teardown's own flush blocks,
    `block` finds `alarm_received` still set and calls `pth_exit` inside
    `delete_pool`. What follows depends on the pool library and ends the
    model (`reexit`).

- **`CGI.tla`** holds the codecs and the form parser of `pthr_cgi.c`
  as operators over byte strings. A byte string is a sequence of
  0..255, without its terminating NUL.
  - `cgi_escape` keeps alphanumerics, `,` and `-`, turns a space into
    `+`, and turns any other byte into `%xy`. It uses `EscapeByte` and
    `HexDigit`.
  - `cgi_unescape` decodes `%XY` (through `hex_to_int`) and `+`, in the
    recursive `Unescape`. `CString` cuts the result at its first NUL,
    because callers see a C string.
  - `parse_qs` splits on `&` (`SplitOn`, for c2lib's `pstrcsplit`).
    `InsertField` gives a field without `=` the value `1`.
  - `insert_param` unescapes the value and stores it. `cgi_param_list`
    returns a field's values in the order they were inserted.
  - `isalnum` of a byte of 128 or more goes through a signed `char`.
    That is undefined, and glibc's C locale answers 0, so `IsAlnum` is
    false for those bytes.
- **`DbiTxn.tla`** is what `pthr_dbi.h` promises of transactions: a
  write joins the open transaction (`pending`); `Commit` makes all of it
  `durable`; `Abort` (a rollback, a failed statement, a lost
  connection) throws all of it away.
- **`Dbi.tla`** models one program's use of `pthr_dbi.c` against a
  PostgreSQL session.
  - Client state: `conn` (none, up, down), `in_transaction`, `throw`
    (`DBI_THROW_ERRORS`), `sth[h]` (result kind, rows, `fetch_allowed`,
    `next_tuple`, the query it answers), `handlers` (the depth of the
    `pth_catch` stack) and `call`, the DBI call in progress with its
    phase.
  - Server state (environment, not mapped): `txn` (idle, active,
    aborted), `work` (writes of the open block), `durable`, and `seq`
    (whether `nextval` ran, without which `currval` is an error).
    `Serve` gives the PostgreSQL answer to each query; `Exchange` adds a
    lost answer, an unsent query and a dropped connection (at most
    `MaxFaults`).
  - `st_execute` is split where the code calls itself: `BeginWork` (the
    recursive `BEGIN WORK` when `in_transaction` is 0, set to 1 first),
    `SendQuery` (send, flush, read every result, keep the last), then
    `ExecReturn` or `exec_error`. `exec_error` dies in throw mode, else
    returns -1. `db_commit`, `db_rollback` and `st_serial` are
    `CachedStatement`: the cached statement's execute, whatever it
    returns, then the caller's tail.
  - `pth_catch`, `CatchReturn` and `pth_die` model the exception stack;
    an uncaught die is `pth_exit`, whose pool teardown runs
    `finish_handle` and `disconnect` (PQfinish; the server rolls back).
  - `QuoteString`, `escape_string` and `PQescapeString` build the text
    of a `DBI_STRING` argument; `Literal` is a reference lexer of an SQL
    string literal, and `received` records what the server read back.
  - `ret`, `ran`, `reported` and `lastExec` are history: the last
    return, the writes a program saw succeed since its last commit, an
    error it was told about, and the query each handle last ran.
- **`HTTP.tla`** models one connection of eg1 or eg2 (`app`).
  - The client-to-server stream `in` is a sequence of tokens: a body
    byte, or a whole line (a request line, a header line or an empty
    line). A line is what `io_fgets` returns without its CR LF.
    - `Fgets` is `io_fgets`. It returns the bytes before the first line
      with that line. At end of file it returns only the bytes that are
      left.
    - `LeadCount` is what `io_fread` can read of a body.
    - The buffering and suspensions inside these calls are those of
      `IOLib`. A step here runs from one read of the stream to the next.
  - The client's actions:
    - `Send` sends a whole request. Several requests can be pipelined.
    - `ClientAbort` sends a proper prefix of a request and closes.
    - `SendBlank` sends an empty line before the first request.
    - `ClientClose` closes the client's side.
  - Another process may rewrite the file (`WriteFile`).
  - The parser actions, all in `new_http_request`:
    - `RequestLineEnd` covers end of file and the skipped empty line.
    - `RequestLine` parses the method, the URL and the `HTTP/x.y`
      version. Anything else gets a 405 or 400 and `pth_die`.
    - `Header` handles one header line, or the empty line that ends the
      headers.
  - A response is abstracted to what a client frames it by:
    - its status code;
    - the Content-Length it declares, or none;
    - the body bytes written;
    - whether the connection closes after it.
  - `Response` gives these facts for the set of header names a handler
    sends. That set is what `new_http_response` and
    `http_response_send_header(s)` record.
  - `http_response_end_headers` decides on keep-alive.
  - `Eg1Run` is `new_cgi` followed by eg1's answer (`Echo`).
  - eg2's loop is `Eg2Stat` (`stat`), followed by one of:
    - `FileNotFound`;
    - `MovedPermanently`;
    - `ServeDirectory`;
    - `ServeFile`, then `FileRead` and `FileReadError` (the `read`
      loop).
  - `fds` counts the descriptors that eg2 opens and never closes. `open`
    and `opendir` fail when it reaches `MaxFds`.
  - `served` is a history variable: the number of request lines the
    server has accepted.

The MC modules are `MC_Mutex.tla`, `MC_RWLock.tla`, `MC_ReactorTimers.tla`,
`MC_BlockingIO.tla` and `MC_HTTP.tla`. `MC_HTTP` defines the file, the
directory and the form values. They declare the
fibers as model values. `MC_RWLock` adds symmetry within readers and
within writers: the roles are interchangeable in the code.
`Dbi` needs no MC module: its `.cfg` files make the statement handle
and the temporary handle of a cached statement model values and give
the bounds as numbers.

## Runs

| Run | Config | Expect | What it shows |
|---|---|---|---|
| mutex_safety | `MC_Mutex.cfg` | pass | See below. |
| mutex_abort | `MC_MutexAbort.cfg` | violation of `NoAbort` | A watchdog fires on a fiber that `_do_release` has already woken but that has not run. The fiber is on no queue, so `wq_sleep_on` calls `abort()` (`pthr_wait_queue.c:97`). Spec §4.5 calls the removal "defensive", i.e. it expects this case. |
| rwlock_safety | `MC_RWLock.cfg` | pass | See below. |
| rwlock_hang | `MC_RWLockHang.cfg` | violation of `ReactorNeverHangs` | 1 writer, 2 readers. The writer's leave wakes one reader (`pthr_rwlock.c:303`). A reader's leave wakes only writers. The other reader sleeps forever on a free lock, and the reactor blocks. The commented-out assert at lines 289-292 ("XXX It does happen") is this state. |
| timers_safety | `MC_ReactorTimers.cfg` | pass | See below. |
| server_block | `MC_BlockingIO.cfg` | pass | See below. |
| prepoll_scan | `MC_Prepoll.cfg` | pass | See below. |
| iolib_stream | `MC_IOLib.cfg` | pass | See below. |
| http_session | `MC_HTTP.cfg` | pass | See below. |
| dbi_txn | `MC_Dbi.cfg` | pass | See below. |
| pthr_select | `MC_PthSelect.cfg` | pass | See below. |
| ftp_desync | `MC_FtpDesync.cfg` | violation of `ReplyMatches` | The trace, in active mode: `ftpc_get` sends PORT and then RETR, and the server answers 150. `fopen` of the local file fails, and `ftpc_get` returns -1 (`pthr_ftpc.c:429`). It has not read the transfer's final reply and has not closed the data socket. The server answers 425, or 226 if it connected to the leaked socket. The next call, `ftpc_login`, reads that reply as the answer to USER. From then on every call gets the reply to the command before it. The failure exits after `open_data` and the `fwrite` failure in `ftpc_get` leave the control connection the same way. Three calls, both modes, about 1k states. |

**mutex_safety:** 3 fibers, 2 increments each, with and without
watchdogs.

- `NoLostUpdate`: the final assertion of `test_mutex` holds at every
  moment.
- `LockScopedToHolder` (P4): the subpool belongs to the holder, and the
  holder is inside its critical section.
- `WaitersAccounted` (P3): every waiter is in exactly one of: a queue, a
  pending copy, or the copy being run.
- `Termination` holds under fairness.

About 185k states.

**rwlock_safety:** 2 readers and 2 writers, 2 increments, watchdogs,
symmetry.

- `RWExclusion`: readers XOR one writer, and `n` matches the holders.
- `NoLostUpdate` and `WaitersAccounted`, as for the mutex.

**timers_safety:** 2 fibers, 2 rounds each, sleeps of 1 ms and 1000 ms,
watchdogs of 0 s and 1 s, 12-bit `int` and 14-bit `unsigned long long`,
`reactor_time` starting at 8192, poll returning up to 1 ms late.

- `TimerSpec`: the delta queue, seen through `ArmedSet`, implements
  `TimerSet` (`INSTANCE TimerSet WITH armed <- ArmedSet(queue)`).
- `NoEarlyFire` (P2): a callback runs only once `reactor_time` has
  reached the fiber's own time plus the delay it asked for.
- `NoTimerOfExitedFiber`: a fiber that has exited has no timer left in
  the queue. `delete_pool` in `thread_trampoline` removes its alarm, and
  an alarm that interrupts `_sleep` unsets the sleep timer before
  `pth_exit`. A timer left behind would swap into a freed pseudothread.
- `TimersEventuallyFire`: every armed timer fires or is unset, unless
  the program aborted.

About 17k states. With 1 ms and 1000 ms delays a 1 s watchdog and a
sleep can share an expiry. That reaches all three branches of
`return_from_alarm`, including the abort.

**server_block:** a listener accepting up to 4 connections into 3
processor fibers, each processor blocking on one of 2 data descriptors
up to 2 times, arrays growing by 8 as in the code.

- `TableConsistent` (R1): each handle a waiting fiber holds points at a
  used pollfd for its own pair; every other handle is free; every used
  pollfd has a handle; no pair has two pollfds.
- `ReadyClientsResumed`: when the loop ends, every fiber that waited on
  a pair poll found ready has been called back.
- `StacksAccounted` (P5): the stacks mapped are those of the live fibers
  plus the pending one, and the pending stack never belongs to a live
  fiber.

About 663k states. Three descriptors, the listening one included, are
the least for which the compaction moves two entries, i.e. for which the
`memcpy` regions overlap. Four accepts let a processor slot be reused
after its fiber exits, which exercises the pending stack.
`NoSpuriousCallback` is not checked here. It fails (see "Configurations
kept beside the runs").

**iolib_stream:** buffers of 2 bytes, a peer sending 3, calls of up to
2 bytes, 4 calls before `io_fclose`, with a watchdog and failing writes.

- `OutputAccounted`: until the pool teardown, the wire followed by the
  bytes pending (the rest of the buffer from `cptr`, then what
  `io_fwrite` still has to write) is exactly the bytes written, in
  order. This holds across partial writes, suspensions, mode changes and
  direct writes.
- `InputAccounted`: the bytes `io_fgetc` and `io_fread` returned, followed
  by the unread part of the input buffer, are exactly the stream read
  from the socket so far. This holds across refills, short reads, reads
  that bypass the buffer, and `io_ungetc`.

About 17k states. Two-byte buffers make a third `io_fputc` find the
buffer full, and a three-byte stream makes refills, short reads and EOF
all happen.

**http_session:** both processors. Each runs GET, HEAD and POST over
HTTP/1.0 and 1.1, with no Connection header, `close` or `keep-alive`.
A POST's form goes in a body with or without Content-Length, sometimes
followed by Netscape's extra CR LF. The client sends two requests; the
second can be pipelined behind the first, or aborted half-way. eg2
serves a file and a directory, each of up to one byte. The file can be
rewritten once, and one descriptor is left to open.

- `FormValuesDecoded`: for a request the client sent whole, the values
  of field `v` in eg1's `cgi` object are exactly the one value the
  client encoded with `cgi_escape`. It sent that value in the query
  string or as the body. The request is the `served`-th one, so the
  check also catches a body read that ends in the wrong place.
- `KeepAliveOnlyWhenFramed` (an action property): the processor goes
  back for a further request only after a response with
  Content-Length. The request must also be HTTP/1.1 without
  `Connection: close`, or HTTP/1.0 with `Connection: keep-alive`.

About 2.9M states, about 2 minutes. The two form values, `" %"` and
`"&+"`, are each changed by `cgi_escape`. Each contains a byte that
`parse_qs` or `cgi_unescape` treats specially. The aborted request
reaches the parser's errors and eg1's short body read. The directory
reaches the redirect and the listing, and a leaked descriptor makes
`open` fail. The other process lets the file change between `stat` and
`read`. eg1 never keeps a connection open, because its answer has no
Content-Length. The two-request bound therefore matters only for eg2
(pipelining and keep-alive) and for requests left unread behind an eg1
answer.

**dbi_txn:** one database handle and one statement handle, 6 calls, at
most 2 rows, one network fault, string arguments of up to 2 characters
over `a`, `'` and `\`, both error modes (about 495k states, 13 s).

- `DbiTxnSpec`: `Dbi` implements `DbiTxn` under
  `pending <- IF txn = "active" THEN work ELSE {}`. Every write the
  server applies outside a transaction block would be a `Run` followed
  by a `Commit` in one step, which `DbiTxn` forbids: the property says
  `in_transaction` and the server's block never disagree in a way that
  lets a write autocommit, across failed BEGINs, lost COMMITs, caught
  and uncaught exceptions.
- `CommitKeepsWork`: in throw mode, a `db_commit` that returns, with no
  error reported since, leaves durable every write the program saw
  succeed.
- `QuoteRoundTrip`: for every argument, the server's lexer reads back
  the closed literal holding exactly the argument, and the text after
  it is the rest of the query.

Mutants: `db_commit` and `db_rollback` returning without clearing
`in_transaction` (the next write then commits on its own); `exec_error`
that returns -1 in throw mode too; `PQescapeString` that doubles quotes
and copies backslashes unescaped; `st_fetch` that tests
`next_tuple > ntuples` instead of `>=`.

**pthr_select:** 2 writers of 3 bytes each. Poll returns up to 3 ms
late. The tables grow by 2 entries, which is enough for the reader's 2
handles.

- `PollTimeoutExact` (an action property): `pth_poll` returns 0 only
  once `To` ms have passed since the call began, and at most `MaxLate`
  ms after that. Each `goto again` arms a fresh timer. The bound holds
  because a wake-up that finds nothing ready happens only in the
  dispatch loop of the poll that woke the reader. That is a stale
  `revents` on a handle re-registered in the same loop, at the same
  `reactor_time`.
- `Termination` holds under weak fairness of the program's steps. Once
  the reader has closed a read end, every zero poll reports POLLNVAL.
  `pth_select` then returns `r > 0` with empty sets, so the reader spins
  without yielding. It terminates only because the writers were armed
  at the same `reactor_time`. All their last timers fire in one timers
  loop, before any poll, so every 0xff is in its pipe before the
  reader's pass.

About 1.4k states, in seconds. A 3 ms lateness lets a writer's timer
come due twice before the reader runs, so a pipe holds two bytes.
`Garbage` `revents` on handles re-registered during the dispatch loop
give spurious wake-ups. Three writers give about as many states, but
the fairness check's `ENABLED` takes minutes over the nested table
operators.

**prepoll_scan:** 3 handler structs, 2 ticks, at most 3 registrations a
tick, in callbacks and outside the scan.

- `RunsAtMostOnce` (P1): no handler runs twice in a tick.
- `EveryRegisteredHandlerRuns` (P1): when the scan ends, every handler
  registered when the flags were cleared, and still registered, has run.

About 11k states. Three structs are enough for S5 (A removes B and
registers C). Two ticks make the clearing loop matter.

Each property of a passing run has a mutant in `PROJECT.json`. A
mutant is a plausible fault written next to the definition it replaces:

- a dropped `m->pth == 0` test;
- `_do_release` that wakes nobody;
- pool teardown that forgets the lock;
- `wake_up` without removing the sleepers;
- `n >= 0` for `n == 0`;
- a writer release that keeps `n`;
- a `<=` loop bound;
- a fiber that runs one round too many;
- insertion into the delta queue that forgets to split the successor's
  delta;
- `remove_timer` that forgets to carry the delta;
- thread teardown that leaves the alarm timer queued;
- the timers loop written as a single `if`;
- a processor that waits one round too many;
- `io_fwrite` without its `io_fflush`;
- `io_ungetc` testing `inbufpos >= inbuf`;
- `io_fread` that does not move `inbufpos`;
- `insert_param` that stores the value without `cgi_unescape`;
- `http_response_end_headers` that keeps the connection open whether
  or not Content-Length was sent;
- `serve_file`'s read loop that re-reads from offset 0;
- `_pth_get_stack` that keeps the pending stack mapped;
- compaction that does not renumber later handles;
- poll passed one descriptor too few;
- `remove_prepoll` that unlinks only the head;
- the label `prepoll_again` placed before the clearing loop;
- a clearing loop that clears only the head's flag;
- a test_select writer that writes one byte too many;
- `pth_poll` without `if (current_pth->poll_timeout) return 0`;
- the timers loop of `reactor_invoke` written as a single `if` (the
  reader then reads a first 0xff between two writers' last timers and
  spins).

A 0 ms sleep armed from a timer callback is already due, and the
`while` loop of the same tick fires it (`pthr_reactor.c:442`), against
spec §4.3 step 1. The runs keep 1 ms as the smallest delay, as the
programs use; `MC_PthSelectZero.cfg` shows where a zero timeout leads.

TLC finds the property violated under each mutant.

**Bounds.**

- Three mutex fibers allow a sleeper, a fiber woken but not yet run,
  and a barger all at once.
- Two increments per fiber make a fiber return to the lock after
  leaving it.
- Two readers are the least that can show a stranded reader.
- Two writers are the least that put a second reader into the
  critical section alongside the first.

- `IntBits = 12` and `ULLBits = 14` keep `int` narrower than
  `unsigned long long`, as on every build. 3 s is then the smallest
  watchdog whose `seconds * 1000` wraps; the run's watchdogs of 0 s and
  1 s do not. With a 3 s watchdog armed by a fiber resumed in the
  prepoll step, the alarm's trigger time lands in the past, poll gets a
  negative timeout and waits for ever, and `TimersEventuallyFire` fails.
  With a 32-bit `int` this takes a watchdog over 2147483 s (about 24.8
  days); the hazard at `pthr_pseudothread.c:494` records it. `StartTime = 8192` keeps the
  clock far from 0, as `gettimeofday` milliseconds are.
- Two timer fibers suffice for a waker and a sleeper. A wake-up issued
  from inside the prepoll step needs a third fiber. That context is not
  reached here, but every action and branch is.
- `MaxHandles = MaxArray = 8`, one chunk, bounds the tables. The
  `ASSUME`s check that the fibers never need more.

**Fairness.** `MutexSystem` puts weak fairness on every reactor step and
on `Start`. `main` runs `reactor_invoke` for ever. Poll returns once the
head timer expires. A prepoll always runs. Fibers have no fairness of
their own, since they act only when the reactor resumes them. The
rwlock system has no liveness run: it is known to hang (rwlock_hang).
`ReactorTimers` has the same fairness, for the same reason.
`PthSelect` has weak fairness on every step but the final stutter.
One process runs main's loop and every fiber, so the program takes
some enabled step whenever one exists.
`BlockingIO` has no liveness property: whether poll ever reports a
descriptor ready depends on the peer, not on the code.
`Dbi` is safety only: a DBI call waits on the server with a blocking
`poll`, and whether the server answers is the environment's choice.
`HTTP` has no fairness and no liveness property either. Whether a
request ever completes depends on the client sending it and closing its
side. The deadlock of a POST without Content-Length against a client
that waits is exactly such a case (see the hazards).

## Not modelled, and the plan

**Configurations kept beside the runs.** Ten violations found while
modelling can still be reproduced with their configurations. They are
not registered as runs, because the project keeps at most twelve.

- `MC_FtpAccept.cfg` (module `FtpClient`, `FairSpec`) finds
  `CallsReturn` violated. In active mode the server answers RETR with
  150, cannot connect to the PORT address, and answers 425. The client
  has read the 150 and waits in `open_data`'s `pth_accept`
  (`pthr_ftpc.c:702`). That wait has no timeout, so the call never
  returns.
- `MC_HTTPFraming.cfg` (module `MC_HTTP`) finds `ResponsesFramed`
  violated. eg2 answers a `GET /f` over HTTP/1.1 with
  `Content-Length: 1` (the size from the loop's `stat`), and
  `http_response_end_headers` keeps the connection open. `read` then
  fails; `serve_file` only calls `perror` (`pthr_eg2_server.c:344`) and
  still returns "keep open", so the client reads the next response as
  the rest of this body. A file rewritten between `stat` and `read`
  (line 339) breaks framing the same way. RFC 2616 §4.4 requires the
  connection to close.
- `MC_DbiCommitSilent.cfg` (module `Dbi`) finds `CommitKeepsWorkAnyFlags`
  violated. Without `DBI_THROW_ERRORS` a program writes a row, then the
  connection drops while the COMMIT is sent. `st_execute` returns -1,
  `db_commit` ignores it (`pthr_dbi.c:235`) and returns normally; the
  server has rolled the write back. `pthr_dbi.h` gives `db_commit` no
  way to report failure.
- `MC_DbiStaleFetch.cfg` (module `Dbi`) finds `FetchCurrent` violated.
  A select returns a row; the next `st_execute` on the same handle
  fails in `PQsendQuery` (`pthr_dbi.c:519`), before `sth->result` is
  replaced. `st_fetch` still has `fetch_allowed` and returns the old
  row, as if it answered the new query.
- `MC_DbiSerial.cfg` (module `Dbi`) finds `SerialFromServer` violated.
  Without `DBI_THROW_ERRORS`, `st_serial`'s `currval` query fails (here
  its `BEGIN WORK`); `st_fetch` returns -1, `!(-1)` is false, and the
  uninitialised local `serial` is returned (`pthr_dbi.c:268`).
- `MC_PrepollFresh.cfg` (module `Prepoll`) finds
  `NewHandlersRunThisTick` violated:
  - a callback unregisters its own handler and registers a new one;
  - the new handler gets the freed memory back;
  - `reactor_register_prepoll` never sets `p->fired`
    (`pthr_reactor.c:389`), so the field, at offset 32 past the
    allocator's bookkeeping, still reads 1;
  - the scan skips the new handler until the next tick, after poll.

  Spec §4.3 step 2 and S5 say it runs in the same tick.
- `MC_PthSelectZero.cfg` (module `PthSelect`) gives the reader a zero
  `timeval`. TLC finds `Termination` violated:
  - `pth_select` passes timeout 0 to `pth_poll`;
  - `_poll` arms a timer for it (`timeout >= 0`,
    `pthr_pseudothread.c:923`), although spec.md says a timer is armed
    only for a non-zero timeout;
  - the timer's trigger time is the current `reactor_time`, so the
    timers loop fires it at once;
  - the reader's loop calls `pth_select` again and arms another due
    timer in the same loop;
  - `reactor_time` is refreshed only after poll, so the loop
    (`pthr_reactor.c:443`) never ends and the writers never run.
- `MC_IOLibResend.cfg` (module `IOLib`) finds `NoByteSentTwice`
  violated:
  - two `io_fputc` calls, the second a `'\n'` in line-buffered mode,
    start `_flush`;
  - `write` takes byte 1 and then reports `EWOULDBLOCK`;
  - the watchdog fires, and `block` calls `pth_exit`;
  - `_flush` resets `outbufpos` only after its loop
    (`pthr_iolib.c:529`), so `_do_close` flushes again from `outbuf`;
  - byte 1 goes out twice.

- `MC_RWLockPriority.cfg` (module `MC_RWLock`) finds
  `WriterPriorityHonoured` violated, with 2 writers and 2 readers:
  - a reader's release wakes a writer into a pending prepoll;
  - in the same tick, another reader's timer fires;
  - `try_enter_read` sees `writers_wq` empty and enters, which breaks
    P6 (`pthr_rwlock.c:146`).
- `MC_BlockingIOStale.cfg` (module `MC_BlockingIO`) finds
  `NoSpuriousCallback` violated:
  - poll reports the listening socket and a processor's socket ready;
  - the listener, resumed at handle i, unregisters its pollfd, and
    compaction moves the processor's pollfd into its slot;
  - the listener starts a processor on the freed handle and blocks
    again;
  - its new pollfd is the slot just vacated, whose `revents` poll set
    for the other socket;
  - the same loop resumes the listener without a new poll
    (`pthr_reactor.c:529`), although the code's comment calls the loop
    "race free";
  - `pth_accept` re-tests with `accept`, but `pth_connect` would read
    `SO_ERROR` and report a connection still in progress as made.

**Not modelled:**

- **Machine context.** Swaps are taken to be atomic and correct.
- **HTTP and CGI details.** Not modelled:
  - cookies, header enumeration and chunked writes, because no example
    uses them;
  - logging, and the Server and Date headers, which are text only;
  - `copy_cgi`, `cgi_erase` and `post_max`.

  The page text is reduced to "some bytes". A header is either
  Connection or Content-Length, because only these two change what the
  code does. A request line longer than `MAX_LINE_LENGTH` is split by
  `io_fgets`; this is not modelled.
- **Known defects with no property.** The hazards list these:
  - eg2 leaks a descriptor on every HEAD of a file, and every directory
    listing leaks one;
  - a POST without Content-Length waits for end of file while the
    client waits for the answer;
  - `t[r] = '\0'` after a full 1024-byte read writes past the array
    (`pthr_cgi.c:131`);
  - eg2 never reads a POST body.
- **Parts of the FTP client.**
  - Name resolution, and failures of `socket`, `bind`, `listen` and
    `getsockname`. The errors are local, and the paths return before
    any command is sent.
  - A PASV reply without parentheses (`pthr_ftpc.c:615`).
  - A data connection from a foreign address. That path returns
    without closing the accepted socket.
  - Verbose logging, and the quote stripping in `ftpc_pwd`.
  - The socket leaks are counted (`leaked`), but no run bounds them.
- **Parts of the database binding.** The typed placeholders and
  results other than `DBI_STRING` (`DBI_INT`, timestamps, intervals,
  `parse_timestamp`, `parse_interval`) are value conversions with no
  control of their own; `_st_bind` and the bound-variable copies;
  `st_prepare_cached`'s lookup (a cached statement is taken as found);
  `db_set_debug` and the debug output. The server is an environment
  that follows PostgreSQL's documented transaction behaviour.
- **`io_fputs`, `io_fprintf`, `io_copy`, `io_popen`.** These
  are loops over the modelled calls plus string handling, or `fork` and
  pipes. `io_fgetc` returns `*inbufpos` through a plain `char`, so on a
  build where `char` is signed a 0xFF byte reads as -1, i.e. as EOF. The
  model numbers bytes and does not model their values.
- **The monitor fibers of the tests.** They only print and exit.
- **Lock creation and deletion.**
- **Server start-up.** Option parsing, the listening socket's setup,
  chroot, daemonisation and syslog in `pthr_server_main_loop` are
  sequential I/O before the reactor loop.
- **`pth_wait_readable`, `pth_wait_writable`.** They call the real
  `poll (fds, 1, -1)`, which blocks the whole process, every fiber
  with it. Only the database binding uses them, and `Dbi` takes each
  DBI call's exchange with the server as one step for that reason.
- **A failed `mmap`.** `new_pseudothread` aborts; nothing interleaves.

- **`reactor_init` and `reactor_stop`.** These are a constructor and a
  destructor, each run once, with nothing to interleave. `reactor_stop`
  revisits a freed prepoll struct (`prepoll_next = prepoll`,
  `pthr_reactor.c:177`) when a handler is left registered at exit.

**Planned next modules, in order:**

1. Alarm delivery at suspension points only (P7) as its own property
   over `ReactorTimers`; the exception stack is now modelled in `Dbi`.
2. `pth_connect`, to show the consequence of the stale `revents`.
3. The typed DBI placeholders, as operators checked against a reference
   formatter.
