-------------------------------- MODULE Dbi ---------------------------------
(***************************************************************************)
(* The database binding of src/src/pthr_dbi.c, used by one pseudothread,  *)
(* against one PostgreSQL session.  Every wait of the library              *)
(* (pth_wait_readable, pth_wait_writable) is a poll with no timeout that   *)
(* blocks the whole process, so a call runs without any other fiber in    *)
(* between; the model still splits st_execute at its two round trips,     *)
(* BEGIN WORK and the query, because a connection may fail at either.     *)
(*                                                                         *)
(* The SQL text built from the placeholders is data and is left out; a    *)
(* query is one of "write" (INSERT, UPDATE: PGRES_COMMAND_OK), "select"   *)
(* (PGRES_TUPLES_OK with 0..MaxRows rows) or "bad" (refused by the        *)
(* server).  A write is named by the number of the call that ran it.      *)
(*                                                                         *)
(* The server session is the environment: its transaction block and its   *)
(* uncommitted and durable writes follow PostgreSQL (a statement outside  *)
(* a block commits at once; an error inside one aborts it; COMMIT of an    *)
(* aborted block rolls it back; the backend rolls back when the client     *)
(* goes away).  A connection may fail (at most MaxFaults times): the query *)
(* was then not sent, or was run and its answer lost; libpq keeps a failed *)
(* connection bad, so every later call on it fails to send.               *)
(***************************************************************************)
EXTENDS Integers, Sequences, SequencesExt, FiniteSets

CONSTANTS Handles,      \* statement handles the program holds
          Tmp,          \* the handle st_prepare_cached makes inside a call
          MaxOps,       \* calls the program makes
          MaxRows,      \* rows a SELECT may return
          MaxFaults,    \* connection failures
          MaxText       \* length of the strings given for DBI_STRING

ASSUME Tmp \notin Handles

Stmts   == 1..MaxOps
Queries == {"write", "select", "bad"}
Ops     == {"connect", "prepare", "execute", "commit", "rollback", "fetch",
            "fetch_all", "finish", "catch", "body_end", "serial", "none"}

\* The PGresult a statement handle holds, the query that produced it, and
\* its fetch state (sth->result, sth->fetch_allowed, sth->next_tuple).
Results == {"none", "cmd", "tuples", "error"}
NoResult == [result |-> "none", nrows |-> 0, qid |-> 0,
             fetch_allowed |-> 0, next_tuple |-> 0]

NoCall == [op |-> "none", h |-> Tmp, q |-> "none", id |-> 0, phase |-> "none",
           arg |-> <<>>]

NoReceived == [arg |-> <<>>, read |-> [value |-> <<>>, closed |-> FALSE, rest |-> <<>>]]

VARIABLES conn,            \* "none" (no handle), "up" or "down" (libpq bad)
          in_transaction,  \* dbh->in_transaction
          throw,           \* dbh->flags & DBI_THROW_ERRORS
          sth,             \* [Handles -> statement handle state]
          prepared,        \* handles made by new_st_handle on this dbh
          call,            \* the st_execute, db_commit or db_rollback running
          handlers,        \* size of current_pth->exception_jmp_vec
          ops, faults,
          txn, work, durable,  \* the server session
          seq,             \* the session has called nextval (currval defined)
          ret,             \* how the last call came back to the program
          ran, reported,   \* history: writes whose st_execute returned a
                           \* count, and whether an error reached the
                           \* program, since its transaction began
          lastExec,        \* history: the call number of the last
                           \* st_execute on each handle
          received         \* history: the DBI_STRING argument of the last
                           \* write the server received, and how it read it

vars == <<conn, in_transaction, throw, sth, prepared, call, handlers, ops, faults,
          txn, work, durable, seq, ret, ran, reported, lastExec, received>>
srv  == <<txn, work, durable, seq>>

TypeOK ==
  /\ conn \in {"none", "up", "down"} /\ in_transaction \in {0, 1}
  /\ throw \in BOOLEAN /\ handlers \in 0..1
  /\ sth \in [Handles -> [result : Results, nrows : 0..MaxRows,
                          qid : 0..MaxOps, fetch_allowed : {0, 1},
                          next_tuple : 0..MaxRows]]
  /\ prepared \subseteq Handles
  /\ call.op \in {"none", "execute", "commit", "rollback", "serial"}
  /\ call.phase \in {"none", "begin", "send", "bw_error", "error"}
  /\ ops \in 0..MaxOps /\ faults \in 0..MaxFaults
  /\ txn \in {"idle", "active", "aborted"}
  /\ work \subseteq Stmts /\ durable \subseteq Stmts /\ seq \in BOOLEAN
  /\ ret \in [op : Ops, h : Handles \cup {Tmp}, how : {"return", "die", "exit"}, v : -1..MaxRows]
  /\ ran \subseteq Stmts /\ reported \in BOOLEAN
  /\ lastExec \in [Handles -> 0..MaxOps]

Init ==
  /\ conn = "none" /\ in_transaction = 0 /\ throw \in BOOLEAN
  /\ sth = [h \in Handles |-> NoResult] /\ prepared = {} /\ call = NoCall /\ handlers = 0
  /\ ops = 0 /\ faults = 0
  /\ txn = "idle" /\ work = {} /\ durable = {} /\ seq = FALSE
  /\ ret = [op |-> "none", h |-> Tmp, how |-> "return", v |-> 0]
  /\ ran = {} /\ reported = FALSE
  /\ lastExec = [h \in Handles |-> 0]
  /\ received = NoReceived

-----------------------------------------------------------------------------
(* The server session (environment). *)

Srv(t, w, d, st) == [txn |-> t, work |-> w, durable |-> d, status |-> st]

\* What the backend does with one query and the status it answers.
Serve(q, id) ==
  CASE q = "begin"    -> IF txn = "aborted" THEN Srv(txn, work, durable, "error")
                                            ELSE Srv("active", work, durable, "cmd")
    [] q = "commit"   -> Srv("idle", {}, IF txn = "active" THEN durable \cup work
                                                            ELSE durable, "cmd")
    [] q = "rollback" -> Srv("idle", {}, durable, "cmd")
    [] txn = "aborted" -> Srv(txn, work, durable, "error")
    [] q = "bad"      -> Srv(IF txn = "active" THEN "aborted" ELSE "idle",
                             work, durable, "error")
    [] q = "write"    -> IF txn = "active" THEN Srv(txn, work \cup {id}, durable, "cmd")
                                           ELSE Srv(txn, work, durable \cup {id}, "cmd")
    [] q = "select"   -> Srv(txn, work, durable, "tuples")
    [] q = "currval"  -> IF seq THEN Srv(txn, work, durable, "tuples")
                         ELSE Srv(IF txn = "active" THEN "aborted" ELSE "idle",
                                  work, durable, "error")

\* The backend of a lost client rolls back its open transaction block.
Dropped(r) == [r EXCEPT !.txn = "idle", !.work = {}, !.status = "connerr"]

\* How a round trip on the connection may go.
Nets == IF conn # "up" THEN {"down"}
        ELSE IF faults < MaxFaults THEN {"ok", "unsent", "lost"} ELSE {"ok"}

Exchange(q, id, net) ==
  CASE net = "ok"   -> Serve(q, id)
    [] net = "lost" -> Dropped(Serve(q, id))
    [] OTHER        -> Dropped(Srv(txn, work, durable, "none"))

SetServer(r) == txn' = r.txn /\ work' = r.work /\ durable' = r.durable

NetAfter(net) ==
  /\ conn' = IF net = "ok" THEN conn ELSE "down"
  /\ faults' = IF net \in {"unsent", "lost"} THEN faults + 1 ELSE faults

-----------------------------------------------------------------------------
(* Query text: a DBI_STRING argument becomes a quoted SQL literal.        *)
(* PQescapeString is the copy pthr_dbi.c compiles when libpq lacks one.   *)

\* A fault: an escape that doubles quotes and copies backslashes.
PQescapeString_quotes(s) ==
  FlattenSeq([i \in DOMAIN s |-> IF s[i] = "'" THEN <<"'", "'">> ELSE <<s[i]>>])

\* PQescapeString: a backslash and a quote are each written twice.
PQescapeString(s) ==
  FlattenSeq([i \in DOMAIN s |->
                IF s[i] \in {"\\", "'"} THEN <<s[i], s[i]>> ELSE <<s[i]>>])

\* escape_string: a buffer of 2 * len + 1 bytes and PQescapeString.
escape_string(s) == PQescapeString(s)

\* The DBI_STRING case of st_execute: a quote, the escaped string, a quote.
QuoteString(s) == <<"'">> \o escape_string(s) \o <<"'">>

\* The reading of a string literal by the PostgreSQL lexer of the time
\* (backslash escapes and doubled quotes), from the text after the opening
\* quote: the value, whether a closing quote was met, and what follows it.
RECURSIVE Literal(_, _)
Literal(t, acc) ==
  IF t = <<>> THEN [value |-> acc, closed |-> FALSE, rest |-> <<>>]
  ELSE IF Head(t) = "\\" /\ Len(t) >= 2
  THEN Literal(Tail(Tail(t)), Append(acc, t[2]))
  ELSE IF Head(t) = "'" /\ Len(t) >= 2 /\ t[2] = "'"
  THEN Literal(Tail(Tail(t)), Append(acc, "'"))
  ELSE IF Head(t) = "'"
  THEN [value |-> acc, closed |-> TRUE, rest |-> Tail(t)]
  ELSE Literal(Tail(t), Append(acc, Head(t)))

Chars == {"a", "'", "\\"}
Texts == UNION {[1..n -> Chars] : n \in 0..MaxText}

\* "insert ... values (?)" with the argument in place of the placeholder,
\* as the server reads it from the opening quote on.
ServerReads(a) == Literal(Tail(QuoteString(a) \o <<")">>), <<>>)

-----------------------------------------------------------------------------
(* Returns and exceptions. *)

client == <<sth, prepared, call, handlers, ret, ran, reported>>

\* A call the program made returns v to it.
Ret(op, h, v) ==
  /\ ret' = [op |-> op, h |-> h, how |-> "return", v |-> v]
  /\ reported' = (reported \/ v = -1)
  /\ UNCHANGED <<ran, call>>

\* finish_handle, run when the statement's pool is deleted: the result is
\* cleared; the rest of the struct goes with the pool.
finish_handle(s) == [s EXCEPT !.result = "none"]

\* disconnect, the cleanup new_db_handle registers on the pool: PQfinish;
\* the backend then rolls back the open block.
disconnect == conn' = "none" /\ txn' = "idle" /\ work' = {}

\* thread_exit after pth_exit or the end of the thread's function: deleting
\* the thread pool runs finish_handle on every statement handle and
\* disconnect on the database handle.
pth_exit(op, h) ==
  /\ handlers' = 0 /\ call' = NoCall
  /\ ret' = [op |-> op, h |-> h, how |-> "exit", v |-> -1]
  /\ sth' = [k \in Handles |-> finish_handle(sth[k])] /\ prepared' = {}
  /\ disconnect
  /\ ran' = {} /\ reported' = FALSE

\* _pth_die: jump to the innermost pth_catch, which pops its handler and
\* returns the message, or leave the thread.
pth_die(op, h) ==
  IF handlers > 0
  THEN /\ handlers' = handlers - 1 /\ call' = NoCall
       /\ ret' = [op |-> op, h |-> h, how |-> "die", v |-> -1]
       /\ reported' = TRUE
       /\ UNCHANGED <<ran, sth, prepared, conn, txn, work>>
  ELSE pth_exit(op, h)

-----------------------------------------------------------------------------
(* The calls of the program. *)

Idle == conn # "none" /\ call = NoCall /\ ops < MaxOps

\* new_db_handle: PQconnectStart, then PQconnectPoll until it is done,
\* waiting for the socket in between; the backend starts a new session.
new_db_handle ==
  /\ conn = "none" /\ call = NoCall /\ ops < MaxOps
  /\ ops' = ops + 1
  /\ \E ok \in BOOLEAN :
       /\ conn' = IF ok THEN "up" ELSE "none"
       /\ ret' = [op |-> "connect", h |-> Tmp, how |-> "return",
                  v |-> IF ok THEN 0 ELSE -1]
  /\ in_transaction' = 0 /\ seq' = FALSE
  /\ ran' = {} /\ reported' = FALSE
  /\ UNCHANGED <<throw, sth, prepared, call, handlers, faults, txn, work,
                 durable, lastExec, received>>

\* new_st_handle: a fresh handle with no result and fetching not allowed.
new_st_handle(h) ==
  /\ Idle
  /\ ops' = ops + 1
  /\ sth' = [sth EXCEPT ![h] = NoResult] /\ prepared' = prepared \cup {h}
  /\ Ret("prepare", h, 0)
  /\ UNCHANGED <<conn, in_transaction, throw, handlers, faults, srv, lastExec, received>>

\* st_execute up to the first round trip: the query text is built, and
\* with no transaction open the flag is set before BEGIN WORK is sent
\* (so that the BEGIN WORK statement does not recurse).
st_execute(h, q) ==
  /\ Idle /\ h \in prepared
  /\ ops' = ops + 1
  /\ \E a \in IF q = "write" THEN Texts ELSE {<<>>} :
       call' = [op |-> "execute", h |-> h, q |-> q, id |-> ops + 1,
                phase |-> IF in_transaction = 0 THEN "begin" ELSE "send",
                arg |-> a]
  /\ in_transaction' = 1
  /\ lastExec' = [lastExec EXCEPT ![h] = ops + 1]
  /\ UNCHANGED <<conn, throw, sth, prepared, handlers, faults, srv, ret,
                 ran, reported, received>>

\* db_commit, db_rollback and st_serial: st_execute of "commit work",
\* "rollback work" or "select currval (?)" on a new handle from
\* st_prepare_cached.
CachedStatement(op, q) ==
  /\ Idle
  /\ ops' = ops + 1
  /\ call' = [op |-> op, h |-> Tmp, q |-> q, id |-> ops + 1,
              phase |-> IF in_transaction = 0 THEN "begin" ELSE "send",
              arg |-> <<>>]
  /\ in_transaction' = 1
  /\ UNCHANGED <<conn, throw, sth, prepared, handlers, faults, srv, ret,
                 ran, reported, lastExec, received>>

db_commit   == CachedStatement("commit", "commit")
db_rollback == CachedStatement("rollback", "rollback")
st_serial   == CachedStatement("serial", "currval")

\* The rest of st_serial: st_fetch on the currval handle.  After a failed
\* st_execute (errors not thrown) that handle has no row to fetch, st_fetch
\* returns -1, the test !st_fetch (...) is false, and st_serial returns
\* its variable serial, never assigned: any int the stack held.
serial_tail(v) ==
  /\ \E g \in IF v >= 0 THEN {1} ELSE -1..1 :
       ret' = [op |-> "serial", h |-> Tmp, how |-> "return", v |-> g]
  /\ reported' = (reported \/ ret'.v = -1)
  /\ UNCHANGED ran

\* A fault: db_commit and db_rollback returning without clearing the flag.
ExecReturn_keepflag(v, flag) ==
  /\ call' = NoCall
  /\ IF call.op = "serial" THEN serial_tail(v) /\ in_transaction' = flag
     ELSE IF call.op = "execute"
     THEN /\ ret' = [op |-> "execute", h |-> call.h, how |-> "return", v |-> v]
          /\ ran' = IF call.q = "write" /\ v >= 0 THEN ran \cup {call.id} ELSE ran
          /\ reported' = (reported \/ v = -1)
          /\ in_transaction' = flag
     ELSE /\ ret' = [op |-> call.op, h |-> Tmp, how |-> "return", v |-> 0]
          /\ in_transaction' = flag
          /\ ran' = {} /\ reported' = FALSE

\* st_execute returns v to its caller; db_commit and db_rollback ignore it,
\* clear the flag and return.
ExecReturn(v, flag) ==
  /\ call' = NoCall
  /\ IF call.op = "serial" THEN serial_tail(v) /\ in_transaction' = flag
     ELSE IF call.op = "execute"
     THEN /\ ret' = [op |-> "execute", h |-> call.h, how |-> "return", v |-> v]
          /\ ran' = IF call.q = "write" /\ v >= 0 THEN ran \cup {call.id} ELSE ran
          /\ reported' = (reported \/ v = -1)
          /\ in_transaction' = flag
     ELSE /\ ret' = [op |-> call.op, h |-> Tmp, how |-> "return", v |-> 0]
          /\ in_transaction' = 0
          /\ ran' = {} /\ reported' = FALSE

\* The BEGIN WORK round trip: any status but PGRES_COMMAND_OK, or a
\* connection error, is a failure of the inner st_execute.
BeginWork ==
  /\ call.phase = "begin"
  /\ \E net \in Nets :
       LET r == Exchange("begin", call.id, net) IN
       /\ SetServer(r) /\ NetAfter(net)
       /\ call' = [call EXCEPT !.phase = IF r.status = "cmd" THEN "send"
                                                            ELSE "bw_error"]
  /\ UNCHANGED <<in_transaction, throw, sth, prepared, handlers, ops, seq,
                 ret, ran, reported, lastExec, received>>

\* The PGresult loop keeps the last result in sth->result; its status
\* decides whether fetching is allowed.  An error result leaves
\* fetch_allowed as it was.
NewResult(s, st, n, id) ==
  [result |-> st, nrows |-> IF st = "tuples" THEN n ELSE 0, qid |-> id,
   fetch_allowed |-> CASE st = "cmd"    -> 0
                       [] st = "tuples" -> 1
                       [] OTHER         -> s.fetch_allowed,
   next_tuple |-> IF st = "tuples" THEN 0 ELSE s.next_tuple]

\* The query round trip: PQsendQuery, then PQflush, pth_wait_readable and
\* PQconsumeInput while PQisBusy, then PQgetResult until it is null.  A
\* connection error returns before any result is stored.
SendQuery ==
  /\ call.phase = "send"
  /\ \E net \in Nets, n \in IF call.q = "currval" THEN {1} ELSE 0..MaxRows :
       LET r  == Exchange(call.q, call.id, net)
           st == r.status
       IN /\ SetServer(r) /\ NetAfter(net)
          /\ seq' = (seq \/ (call.q = "write" /\ net \in {"ok", "lost"}
                            /\ Serve(call.q, call.id).status = "cmd"))
          /\ received' = IF call.q = "write" /\ net \in {"ok", "lost"}
                         THEN [arg |-> call.arg, read |-> ServerReads(call.arg)]
                         ELSE received
          /\ sth' = IF call.h = Tmp \/ st = "connerr" THEN sth
                    ELSE [sth EXCEPT ![call.h] = NewResult(@, st, n, call.id)]
          /\ IF st \in {"cmd", "tuples"}
             THEN ExecReturn(IF st = "tuples" THEN n
                             ELSE IF call.q = "write" THEN 1 ELSE 0,
                             in_transaction)
             ELSE /\ call' = [call EXCEPT !.phase = "error"]
                  /\ UNCHANGED <<in_transaction, ret, ran, reported>>
  /\ UNCHANGED <<throw, prepared, handlers, ops, lastExec>>

\* A fault: the flag test dropped, every error returned as -1.
exec_error_return ==
  /\ call.phase \in {"bw_error", "error"}
  /\ ExecReturn(-1, IF call.phase = "bw_error" THEN 0 ELSE in_transaction)
  /\ UNCHANGED <<sth, prepared, handlers, conn, txn, work>>
  /\ UNCHANGED <<throw, ops, faults, durable, seq, lastExec, received>>

\* exec_error: with DBI_THROW_ERRORS the error is thrown with pth_die,
\* otherwise st_execute returns -1.  After a failed BEGIN WORK the outer
\* st_execute first clears the flag (its inner one has already thrown
\* when errors are thrown).
exec_error ==
  /\ call.phase \in {"bw_error", "error"}
  /\ IF throw
     THEN pth_die(call.op, call.h) /\ UNCHANGED in_transaction
     ELSE /\ ExecReturn(-1, IF call.phase = "bw_error" THEN 0 ELSE in_transaction)
          /\ UNCHANGED <<sth, prepared, handlers, conn, txn, work>>
  /\ UNCHANGED <<throw, ops, faults, durable, seq, lastExec, received>>

\* A fault: the end-of-result test off by one.
st_fetch_past_end(h) ==
  /\ Idle /\ h \in prepared
  /\ ops' = ops + 1
  /\ LET s == sth[h] IN
     IF s.result = "none" \/ s.fetch_allowed = 0
     THEN IF throw THEN pth_die("fetch", h)
          ELSE /\ Ret("fetch", h, -1)
               /\ UNCHANGED <<sth, prepared, handlers, conn, txn, work>>
     ELSE /\ Ret("fetch", h, IF s.next_tuple > s.nrows THEN 0 ELSE 1)
          /\ sth' = IF s.next_tuple > s.nrows THEN sth
                    ELSE [sth EXCEPT ![h].next_tuple = @ + 1]
          /\ UNCHANGED <<prepared, handlers, conn, txn, work>>
  /\ UNCHANGED <<in_transaction, throw, faults, durable, seq, lastExec, received>>

\* st_fetch: an error without a result or with fetching not allowed, else
\* the next row (columns converted into the bound variables) or 0 at the
\* end.  The row count of an error result is 0.
st_fetch(h) ==
  /\ Idle /\ h \in prepared
  /\ ops' = ops + 1
  /\ LET s == sth[h] IN
     IF s.result = "none" \/ s.fetch_allowed = 0
     THEN IF throw THEN pth_die("fetch", h)
          ELSE /\ Ret("fetch", h, -1)
               /\ UNCHANGED <<sth, prepared, handlers, conn, txn, work>>
     ELSE /\ Ret("fetch", h, IF s.next_tuple >= s.nrows THEN 0 ELSE 1)
          /\ sth' = IF s.next_tuple >= s.nrows THEN sth
                    ELSE [sth EXCEPT ![h].next_tuple = @ + 1]
          /\ UNCHANGED <<prepared, handlers, conn, txn, work>>
  /\ UNCHANGED <<in_transaction, throw, faults, durable, seq, lastExec, received>>

\* st_fetch_all_rows: the same check, then every row of the result.
st_fetch_all_rows(h) ==
  /\ Idle /\ h \in prepared
  /\ ops' = ops + 1
  /\ LET s == sth[h] IN
     IF s.result = "none" \/ s.fetch_allowed = 0
     THEN IF throw THEN pth_die("fetch_all", h)
          ELSE /\ Ret("fetch_all", h, -1)
               /\ UNCHANGED <<sth, prepared, handlers, conn, txn, work>>
     ELSE /\ Ret("fetch_all", h, s.nrows)
          /\ UNCHANGED <<sth, prepared, handlers, conn, txn, work>>
  /\ UNCHANGED <<in_transaction, throw, faults, durable, seq, lastExec, received>>

\* st_finish: PQclear the result; fetch_allowed is left as it was.
st_finish(h) ==
  /\ Idle /\ h \in prepared
  /\ ops' = ops + 1
  /\ sth' = [sth EXCEPT ![h].result = "none"]
  /\ Ret("finish", h, 0)
  /\ UNCHANGED <<conn, in_transaction, throw, prepared, handlers, faults,
                 srv, lastExec, received>>

\* pth_catch: push a handler and run the function ...
pth_catch ==
  /\ call = NoCall /\ handlers = 0 /\ ops < MaxOps
  /\ ops' = ops + 1 /\ handlers' = 1
  /\ Ret("catch", Tmp, 0)
  /\ UNCHANGED <<conn, in_transaction, throw, sth, prepared, faults, srv,
                 lastExec, received>>

\* ... which, returning without an error, pops it again.
CatchReturn ==
  /\ call = NoCall /\ handlers = 1
  /\ handlers' = 0
  /\ Ret("catch", Tmp, 0)
  /\ UNCHANGED <<conn, in_transaction, throw, sth, prepared, ops, faults,
                 srv, lastExec, received>>

\* The thread's function returns and the thread exits.
BodyEnd ==
  /\ call = NoCall /\ handlers = 0 /\ conn # "none"
  /\ pth_exit("body_end", Tmp)
  /\ UNCHANGED <<in_transaction, throw, ops, faults, durable, seq, lastExec, received>>

\* The program has made all its calls and its thread has ended.
Done ==
  /\ ops = MaxOps /\ conn = "none" /\ call = NoCall
  /\ UNCHANGED vars

Next ==
  \/ new_db_handle \/ db_commit \/ db_rollback \/ st_serial
  \/ \E h \in Handles :
       \/ new_st_handle(h) \/ st_fetch(h) \/ st_fetch_all_rows(h)
       \/ st_finish(h)
       \/ \E q \in Queries : st_execute(h, q)
  \/ BeginWork \/ SendQuery \/ exec_error
  \/ pth_catch \/ CatchReturn \/ BodyEnd \/ Done

Spec == Init /\ [][Next]_vars

-----------------------------------------------------------------------------
(* Properties. *)

\* The refinement mapping: the open transaction of the abstract
\* specification is the server's block while it is active; an aborted
\* block will only be rolled back.
Abs == INSTANCE DbiTxn WITH pending <- IF txn = "active" THEN work ELSE {}

\* Every write the program runs through st_execute, db_commit and
\* db_rollback becomes durable only at a COMMIT, together with the rest of
\* its transaction, and is otherwise thrown away with it: the
\* in_transaction flag kept by st_execute, db_commit and db_rollback never
\* lets a statement reach the server outside a BEGIN WORK block.
DbiTxnSpec == Abs!Spec

\* A db_commit that comes back to the program normally (no exception).
CommitReturns == call.op = "commit" /\ call' = NoCall /\ ret'.how = "return"

\* With DBI_THROW_ERRORS (the behaviour pthr_dbi.h recommends), a db_commit
\* that returns normally, in a transaction where no st_execute or st_fetch
\* reported an error to the program, has made durable every write whose
\* st_execute returned a row count: a lost connection or a refused
\* statement on the way reaches the program as an exception.
CommitKeepsWork ==
  [][throw /\ CommitReturns /\ ~reported => ran \subseteq durable']_vars

\* The same promise without the flag (checked by MC_DbiCommitSilent.cfg).
CommitKeepsWorkAnyFlags ==
  [][CommitReturns /\ ~reported => ran \subseteq durable']_vars

\* st_serial returns a value other than -1 only when the server answered
\* the currval query (checked by MC_DbiSerial.cfg).
SerialFromServer ==
  [][call.op = "serial" /\ call' = NoCall /\ ret'.how = "return"
     /\ ret'.v # -1 => call.phase = "send"]_vars

\* A row that st_fetch returns comes from the result of the last
\* st_execute on that handle (checked by MC_DbiStaleFetch.cfg).
FetchCurrent ==
  [][\A h \in Handles :
       (call = NoCall /\ call' = NoCall /\ ops' = ops + 1
        /\ ret'.op = "fetch" /\ ret'.h = h /\ ret'.v = 1)
       => sth[h].qid = lastExec[h]]_vars

\* Every string a program passes for a DBI_STRING placeholder reaches the
\* server as exactly one literal with exactly that value: the quoting of
\* st_execute and PQescapeString leave no way for the text to end the
\* literal early and go on as SQL.
QuoteRoundTrip ==
  received # NoReceived =>
    /\ received.read.closed
    /\ received.read.value = received.arg
    /\ received.read.rest = <<")">>
=============================================================================
