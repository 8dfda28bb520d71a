-------------------------------- MODULE IOLib --------------------------------
(***************************************************************************)
(* The buffered I/O handle of src/src/pthr_iolib.c, used by one fiber on  *)
(* one non-blocking socket.  Bytes are numbered: the k-th byte the fiber   *)
(* hands to the library (io_fputc, io_fwrite) is k, and the k-th byte of   *)
(* the peer's stream is k, so a sequence of bytes says where each came     *)
(* from.  inbuf is the input buffer, inbufpos and inbuflen are pos and     *)
(* len; outbuf holds [outbuf, outbufpos), and sent is cptr - outbuf of the *)
(* _flush in progress.                                                     *)
(*                                                                         *)
(* The library's loops call pth_read and pth_write: a read or write        *)
(* syscall moves some bytes, reaches EOF, fails, or returns EWOULDBLOCK,   *)
(* and then block suspends the fiber until the reactor resumes it, either  *)
(* because the socket is ready (the call is retried) or because the        *)
(* fiber's watchdog fired (pth_timeout; block calls pth_exit).  pth_exit,  *)
(* and _err, which calls it, end the fiber: thread_trampoline deletes its  *)
(* pool and the handle's subpool cleanup, _do_close, flushes and closes.   *)
(* The writes of one loop up to its next suspension are one step.          *)
(***************************************************************************)
EXTENDS Integers, Sequences, SequencesExt

CONSTANTS InSize,    \* IOLIB_INPUT_BUFFER_SIZE (1024 in the code)
          OutSize,   \* IOLIB_OUTPUT_BUFFER_SIZE (1024 in the code)
          InLen,     \* bytes the peer sends before it closes
          MaxChunk,  \* largest n passed to io_fread and io_fwrite
          MaxOps     \* library calls the fiber makes before io_fclose

ASSUME /\ InSize \in Nat \ {0} /\ OutSize \in Nat \ {0}
       /\ InLen \in Nat /\ MaxChunk \in Nat \ {0} /\ MaxOps \in Nat

Modes == {"line", "unbuffered", "full"}   \* IO_MODE_*

Upto(n) == [k \in 1..n |-> k]

VARIABLES pc,       \* where the fiber is: "app" (between library calls),
                    \* "flush" (in _flush (io, 0)), "putc" (io_fputc's
                    \* again), "fwrite", "fgetc" (io_fgetc's next),
                    \* "fread", "freadsock" (io_fread's socket loop),
                    \* "cleanup" (_do_close's _flush (io, 1)), "closed",
                    \* "reexit" (pth_exit inside the pool teardown)
          after,    \* where _flush (io, 0) returns to
          arg,      \* io_fputc's c is '\n' (1 or 0); io_fread's n left
          rem,      \* io_fwrite's n left
          blocked,  \* suspended in block
          alarmed,  \* current_pth->alarm_received
          outbuf, sent, mode, wire, nw,
          broken,   \* a write on the socket failed
          inbuf, pos, len, sock, got,
          ops

ctl == <<pc, after, arg, rem, blocked, alarmed>>
outv == <<outbuf, sent, mode, wire, nw, broken>>
inv == <<inbuf, pos, len, sock, got>>
vars == <<ctl, outv, inv, ops>>

TypeOK ==
  /\ pc \in {"app", "flush", "putc", "fwrite", "fgetc", "fread", "freadsock",
             "cleanup", "closed", "reexit"}
  /\ after \in {"app", "putc", "fwrite", "fgetc", "fread"}
  /\ arg \in 0..MaxChunk /\ rem \in 0..MaxChunk
  /\ blocked \in BOOLEAN /\ alarmed \in BOOLEAN
  /\ outbuf \in Seq(Nat) /\ Len(outbuf) <= OutSize /\ sent \in 0..Len(outbuf)
  /\ mode \in Modes /\ wire \in Seq(Nat) /\ nw \in Nat /\ broken \in BOOLEAN
  /\ inbuf \in [0..InSize - 1 -> 0..InLen]
  /\ pos \in 0..InSize /\ len \in 0..InSize - pos
  /\ sock \in 0..InLen /\ got \in Seq(1..InLen)
  /\ ops \in 0..MaxOps

\* io_fdopen: empty buffers (inbufpos at the end of inbuf, "to let ungetc
\* work"), line buffered; pmalloc leaves inbuf's content undefined, and
\* no property reads it.
Init ==
  /\ pc = "app" /\ after = "app" /\ arg = 0 /\ rem = 0
  /\ blocked = FALSE /\ alarmed = FALSE
  /\ outbuf = <<>> /\ sent = 0 /\ mode = "line" /\ wire = <<>> /\ nw = 0
  /\ broken = FALSE
  /\ inbuf = [j \in 0..InSize - 1 |-> 0] /\ pos = InSize /\ len = 0
  /\ sock = 0 /\ got = <<>>
  /\ ops = 0

\* pth_exit from the fiber: the pool is deleted and _do_close flushes
\* what outbufpos says is buffered, from outbuf, with errors ignored.
Teardown ==
  /\ pc' = IF outbuf # <<>> THEN "cleanup" ELSE "closed"
  /\ sent' = 0 /\ blocked' = FALSE

-----------------------------------------------------------------------------
(* Library calls. *)

\* io_fputc (c): store c if outbuffree > 0, then flush if unbuffered or
\* line buffered and c is '\n'; else flush and go to again.
Putc(nl) ==
  LET room == Len(outbuf) < OutSize
      now  == mode = "unbuffered" \/ (mode = "line" /\ nl = 1)
  IN  /\ outbuf' = IF room THEN Append(outbuf, nw + 1) ELSE outbuf
      /\ nw' = IF room THEN nw + 1 ELSE nw
      /\ pc' = IF room /\ ~now THEN "app" ELSE "flush"
      /\ after' = IF room THEN "app" ELSE "putc"
      /\ arg' = nl
      /\ UNCHANGED <<rem, blocked, alarmed, sent, mode, wire, broken, inv>>

\* io_fflush, and the io_fflush at the start of io_fwrite, io_fgetc and
\* io_fread: _flush (io, 0) if outbufpos > outbuf, then go on at next.
FlushThen(next) ==
  /\ pc' = IF outbuf # <<>> THEN "flush" ELSE next
  /\ after' = next

Fputc == \E nl \in {0, 1} : Putc(nl)

\* io_fputc's again, after the flush that made room.
PutcAgain ==
  /\ pc = "putc"
  /\ Putc(arg)
  /\ UNCHANGED ops

Fflush ==
  /\ FlushThen("app")
  /\ UNCHANGED <<arg, rem, blocked, alarmed, outv, inv>>

\* A fault: io_fwrite without its io_fflush.
io_fwrite_noflush(n) ==
  /\ pc' = "fwrite" /\ after' = "fwrite"
  /\ rem' = n /\ nw' = nw + n
  /\ UNCHANGED <<arg, blocked, alarmed, outbuf, sent, mode, wire, broken, inv>>

\* io_fwrite (ptr, 1, n): flush the buffer, then write the n bytes
\* directly to the socket.
io_fwrite(n) ==
  /\ FlushThen("fwrite")
  /\ rem' = n /\ nw' = nw + n
  /\ UNCHANGED <<arg, blocked, alarmed, outbuf, sent, mode, wire, broken, inv>>

Fgetc ==
  /\ FlushThen("fgetc")
  /\ UNCHANGED <<arg, rem, blocked, alarmed, outv, inv>>

Fread(n) ==
  /\ FlushThen("fread") /\ arg' = n
  /\ UNCHANGED <<rem, blocked, alarmed, outv, inv>>

\* A fault: io_ungetc testing inbufpos >= inbuf.
io_ungetc_ge(c) ==
  /\ pos >= 0
  /\ inbuf' = [inbuf EXCEPT ![pos - 1] = c]
  /\ pos' = pos - 1 /\ len' = len + 1 /\ got' = Front(got)
  /\ UNCHANGED sock

\* io_ungetc (c) with c the last byte read, as its callers (io_copy) use
\* it: if inbufpos > inbuf, put it back in front of the buffer; else
\* return -1 and change nothing.
io_ungetc(c) ==
  IF pos > 0
  THEN /\ inbuf' = [inbuf EXCEPT ![pos - 1] = c]
       /\ pos' = pos - 1 /\ len' = len + 1 /\ got' = Front(got)
       /\ UNCHANGED sock
  ELSE UNCHANGED inv

Ungetc ==
  /\ got # <<>>
  /\ io_ungetc(Last(got))
  /\ UNCHANGED <<ctl, outv>>

Setbufmode ==
  /\ \E m \in Modes : mode' = m
  /\ UNCHANGED <<ctl, outbuf, sent, wire, nw, broken, inv>>

\* One library call of the application.
Call ==
  /\ pc = "app" /\ ops < MaxOps
  /\ ops' = ops + 1
  /\ \/ Fputc \/ Fflush \/ Fgetc \/ Ungetc \/ Setbufmode
     \/ \E n \in 1..MaxChunk : io_fwrite(n) \/ Fread(n)

\* io_fclose: deleting the handle's subpool runs _do_close, which flushes
\* with errors ignored and closes the socket.  The fiber's run returning
\* does the same through thread_trampoline's delete_pool.
Close ==
  /\ pc = "app"
  /\ pc' = IF outbuf # <<>> THEN "cleanup" ELSE "closed"
  /\ UNCHANGED <<after, arg, rem, blocked, alarmed, ops, outv, inv>>

-----------------------------------------------------------------------------
(* The loops over pth_write and pth_read, one step per run of writes or   *)
(* reads up to a suspension or the loop's end.                             *)

\* _flush (io, ignore): write calls accept k more bytes from cptr; then
\* the loop ends (n == 0: reset the buffer and return), or write says
\* EWOULDBLOCK and pth_write blocks, or write fails: _err and pth_exit,
\* or with ignore_errors a break and the reset.  A failed write leaves
\* the connection broken: every later write fails.
FlushWrite ==
  /\ pc \in {"flush", "cleanup"} /\ ~blocked
  /\ \E k \in 0..(IF broken THEN 0 ELSE Len(outbuf) - sent) :
       LET done == sent + k = Len(outbuf)
       IN  /\ wire' = wire \o SubSeq(outbuf, sent + 1, sent + k)
           /\ \/ /\ done
                 /\ outbuf' = <<>> /\ sent' = 0 /\ blocked' = FALSE
                 /\ pc' = IF pc = "cleanup" THEN "closed" ELSE after
                 /\ UNCHANGED broken
              \/ /\ ~done /\ ~broken
                 /\ sent' = sent + k /\ blocked' = TRUE
                 /\ UNCHANGED <<pc, outbuf, broken>>
              \/ /\ ~done /\ pc = "flush" /\ broken' = TRUE
                 /\ Teardown /\ UNCHANGED outbuf
              \/ /\ ~done /\ pc = "cleanup" /\ broken' = TRUE
                 /\ outbuf' = <<>> /\ sent' = 0 /\ blocked' = FALSE
                 /\ pc' = "closed"
  /\ UNCHANGED <<after, arg, rem, alarmed, mode, nw, inv, ops>>

\* io_fwrite's loop: write calls accept k of the rem bytes left; the
\* loop ends, or pth_write blocks, or write fails and _err exits.
DirectWrite ==
  /\ pc = "fwrite" /\ ~blocked
  /\ \E k \in 0..(IF broken THEN 0 ELSE rem) :
       /\ wire' = wire \o [j \in 1..k |-> nw - rem + j]
       /\ rem' = rem - k
       /\ \/ k = rem /\ pc' = "app" /\ UNCHANGED <<blocked, sent, broken>>
          \/ k < rem /\ ~broken /\ blocked' = TRUE
             /\ UNCHANGED <<pc, sent, broken>>
          \/ k < rem /\ broken' = TRUE /\ Teardown
  /\ UNCHANGED <<after, arg, alarmed, outbuf, mode, nw, inv, ops>>

\* io_fgetc at next: return the byte at inbufpos if inbuflen > 0; else
\* pth_read (inbuf, InSize) refills the buffer with r > 0 bytes and next
\* returns the first, or returns 0 at EOF (io_fgetc returns -1), or
\* blocks, or fails and _err exits.
FgetcNext ==
  /\ pc = "fgetc" /\ ~blocked
  /\ IF len > 0
     THEN /\ got' = Append(got, inbuf[pos])
          /\ pos' = pos + 1 /\ len' = len - 1 /\ pc' = "app"
          /\ UNCHANGED <<inbuf, sock, blocked, sent>>
     ELSE \/ /\ sock < InLen
             /\ \E r \in 1..InSize :
                  /\ r <= InLen - sock
                  /\ inbuf' = [j \in 0..InSize - 1 |->
                                 IF j < r THEN sock + 1 + j ELSE inbuf[j]]
                  /\ got' = Append(got, sock + 1)
                  /\ pos' = 1 /\ len' = r - 1 /\ sock' = sock + r
             /\ pc' = "app" /\ UNCHANGED <<blocked, sent>>
          \/ /\ sock = InLen
             /\ pos' = 0 /\ len' = 0 /\ pc' = "app"
             /\ UNCHANGED <<inbuf, sock, got, blocked, sent>>
          \/ sock < InLen /\ blocked' = TRUE /\ UNCHANGED <<pc, inv, sent>>
          \/ Teardown /\ UNCHANGED inv
  /\ UNCHANGED <<after, arg, rem, alarmed, outbuf, mode, wire, nw, broken, ops>>

\* A fault: io_fread that copies from the buffer without moving inbufpos.
FreadBuffer_keep ==
  /\ pc = "fread"
  /\ LET i == IF arg > len THEN len ELSE arg
     IN  /\ got' = got \o [j \in 1..i |-> inbuf[pos + j - 1]]
         /\ len' = len - i /\ arg' = arg - i
         /\ pc' = IF arg - i > 0 THEN "freadsock" ELSE "app"
  /\ UNCHANGED <<inbuf, pos, sock, after, rem, blocked, alarmed, outv, ops>>

\* io_fread after its io_fflush: take min (n, inbuflen) bytes from the
\* buffer, then read the rest from the socket.
FreadBuffer ==
  /\ pc = "fread"
  /\ LET i == IF arg > len THEN len ELSE arg
     IN  /\ got' = got \o [j \in 1..i |-> inbuf[pos + j - 1]]
         /\ pos' = pos + i /\ len' = len - i /\ arg' = arg - i
         /\ pc' = IF arg - i > 0 THEN "freadsock" ELSE "app"
  /\ UNCHANGED <<inbuf, sock, after, rem, blocked, alarmed, outv, ops>>

\* io_fread's loop: pth_read into the caller's buffer returns r > 0
\* bytes, or 0 at EOF (io_fread returns short), or blocks, or fails.
FreadSock ==
  /\ pc = "freadsock" /\ ~blocked
  /\ \/ /\ sock < InLen
        /\ \E r \in 1..arg :
             /\ r <= InLen - sock
             /\ got' = got \o [j \in 1..r |-> sock + j]
             /\ sock' = sock + r /\ arg' = arg - r
             /\ pc' = IF arg - r > 0 THEN "freadsock" ELSE "app"
        /\ UNCHANGED <<blocked, sent>>
     \/ sock = InLen /\ pc' = "app" /\ arg' = 0
        /\ UNCHANGED <<sock, got, blocked, sent>>
     \/ sock < InLen /\ blocked' = TRUE /\ UNCHANGED <<pc, arg, sock, got, sent>>
     \/ Teardown /\ UNCHANGED <<arg, sock, got>>
  /\ UNCHANGED <<inbuf, pos, len, after, rem, alarmed, outbuf, mode, wire,
                 nw, broken, ops>>

-----------------------------------------------------------------------------
(* Resumption of a fiber suspended in block. *)

\* The socket's readiness callback resumes the fiber; block unregisters,
\* finds alarm_received clear, and the syscall is retried.  In the
\* teardown of a fiber that the watchdog ended, alarm_received is still
\* set, and block calls pth_exit again inside thread_trampoline's
\* delete_pool.
Ready ==
  /\ blocked
  /\ IF alarmed /\ pc = "cleanup"
     THEN pc' = "reexit" /\ UNCHANGED blocked
     ELSE blocked' = FALSE /\ UNCHANGED pc
  /\ UNCHANGED <<after, arg, rem, alarmed, ops, outv, inv>>

\* The watchdog set by pth_timeout fires (return_from_alarm sets
\* alarm_received) while the fiber is suspended in block: block calls
\* pth_exit.
Alarm ==
  /\ blocked /\ ~alarmed /\ pc # "cleanup"
  /\ alarmed' = TRUE
  /\ Teardown
  /\ UNCHANGED <<after, arg, rem, ops, outbuf, mode, wire, nw, broken, inv>>

Done == pc \in {"closed", "reexit"} /\ UNCHANGED vars

Next ==
  \/ Call \/ PutcAgain \/ Close \/ FlushWrite \/ DirectWrite \/ FgetcNext
  \/ FreadBuffer \/ FreadSock \/ Ready \/ Alarm \/ Done

Spec == Init /\ [][Next]_vars

-----------------------------------------------------------------------------
(* Properties. *)

\* The bytes handed to the library and not yet on the wire: the rest of
\* the buffer from cptr, then what io_fwrite has still to write.
Pending == SubSeq(outbuf, sent + 1, Len(outbuf)) \o [j \in 1..rem |-> nw - rem + j]

\* The bytes in the input buffer from inbufpos.
Unread == [j \in 1..len |-> inbuf[pos + j - 1]]

\* Until the fiber's pool is torn down, every byte handed to io_fputc or
\* io_fwrite is on the wire or still pending, once, in the order written,
\* whatever partial writes, suspensions, mode changes and direct writes
\* came between.
OutputAccounted ==
  pc \notin {"cleanup", "closed", "reexit"} => wire \o Pending = Upto(nw)

\* The bytes io_fgetc and io_fread returned, followed by those left in the
\* input buffer, are the stream read from the socket so far, in order:
\* refills, short reads, reads that bypass the buffer and io_ungetc lose,
\* repeat or reorder nothing.
InputAccounted == got \o Unread = Upto(sock)

\* A byte is written to the socket at most once, also by the flush of the
\* pool teardown that follows pth_exit.
NoByteSentTwice == IsInjective(wire)
=============================================================================
