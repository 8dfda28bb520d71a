------------------------------ MODULE FtpClient ------------------------------
(***************************************************************************)
(* The FTP client of src/src/pthr_ftpc.c, one fiber holding one ftpc,      *)
(* against a server that follows RFC 959.                                  *)
(*                                                                         *)
(* The control connection is two FIFO channels: `ctl` carries the client's *)
(* commands, `rep` the server's reply lines.  Every command carries a tag, *)
(* the number of commands sent before it plus one (the greeting has tag    *)
(* 0), and every reply line the tag of the command it answers.  A reply is *)
(* one final line "xyz text" with an optional "xyz-text" line before it;   *)
(* only the class x of its code matters to the client (IS_1xx ...).        *)
(*                                                                         *)
(* The client runs one library call at a time.  It is suspended where      *)
(* pthr_ftpc.c blocks: in eat_reply's io_fgets, in open_data's             *)
(* pth_connect or pth_accept, and in the data loops.  Of the calls that    *)
(* issue one command and test its class (ftpc_type, ftpc_cwd, ftpc_cdup,   *)
(* ftpc_pwd, ftpc_mkdir, ftpc_rmdir, ftpc_delete, ftpc_quote) the model    *)
(* has one, SimpleCommand.  ftpc_ls stands for ftpc_dir too.               *)
(***************************************************************************)
EXTENDS Naturals, Sequences

CONSTANTS MaxCalls   \* library calls after new_ftpc

Xfers == {"ls", "get", "put"}
XferCmd == [ls |-> "NLST", get |-> "RETR", put |-> "STOR"]
Cmds == {"USER", "PASS", "CWD", "PASV", "PORT", "NLST", "RETR", "STOR", "QUIT"}
Tags == 0..2 * MaxCalls + 1

\* The states in which the client is in eat_reply.
Waiting == {"greet", "user", "pass", "simple", "port", "xfer", "final", "quit"}

VARIABLES
  cpc,      \* where the client fiber is
  op,       \* the library call in progress
  calls,    \* library calls made
  passive,  \* f->passive_mode
  nsent,    \* commands sent on the control connection
  ctl,      \* commands in flight to the server
  rep,      \* reply lines in flight to the client
  dsock,    \* the client's last data socket: "none" (closed), "open" (not
            \* connected), "conn", "leaked" (open, and no longer used)
  leaked,   \* data sockets never closed
  dconn,    \* the data connection: "none", "open", "eof" (server closed it),
            \* "cclosed" (client closed it)
  srv,      \* the server: "init", "idle", "await" (data connection), "closed"
  scur,     \* the transfer command the server is serving
  sready    \* the server has a passive listener or a PORT address

vars == <<cpc, op, calls, passive, nsent, ctl, rep, dsock, leaked, dconn,
          srv, scur, sready>>
srvVars == <<srv, scur, sready>>

Line == [tag : Tags, cls : 1..5, last : BOOLEAN]

TypeOK ==
  /\ cpc \in Waiting \cup {"ready", "opendata", "data", "done"}
  /\ op \in Xfers \cup {"none", "login", "simple", "quit"}
  /\ calls \in 0..MaxCalls
  /\ passive \in BOOLEAN
  /\ nsent \in Tags
  /\ ctl \in Seq([tag : Tags, cmd : Cmds])
  /\ rep \in Seq(Line)
  /\ dsock \in {"none", "open", "conn", "leaked"}
  /\ leaked \in 0..MaxCalls
  /\ dconn \in {"none", "open", "eof", "cclosed"}
  /\ srv \in {"init", "idle", "await", "closed"}
  /\ scur \in [tag : Tags, cmd : Cmds]
  /\ sready \in BOOLEAN

\* The lines of a reply of class cls to the command tagged tag.
Reply(tag, cls) ==
  { <<[tag |-> tag, cls |-> cls, last |-> TRUE]>>,
    <<[tag |-> tag, cls |-> cls, last |-> FALSE],
      [tag |-> tag, cls |-> cls, last |-> TRUE]>> }

\* new_ftpc has connected and waits for the greeting; the program calls
\* ftpc_set_passive_mode before anything else, or never.
Init ==
  /\ cpc = "greet"
  /\ op = "none"
  /\ calls = 0
  /\ passive \in BOOLEAN
  /\ nsent = 0
  /\ ctl = <<>>
  /\ rep = <<>>
  /\ dsock = "none"
  /\ leaked = 0
  /\ dconn = "none"
  /\ srv = "init"
  /\ scur = [tag |-> 0, cmd |-> "QUIT"]
  /\ sready = FALSE

-----------------------------------------------------------------------------
(* The client *)

\* do_command up to eat_reply: io_fprintf (f->io, "%s %s\r\n", ...), which
\* io_fgets flushes before it blocks.
do_command(cmd, next) ==
  /\ ctl' = Append(ctl, [tag |-> nsent + 1, cmd |-> cmd])
  /\ nsent' = nsent + 1
  /\ cpc' = next

\* A library call begins.
Call(o) ==
  /\ cpc = "ready"
  /\ calls < MaxCalls
  /\ op' = o
  /\ calls' = calls + 1

\* ftpc_login: USER (the password follows once the server asks for it).
ftpc_login ==
  /\ Call("login")
  /\ do_command("USER", "user")
  /\ UNCHANGED <<passive, rep, dsock, leaked, dconn, srvVars>>

\* ftpc_cwd and its kind: one command, 0 if the reply is 2xx, else -1.
SimpleCommand ==
  /\ Call("simple")
  /\ do_command("CWD", "simple")
  /\ UNCHANGED <<passive, rep, dsock, leaked, dconn, srvVars>>

\* ftpc_ls, ftpc_get, ftpc_put begin with issue_port_or_pasv: a new data
\* socket, then PASV, or PORT with the socket's address.
XferStart(o) ==
  /\ Call(o)
  /\ dsock' = "open"
  /\ do_command(IF passive THEN "PASV" ELSE "PORT", "port")
  /\ UNCHANGED <<passive, rep, leaked, dconn, srvVars>>

\* ftpc_quit: QUIT, then io_fclose whatever the reply.
ftpc_quit ==
  /\ Call("quit")
  /\ do_command("QUIT", "quit")
  /\ UNCHANGED <<passive, rep, dsock, leaked, dconn, srvVars>>

\* A return that leaves the data socket open (and, in active mode,
\* listening at the address the server was given).
Leak == dsock' = "leaked" /\ leaked' = leaked + 1

\* new_ftpc after eat_reply: IS_NOT_2xx (code) -> return 0.
new_ftpc_reply(c) ==
  /\ cpc' = IF c = 2 THEN "ready" ELSE "done"
  /\ UNCHANGED <<ctl, nsent, dsock, leaked>>

\* ftpc_login after USER: IS_NOT_3xx (code) -> return -1, else PASS.
ftpc_login_reply(c) ==
  /\ IF c = 3 THEN do_command("PASS", "pass")
              ELSE cpc' = "ready" /\ UNCHANGED <<ctl, nsent>>
  /\ UNCHANGED <<dsock, leaked>>

\* issue_port_or_pasv after PASV or PORT: IS_NOT_2xx (code) -> return -1
\* without close (data_sock); then the caller's transfer command.
port_reply(c) ==
  IF c = 2 THEN do_command(XferCmd[op], "xfer") /\ UNCHANGED <<dsock, leaked>>
  ELSE Leak /\ cpc' = "ready" /\ UNCHANGED <<ctl, nsent>>

\* ftpc_get after RETR (ftpc_put, ftpc_ls alike): IS_NOT_1xx (code) ->
\* close (data_sock), return -1.  Then fopen the local file; when it
\* fails, return -1, leaving data_sock open and the transfer's reply
\* unread.
xfer_reply(c) ==
  /\ IF c # 1 THEN dsock' = "none" /\ cpc' = "ready" /\ UNCHANGED leaked
     ELSE \E opened \in IF op \in {"get", "put"} THEN BOOLEAN ELSE {TRUE} :
            IF opened THEN cpc' = "opendata" /\ UNCHANGED <<dsock, leaked>>
            ELSE Leak /\ cpc' = "ready"
  /\ UNCHANGED <<ctl, nsent>>

\* The calls that return as soon as eat_reply has (PASS, the simple
\* commands, the end of a transfer); ftpc_quit then io_fclose (f->io).
return_reply ==
  /\ cpc' = IF cpc = "quit" THEN "done" ELSE "ready"
  /\ UNCHANGED <<ctl, nsent, dsock, leaked>>

\* Where the code eat_reply returns (class c) goes.
OnReply(c) ==
  CASE cpc = "greet" -> new_ftpc_reply(c)
    [] cpc = "user"  -> ftpc_login_reply(c)
    [] cpc = "port"  -> port_reply(c)
    [] cpc = "xfer"  -> xfer_reply(c)
    [] OTHER         -> return_reply

\* eat_reply: one io_fgets; a "xyz-" line is skipped, the "xyz " line ends
\* the reply and its code is returned.
eat_reply ==
  /\ cpc \in Waiting
  /\ rep # <<>>
  /\ rep' = Tail(rep)
  /\ IF Head(rep).last THEN OnReply(Head(rep).cls)
     ELSE UNCHANGED <<cpc, ctl, nsent, dsock, leaked>>
  /\ UNCHANGED <<op, calls, passive, dconn, srvVars>>

\* open_data in passive mode: pth_connect to the server's PASV port, which
\* fails (close (data_sock), return 0) when the server no longer listens.
ConnectData ==
  /\ cpc = "opendata"
  /\ passive
  /\ IF sready
     THEN dsock' = "conn" /\ dconn' = "open" /\ cpc' = "data"
     ELSE dsock' = "none" /\ cpc' = "ready" /\ UNCHANGED dconn
  /\ UNCHANGED <<op, calls, passive, nsent, ctl, rep, leaked, srvVars>>

\* open_data in active mode: pth_accept waits, with no timeout, until the
\* server connects (it may already have sent everything and closed); the
\* listening socket is closed and the new one used.
AcceptData ==
  /\ cpc = "opendata"
  /\ ~passive
  /\ dconn \in {"open", "eof"}
  /\ dsock' = "conn"
  /\ cpc' = "data"
  /\ UNCHANGED <<op, calls, passive, nsent, ctl, rep, leaked, dconn, srvVars>>

\* The loops of ftpc_ls and ftpc_get read until end of file.  fwrite to the
\* local file may fail: ftpc_get closes both and returns -1 without
\* eat_reply.  Otherwise io_fclose, then eat_reply.
ReadData ==
  /\ cpc = "data"
  /\ op \in {"ls", "get"}
  /\ dconn = "eof"
  /\ dsock' = "none"
  /\ dconn' = "none"
  /\ \E written \in IF op = "get" THEN BOOLEAN ELSE {TRUE} :
       cpc' = IF written THEN "final" ELSE "ready"
  /\ UNCHANGED <<op, calls, passive, nsent, ctl, rep, leaked, srvVars>>

\* The loop of ftpc_put: io_fwrite every block (a write error ends the
\* fiber in _err), io_fclose, then eat_reply.
WriteData ==
  /\ cpc = "data"
  /\ op = "put"
  /\ dconn = "open"
  /\ dsock' = "none"
  /\ dconn' = "cclosed"
  /\ cpc' = "final"
  /\ UNCHANGED <<op, calls, passive, nsent, ctl, rep, leaked, srvVars>>

-----------------------------------------------------------------------------
(* The server, RFC 959: it serves the commands one at a time, in order.    *)

\* Send the greeting: 220, or 421 (service not available).
SrvGreet ==
  /\ srv = "init"
  /\ \E cls \in {2, 4} : \E lines \in Reply(0, cls) : rep' = rep \o lines
  /\ srv' = "idle"
  /\ UNCHANGED <<cpc, op, calls, passive, nsent, ctl, dsock, leaked, dconn,
                 scur, sready>>

\* The classes the server may answer a command with.
Answers(cmd) ==
  CASE cmd = "USER" -> {2, 3, 5}
    [] cmd \in {"NLST", "RETR", "STOR"} -> IF sready THEN {1, 5} ELSE {4}
    [] cmd = "QUIT" -> {2}
    [] OTHER -> {2, 5}

\* Serve the next command: reply, and for a transfer answered 150 wait for
\* the data connection; a 227 or 200 sets up the data address; QUIT ends
\* the session.
SrvCommand ==
  /\ srv = "idle"
  /\ ctl # <<>>
  /\ LET c == Head(ctl) IN
     \E cls \in Answers(c.cmd) :
       /\ \E lines \in Reply(c.tag, cls) : rep' = rep \o lines
       /\ srv' = CASE cls = 1 -> "await"
                  [] c.cmd = "QUIT" -> "closed"
                  [] OTHER -> "idle"
       /\ scur' = c
       /\ sready' = IF c.cmd \in {"PASV", "PORT"} THEN cls = 2 ELSE sready
  /\ ctl' = Tail(ctl)
  /\ UNCHANGED <<cpc, op, calls, passive, nsent, dsock, leaked, dconn>>

\* Active mode: the server connects to the address of the last PORT, where
\* the kernel accepts the connection if that socket is still open.
SrvConnect ==
  /\ srv = "await"
  /\ ~passive
  /\ dconn = "none"
  /\ dsock \in {"open", "leaked"}
  /\ dconn' = "open"
  /\ UNCHANGED <<cpc, op, calls, passive, nsent, ctl, rep, dsock, leaked,
                 srvVars>>

\* No data connection comes (the passive listener times out, or connect
\* fails in active mode): 425.
SrvGiveUp ==
  /\ srv = "await"
  /\ dconn = "none"
  /\ \E lines \in Reply(scur.tag, 4) : rep' = rep \o lines
  /\ srv' = "idle"
  /\ sready' = FALSE
  /\ UNCHANGED <<cpc, op, calls, passive, nsent, ctl, dsock, leaked, dconn,
                 scur>>

\* The transfer: for NLST and RETR the server sends the data and closes the
\* connection, for STOR it reads until the client has closed it; then 226,
\* or 426 when the transfer broke.
SrvTransfer ==
  /\ srv = "await"
  /\ IF scur.cmd = "STOR" THEN dconn = "cclosed" ELSE dconn = "open"
  /\ dconn' = IF scur.cmd = "STOR" THEN "none" ELSE "eof"
  /\ \E cls \in {2, 4} : \E lines \in Reply(scur.tag, cls) : rep' = rep \o lines
  /\ srv' = "idle"
  /\ sready' = FALSE
  /\ UNCHANGED <<cpc, op, calls, passive, nsent, ctl, dsock, leaked, scur>>

-----------------------------------------------------------------------------
Done == cpc = "done" /\ UNCHANGED vars

Next ==
  \/ ftpc_login \/ SimpleCommand \/ \E o \in Xfers : XferStart(o) \/ ftpc_quit
  \/ eat_reply \/ ConnectData \/ AcceptData \/ ReadData \/ WriteData
  \/ SrvGreet \/ SrvCommand \/ SrvConnect \/ SrvGiveUp \/ SrvTransfer
  \/ Done

Spec == Init /\ [][Next]_vars

ClientStep ==
  \/ eat_reply \/ ConnectData \/ AcceptData \/ ReadData \/ WriteData
ServerStep == SrvGreet \/ SrvCommand \/ SrvConnect \/ SrvGiveUp \/ SrvTransfer

\* The fiber runs whenever what it waits for is there, and the server
\* serves every command it has received.
FairSpec == Spec /\ WF_vars(ClientStep) /\ WF_vars(ServerStep)

-----------------------------------------------------------------------------
(* Properties *)

\* Every reply the client takes off the control connection answers the
\* last command it sent (the greeting before any): the code do_command
\* and eat_reply return is the server's verdict on that command.
ReplyMatches == [][Len(rep') < Len(rep) => Head(rep).tag = nsent]_vars

\* Every library call that has begun returns (or the session ends): no
\* wait of the client in io_fgets, pth_connect or pth_accept lasts
\* forever.
CallsReturn == [](cpc \notin {"ready", "done"} => <>(cpc \in {"ready", "done"}))
=============================================================================
