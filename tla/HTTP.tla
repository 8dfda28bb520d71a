-------------------------------- MODULE HTTP --------------------------------
(***************************************************************************)
(* One connection of the example HTTP servers: the processor fiber of      *)
(* src/examples/pthr_eg1_echo.c or src/examples/pthr_eg2_server.c running  *)
(* its request loop over the request parser and response writer of         *)
(* src/src/pthr_http.c (and, for eg1, the form parser of pthr_cgi.c), a    *)
(* client that sends a bounded number of requests, possibly pipelined, and *)
(* another process that may change the served file.                       *)
(*                                                                         *)
(* The client-to-server stream is a sequence of tokens: a body byte, or a  *)
(* whole line (request line, header line or empty line) that io_fgets      *)
(* returns without its CR LF.  Bytes not followed by a line are what       *)
(* io_fgets returns at end of file.  The I/O handle's buffering and        *)
(* suspensions are those of the IOLib module; a step here is the code a    *)
(* fiber runs between two reads of the stream or two calls of read(2) on   *)
(* the served file.  Response bytes are abstracted to the facts a client   *)
(* frames a response by: the status code, the Content-Length declared (or *)
(* none), the body bytes written and whether the server closes after it.   *)
(***************************************************************************)
EXTENDS Integers, Sequences, SequencesExt, CGI

CONSTANTS Apps,      \* the processors: a subset of {"eg1", "eg2"}
          Methods,   \* request methods the client sends (HTTP/1.x)
          Versions,  \* "1.0", "1.1", or "bad" for a malformed HTTP/x.y
          ConnHdrs,  \* values of the Connection header the client sends,
                     \* "none" for no header
          Objects,   \* the bytes naming the served objects
          Kind,      \* [Objects -> {"file", "dir"}]
          MaxSize,   \* bound on a file's size
          Values,    \* form values (byte strings) the eg1 client submits
          MaxReqs,   \* requests the client sends on the connection
          MaxWrites, \* changes the other process makes to a file
          MaxFds     \* descriptors the server process may still open

SLASH == 47
QM == 63
Name == <<118>>     \* the form field name "v"
NoCgi == <<<<-1>>>>

\* Tokens of the stream.
Byte(b) == [t |-> "byte", b |-> b]
Blank == [t |-> "blank"]
IsLine(x) == x.t # "byte"

\* The form the eg1 client submits: v=<cgi_escape (value)>.
FormData(v) == Name \o <<EQ>> \o cgi_escape(v)

Heads == {[method |-> "GET", ver |-> "0.9", conn |-> "none"]} \cup
         [method : Methods, ver : Versions, conn : ConnHdrs]

\* The requests a client sends: a GET or HEAD of the form in the query
\* string, or a POST of it as the body (with or without Content-Length,
\* and possibly, after a body with Content-Length, Netscape 4's extra
\* CR LF), for eg1; a request of
\* an object's path, with or without a trailing '/', for eg2 (a POST with
\* a one-byte body).
Req(h, u, v, bd, cl, cr) ==
  [method |-> h.method, ver |-> h.ver, conn |-> h.conn, url |-> u, value |-> v,
   body |-> bd, clen |-> cl, crlf |-> cr]

Requests(a) ==
  IF a = "eg1"
  THEN {Req(h, <<SLASH, QM>> \o FormData(v), v, <<>>, FALSE, FALSE)
          : h \in {x \in Heads : x.method # "POST"}, v \in Values}
       \cup {Req(h, <<SLASH>>, v, FormData(v), cl, cl /\ cr)
               : h \in {x \in Heads : x.method = "POST"}, v \in Values,
                 cl \in BOOLEAN, cr \in BOOLEAN}
  ELSE {Req(h, u, <<>>, IF h.method = "POST" THEN <<97>> ELSE <<>>,
            h.method = "POST", FALSE)
          : h \in Heads, u \in {<<SLASH, o>> : o \in Objects}
                            \cup {<<SLASH, o, SLASH>> : o \in Objects}}

\* The tokens of a request: request line, headers and empty line (none for
\* HTTP/0.9), body.
Encode(r) ==
  <<[t |-> "req", method |-> r.method, url |-> r.url, ver |-> r.ver]>>
  \o (IF r.ver = "0.9" THEN <<>>
      ELSE (IF r.conn = "none" THEN <<>>
            ELSE <<[t |-> "hdr", key |-> "connection", val |-> r.conn]>>)
           \o (IF r.clen THEN <<[t |-> "hdr", key |-> "content-length",
                                  val |-> Len(r.body)]>> ELSE <<>>)
           \o <<Blank>>
           \o [i \in DOMAIN r.body |-> Byte(r.body[i])]
           \o (IF r.crlf THEN <<Blank>> ELSE <<>>))

-----------------------------------------------------------------------------
VARIABLES app,    \* the processor the server runs
          in,     \* tokens sent by the client and not yet read
          eof,    \* the client has closed its side
          sent,   \* history: the requests the client sent whole
          size,   \* [Objects -> Nat]: the size of each file now
          writes, \* changes made to the files by the other process
          pc,     \* the processor: "start", "req", "hdrs", "app", "serve",
                  \* "fileio", "exited"
          req,    \* the http_request being served
          st,     \* eg2: the struct stat of the request's path
          resp,   \* the http_response last written
          cgi,    \* eg1: the cgi object of the request (NoCgi before)
          fpos,   \* eg2 serve_file: bytes read from the file
          fds,    \* descriptors the process holds beside the socket
          served  \* history: the request lines the server has accepted

vars == <<app, in, eof, sent, size, writes, pc, req, st, resp, cgi, fpos, fds, served>>

Token == [t : {"byte"}, b : 0..255] \cup {Blank}
         \cup [t : {"req"}, method : Methods \cup {"GET"}, url : Seq(0..255),
              ver : Versions \cup {"0.9"}]
         \cup [t : {"hdr"}, key : {"connection"}, val : ConnHdrs]
         \cup [t : {"hdr"}, key : {"content-length"}, val : Nat]

NoReq == [method |-> "none", url |-> <<>>, ver |-> "none",
          connection |-> "none", contentlength |-> -1]
NoResp == [code |-> 0, clen |-> -1, body |-> 0, close |-> 1, head |-> FALSE]

TypeOK ==
  /\ app \in Apps
  /\ in \in Seq(Token) /\ eof \in BOOLEAN
  /\ Len(sent) <= MaxReqs
  /\ size \in [Objects -> 0..MaxSize] /\ writes \in 0..MaxWrites
  /\ pc \in {"start", "req", "hdrs", "app", "serve", "fileio", "exited"}
  /\ st \in [kind : {"none", "file", "dir"}, size : 0..MaxSize]
  /\ resp \in [code : {0, 200, 301, 404}, clen : -1..MaxSize, body : 0..2 * MaxSize,
               close : {0, 1}, head : BOOLEAN]
  /\ fpos \in 0..MaxSize /\ fds \in 0..MaxFds /\ served \in 0..Len(sent) + 1

Init ==
  /\ app \in Apps
  /\ in = <<>> /\ eof = FALSE /\ sent = <<>>
  /\ size \in [Objects -> 0..MaxSize] /\ writes = 0
  /\ pc = "start" /\ req = NoReq /\ st = [kind |-> "none", size |-> 0]
  /\ resp = NoResp /\ cgi = NoCgi /\ fpos = 0 /\ fds = 0 /\ served = 0

-----------------------------------------------------------------------------
(* The client and the other process. *)

\* The client sends a request (pipelined behind any not yet answered).  A
\* POST without Content-Length is delimited by the end of the stream, so
\* nothing follows it.
Send ==
  /\ ~eof /\ Len(sent) < MaxReqs
  /\ sent # <<>> => ~(Last(sent).method = "POST" /\ ~Last(sent).clen)
  /\ \E r \in Requests(app) :
       /\ in' = in \o Encode(r)
       /\ sent' = Append(sent, r)
  /\ UNCHANGED <<app, eof, size, writes, pc, req, st, resp, cgi, fpos, fds, served>>

\* The client disconnects in the middle of a request: it sends the first
\* k of its tokens and closes.
ClientAbort ==
  /\ ~eof /\ Len(sent) < MaxReqs
  /\ sent # <<>> => ~(Last(sent).method = "POST" /\ ~Last(sent).clen)
  /\ \E r \in Requests(app) :
       \E k \in 1..Len(Encode(r)) - 1 :
         /\ in' = in \o SubSeq(Encode(r), 1, k)
  /\ eof' = TRUE
  /\ UNCHANGED <<app, sent, size, writes, pc, req, st, resp, cgi, fpos, fds, served>>

\* The client opens with an empty line, which RFC 2616 (4.1) asks servers
\* to ignore where a request line is expected.
SendBlank ==
  /\ ~eof /\ sent = <<>> /\ in = <<>>
  /\ in' = <<Blank>>
  /\ UNCHANGED <<app, eof, sent, size, writes, pc, req, st, resp, cgi, fpos, fds, served>>

\* The client shuts down its side of the connection.
ClientClose ==
  /\ ~eof /\ eof' = TRUE
  /\ UNCHANGED <<app, in, sent, size, writes, pc, req, st, resp, cgi, fpos, fds, served>>

\* Another process rewrites a file with a new size, at any moment.
WriteFile ==
  /\ writes < MaxWrites
  /\ \E o \in Objects, n \in 0..MaxSize :
       /\ Kind[o] = "file" /\ n # size[o]
       /\ size' = [size EXCEPT ![o] = n]
  /\ writes' = writes + 1
  /\ UNCHANGED <<app, in, eof, sent, pc, req, st, resp, cgi, fpos, fds, served>>

-----------------------------------------------------------------------------
(* The request parser of pthr_http.c. *)

Bytes(s) == [i \in DOMAIN s |-> s[i].b]

\* io_fgets (line, sizeof line, io, 0) can return: a line is in the stream,
\* or the client has closed it.
LineReady == SelectInSeq(in, IsLine) > 0 \/ eof

\* What io_fgets returns: the bytes before the first line and that line,
\* or, at end of file, the bytes left (a null return if there are none).
Fgets ==
  LET k == SelectInSeq(in, IsLine)
  IN  IF k > 0
      THEN [pre |-> Bytes(SubSeq(in, 1, k - 1)), line |-> in[k],
            rest |-> SubSeq(in, k + 1, Len(in))]
      ELSE [pre |-> Bytes(in), line |-> [t |-> "eof"], rest |-> <<>>]

\* parse_url: the path is the URL of a POST, and what comes before the
\* first '?' otherwise; the query string is what comes after it (null for
\* a POST or a URL without '?', which parse_qs treats as empty).
QmAt(u) == SelectInSeq(u, LAMBDA c : c = QM)
Path(r) == IF r.method = "POST" \/ QmAt(r.url) = 0 THEN r.url
           ELSE SubSeq(r.url, 1, QmAt(r.url) - 1)
Query(r) == IF r.method = "POST" \/ QmAt(r.url) = 0 THEN <<>>
            ELSE SubSeq(r.url, QmAt(r.url) + 1, Len(r.url))

Others == <<app, eof, sent, size, writes, st, resp, cgi, fpos, fds, served>>

\* io_fdopen (p->sock): the processor fiber starts its loop.
Start ==
  /\ pc = "start" /\ pc' = "req"
  /\ UNCHANGED <<app, in, eof, sent, size, writes, req, st, resp, cgi, fpos, fds, served>>

\* new_http_request, first line: a null return at end of file ends the
\* loop (io_fclose, pth_exit); an empty line is skipped (goto again).
RequestLineEnd ==
  /\ pc = "req" /\ LineReady
  /\ LET g == Fgets IN
       \/ g.pre = <<>> /\ g.line.t = "eof" /\ pc' = "exited" /\ in' = g.rest
       \/ g.pre = <<>> /\ g.line.t = "blank" /\ pc' = "req" /\ in' = g.rest
  /\ UNCHANGED <<req>> /\ UNCHANGED Others

\* new_http_request, request line: "GET ", "HEAD " or "POST " and a URL up
\* to the next ' '; none is HTTP/0.9 (no headers follow), otherwise
\* "HTTP/d.d" must follow.  Anything else is answered 405 or 400 and the
\* fiber dies (pth_die; no handler, so pth_exit and the pool's cleanup).
RequestLine ==
  /\ pc = "req" /\ LineReady
  /\ LET g  == Fgets
         l  == g.line
         sp == IF l.t = "req" THEN SelectInSeq(l.url, LAMBDA c : c = SP) ELSE 0
     IN  /\ in' = g.rest
         /\ ~(g.pre = <<>> /\ l.t \in {"eof", "blank"})
         /\ IF g.pre = <<>> /\ l.t = "req" /\ l.method \in {"GET", "HEAD", "POST"}
                 /\ sp = 0 /\ l.ver \in {"0.9", "1.0", "1.1"}
            THEN /\ req' = [method |-> l.method, url |-> l.url, ver |-> l.ver,
                            connection |-> "none", contentlength |-> -1]
                 /\ pc' = IF l.ver = "0.9" THEN "app" ELSE "hdrs"
                 /\ served' = served + 1
            ELSE pc' = "exited" /\ UNCHANGED <<req, served>>
  /\ UNCHANGED <<app, eof, sent, size, writes, st, resp, cgi, fpos, fds>>

\* new_http_request, header lines up to the empty line: "Key: Value" is
\* stored under the lower-cased key (a later one replaces an earlier); end
\* of file or a line without ':' is answered 400 and the fiber dies.
Header ==
  /\ pc = "hdrs" /\ LineReady
  /\ LET g == Fgets IN
       /\ in' = g.rest
       /\ \/ g.pre = <<>> /\ g.line.t = "blank" /\ pc' = "app" /\ UNCHANGED req
          \/ /\ g.line.t = "hdr" /\ pc' = "hdrs"
             /\ req' = IF g.pre # <<>> THEN req
                       ELSE IF g.line.key = "connection"
                       THEN [req EXCEPT !.connection = g.line.val]
                       ELSE [req EXCEPT !.contentlength = g.line.val]
          \/ /\ g.line.t # "hdr" /\ ~(g.pre = <<>> /\ g.line.t = "blank")
             /\ pc' = "exited" /\ UNCHANGED req
  /\ UNCHANGED Others

-----------------------------------------------------------------------------
(* Responses: new_http_response, http_response_send_headers and            *)
(* http_response_end_headers as the handlers call them in a row.  names   *)
(* is the set of header keys the handler sends itself.                    *)

(* A fault: the connection kept open whatever framing the handler chose.  *)
http_response_end_headers_nolen(r, names) ==
  IF r.ver = "0.9" \/ "Connection" \in names THEN 1
  ELSE CASE r.connection = "close"      -> 1
         [] r.connection = "keep-alive" -> 0
         [] r.connection = "none"       -> IF r.ver = "1.1" THEN 0 ELSE 1
         [] OTHER                       -> 1

\* http_response_end_headers: 1 (close) for HTTP/0.9 and when the handler
\* sent its own Connection header; otherwise "Connection: close" unless
\* the handler sent Content-Length (or chunked Transfer-Encoding) and the
\* request asked for keep-alive, or is HTTP/1.1 and did not ask to close.
http_response_end_headers(r, names) ==
  IF r.ver = "0.9" \/ "Connection" \in names THEN 1
  ELSE IF {"Content-Length", "Transfer-Encoding"} \cap names = {} THEN 1
  ELSE CASE r.connection = "close"      -> 1
         [] r.connection = "keep-alive" -> 0
         [] r.connection = "none"       -> IF r.ver = "1.1" THEN 0 ELSE 1
         [] OTHER                       -> 1

\* The response a handler writes: no status line or headers for HTTP/0.9
\* (so no Content-Length either), no body for HEAD.
Response(code, names, cl, bd) ==
  [code |-> code,
   clen |-> IF req.ver = "0.9" \/ "Content-Length" \notin names THEN -1 ELSE cl,
   body |-> IF req.method = "HEAD" THEN 0 ELSE bd,
   close |-> http_response_end_headers(req, names),
   head |-> req.method = "HEAD"]

\* The run loop: while (!close) read the next request; then io_fclose and
\* pth_exit.
Loop(close) == IF close = 1 THEN "exited" ELSE "req"

Text == 1           \* the bytes of a page a handler prints: some
NoCache == {"Cache-Control", "Expires", "Pragma"}

-----------------------------------------------------------------------------
(* eg1: the echo processor. *)

\* Leading body bytes in the stream.
LeadCount == IF SelectInSeq(in, IsLine) = 0 THEN Len(in) ELSE SelectInSeq(in, IsLine) - 1

\* The response of run in pthr_eg1_echo.c: 200 with Content-Type only, and
\* the request echoed (headers, URL, form) unless it is a HEAD.
Echo(c) ==
  /\ cgi' = c
  /\ resp' = Response(200, {"Content-Type"}, -1, Text)
  /\ pc' = Loop(resp'.close)

\* new_cgi and the response.  GET and HEAD: parse_qs of the query string.
\* POST: io_fread of Content-Length bytes (a short read at end of file
\* makes new_cgi return 0, and run breaks out of its loop), or, without
\* Content-Length, every byte to end of file (the client sends nothing
\* after such a POST).  The form is always
\* application/x-www-form-urlencoded and POST_MAX is never set, so the
\* tests on them pass.
Eg1Run ==
  /\ pc = "app" /\ app = "eg1"
  /\ \/ req.method # "POST" /\ Echo(parse_qs(Query(req))) /\ UNCHANGED in
     \/ /\ req.method = "POST" /\ req.contentlength >= 0
        /\ LeadCount >= req.contentlength \/ eof
        /\ IF LeadCount >= req.contentlength
           THEN /\ in' = SubSeq(in, req.contentlength + 1, Len(in))
                /\ Echo(parse_qs(Bytes(SubSeq(in, 1, req.contentlength))))
           ELSE /\ in' = SubSeq(in, LeadCount + 1, Len(in))
                /\ pc' = "exited" /\ UNCHANGED <<cgi, resp>>
     \/ /\ req.method = "POST" /\ req.contentlength < 0
        /\ eof /\ SelectInSeq(in, IsLine) = 0
        /\ in' = <<>> /\ Echo(parse_qs(Bytes(in)))
  /\ UNCHANGED <<app, eof, sent, size, writes, req, st, fpos, fds, served>>

-----------------------------------------------------------------------------
(* eg2: the file server processor. *)

\* stat (path, &statbuf): "/o" is the object o; "/o/" is o if o is a
\* directory (ENOTDIR for a file); any other path does not exist.
StatOf(p) ==
  IF /\ Len(p) \in {2, 3} /\ p[1] = SLASH /\ p[2] \in Objects
     /\ Len(p) = 3 => p[3] = SLASH /\ Kind[p[2]] = "dir"
  THEN [kind |-> Kind[p[2]], size |-> size[p[2]]]
  ELSE [kind |-> "none", size |-> 0]

\* run, loop top: stat the request's path.
Eg2Stat ==
  /\ pc = "app" /\ app = "eg2"
  /\ st' = StatOf(Path(req)) /\ pc' = "serve"
  /\ UNCHANGED <<app, in, eof, sent, size, writes, req, resp, cgi, fpos, fds, served>>

\* file_not_found_error: 404 with Content-Type and the no-cache headers.
file_not_found_error == Response(404, {"Content-Type"} \cup NoCache, -1, Text)

\* Neither a file nor a directory (stat failed): 404.
FileNotFound ==
  /\ pc = "serve" /\ st.kind = "none"
  /\ resp' = file_not_found_error /\ pc' = Loop(resp'.close)
  /\ UNCHANGED <<app, in, eof, sent, size, writes, req, st, cgi, fpos, fds, served>>

\* serve_directory of a path without a trailing '/': moved_permanently,
\* 301 with Content-Length 0 and Location.
MovedPermanently ==
  /\ pc = "serve" /\ st.kind = "dir" /\ Last(Path(req)) # SLASH
  /\ resp' = Response(301, {"Content-Length", "Location"}, 0, 0)
  /\ pc' = Loop(resp'.close)
  /\ UNCHANGED <<app, in, eof, sent, size, writes, req, st, cgi, fpos, fds, served>>

\* serve_directory: opendir (404 if it fails), 200 with Content-Type and
\* the no-cache headers, then the listing unless HEAD.  The DIR is never
\* closed.
ServeDirectory ==
  /\ pc = "serve" /\ st.kind = "dir" /\ Last(Path(req)) = SLASH
  /\ IF fds < MaxFds
     THEN /\ fds' = fds + 1
          /\ resp' = Response(200, {"Content-Type"} \cup NoCache, -1, Text)
     ELSE /\ resp' = file_not_found_error /\ UNCHANGED fds
  /\ pc' = Loop(resp'.close)
  /\ UNCHANGED <<app, in, eof, sent, size, writes, req, st, cgi, fpos, served>>

\* serve_file: Content-Length is the size stat returned at the loop top;
\* open (404 if it fails), 200 with Content-Type and Content-Length; a
\* HEAD returns here, the descriptor still open; otherwise copy the file.
ServeFile ==
  /\ pc = "serve" /\ st.kind = "file"
  /\ IF fds < MaxFds
     THEN /\ fds' = fds + 1
          /\ resp' = Response(200, {"Content-Type", "Content-Length"}, st.size, 0)
          /\ IF req.method = "HEAD"
             THEN pc' = Loop(resp'.close) ELSE pc' = "fileio"
     ELSE /\ resp' = file_not_found_error /\ UNCHANGED fds
          /\ pc' = Loop(resp'.close)
  /\ fpos' = 0
  /\ UNCHANGED <<app, in, eof, sent, size, writes, req, st, cgi, served>>

\* The object being served.
Served == Path(req)[2]

(* A fault: each read starts at the beginning of the file again.          *)
FileRead_nooffset ==
  /\ pc = "fileio"
  /\ \/ /\ size[Served] > 0
        /\ resp' = [resp EXCEPT !.body = @ + size[Served]]
        /\ UNCHANGED <<pc, fds, fpos>>
     \/ /\ size[Served] = 0
        /\ fds' = fds - 1 /\ pc' = Loop(resp.close) /\ UNCHANGED <<resp, fpos>>
  /\ UNCHANGED <<app, in, eof, sent, size, writes, req, st, cgi, served>>

\* serve_file's loop: read (fd, buffer, 4096) returns what is left of the
\* file now (files here are far smaller than the buffer) and io_fwrite
\* copies it; read returns 0 at end of file, or -1 on an I/O error
\* (perror); then close (fd) and return.
FileRead ==
  /\ pc = "fileio"
  /\ \/ /\ size[Served] > fpos
        /\ resp' = [resp EXCEPT !.body = @ + size[Served] - fpos]
        /\ fpos' = size[Served] /\ UNCHANGED <<pc, fds>>
     \/ /\ size[Served] <= fpos
        /\ fds' = fds - 1 /\ pc' = Loop(resp.close) /\ UNCHANGED <<resp, fpos>>
  /\ UNCHANGED <<app, in, eof, sent, size, writes, req, st, cgi, served>>

\* read (fd, ...) fails: perror, close (fd), return.
FileReadError ==
  /\ pc = "fileio"
  /\ fds' = fds - 1 /\ pc' = Loop(resp.close)
  /\ UNCHANGED <<app, in, eof, sent, size, writes, req, st, resp, cgi, fpos, served>>

\* The connection is over.
Done == pc = "exited" /\ eof /\ UNCHANGED vars

Next ==
  \/ Send \/ ClientAbort \/ SendBlank \/ ClientClose \/ WriteFile
  \/ Start \/ RequestLineEnd \/ RequestLine \/ Header
  \/ Eg1Run
  \/ Eg2Stat \/ FileNotFound \/ MovedPermanently \/ ServeDirectory
  \/ ServeFile \/ FileRead \/ FileReadError
  \/ Done

Spec == Init /\ [][Next]_vars

-----------------------------------------------------------------------------
(* Properties. *)

\* The server goes back to read another request on the connection.
NextRequest == pc \in {"app", "serve", "fileio"} /\ pc' = "req"

\* RFC 2616 sections 4.4 and 8.1: the processor reads a further request on
\* the connection only after a response whose length the client knows from
\* its headers (Content-Length), to a request of HTTP/1.1 that did not ask
\* to close or of HTTP/1.0 that asked for keep-alive.  This is the
\* decision of http_response_end_headers over the headers each eg1 and eg2
\* handler sends.
KeepAliveOnlyWhenFramed ==
  [][NextRequest =>
       /\ resp'.clen >= 0
       /\ \/ req.ver = "1.1" /\ req.connection \in {"none", "keep-alive"}
          \/ req.ver = "1.0" /\ req.connection = "keep-alive"]_vars

\* A response after which the connection stays open carries exactly the
\* body its Content-Length announced (none for HEAD), so that the client
\* finds where the next response starts: eg2's serve_file announces the
\* size stat returned and then copies whatever read returns.
ResponsesFramed ==
  [][NextRequest => resp'.body = IF resp'.head THEN 0 ELSE resp'.clen]_vars

\* A client that encodes a form value with cgi_escape, in the query string
\* or as a POST body, and sends the request whole finds it decoded by new_cgi (parse_url, io_fread of
\* the body, parse_qs, insert_param, cgi_unescape) as the one value of its
\* field: the codecs invert each other and the form survives the parser.
FormValuesDecoded ==
  app = "eg1" /\ cgi # NoCgi /\ served <= Len(sent) =>
    cgi_param_list(cgi, Name) = <<sent[served].value>>
=============================================================================
