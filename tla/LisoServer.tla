------------------------------ MODULE LisoServer ------------------------------
(***************************************************************************)
(* One call of run_liso (server.c): the single-threaded select loop, the   *)
(* connection objects it serves (conn_obj.c), the CGI children it starts   *)
(* (cgi.c), the TLS handshake it waits for (ssl.c), and the part of the    *)
(* kernel they lean on: the descriptor table, socket queues and pipes.     *)
(*                                                                         *)
(* The bytes of a request are not modelled here: parse_request is the      *)
(* relation ParseOutcome of what it may leave behind, and sizes are 0      *)
(* ("empty") or 1 ("some bytes").  The signals of lisod.c appear only as *)
(* the value they store in liso_state.                                     *)
(***************************************************************************)
EXTENDS Integers, FiniteSets, SequencesExt, ParseResult

CONSTANTS
  Conn,      \* clients; a client has at most one connection at a time
  HttpsConn, \* the clients that connect to the HTTPS port
  CgiConn,   \* the clients that may ask for a URI under /cgi
  NoConn,    \* "no connection object"
  Resetting, \* the clients that may reset their connection
  CgiFails,  \* whether fork(), or the write of the body, may fail
  MaxFd,     \* the largest descriptor the process may hold
  FD_SETSIZE,
  JunkFd,    \* what malloc may leave in the field pipe_fd of a conn_obj
  MaxInbox,  \* bound: segments queued unread in one socket
  Signals    \* the values the signal handler may store: 1 SIGHUP, 2 SIGTERM

ASSUME LisoAssumption ==
  /\ HttpsConn \subseteq Conn /\ CgiConn \subseteq Conn
  /\ NoConn \notin Conn
  /\ Resetting \subseteq Conn
  /\ CgiFails \in BOOLEAN
  /\ MaxFd \in Nat /\ MaxFd >= 2
  /\ FD_SETSIZE \in Nat /\ MaxFd < FD_SETSIZE
  /\ JunkFd \subseteq Int /\ JunkFd # {}
  /\ MaxInbox \in Nat
  /\ Signals \subseteq {1, 2}

\* The daemon's own descriptors (standard streams, lock file, log) are one,
\* DevNull; the two listening sockets follow.
DevNull == 0
HTTP_sock == 1
HTTPS_sock == 2
ConnFd == 3..MaxFd
Fd == 0..MaxFd
FdSet == 0..FD_SETSIZE-1   \* the descriptors an fd_set has a bit for
ListenFd == {HTTP_sock, HTTPS_sock}

SockOf(c) == IF c \in HttpsConn THEN HTTPS_sock ELSE HTTP_sock

\* Control points of run_liso; the last two are final.
PCs == {"loop", "select", "dispatch", "ssl_accept", "visit", "ssl_read",
        "process", "cgi_read", "write", "finish", "returned", "dead"}
Stopped == {"returned", "dead"}

\* enum state; FREE is no connection object at all.
States == {"FREE", "VACANT", "PARSING", "PARSED", "RESPONSE_READY", "SENT",
           "CLOSED"}

VARIABLES
  \* locals of run_liso
  pc, liso_state, readfds, waitfds, max_fd,
  pool,       \* connection_pool, head first
  iter,       \* the nodes iterp has still to visit
  cobjp,      \* the connection object in hand
  \* the fields of every conn_obj, with those of its request and response
  state, conn_fd, pipe_fd, is_pipe,
  linetype,   \* req_objp->linetype
  res_open,   \* res_objp->is_open
  read_size, write_size,
  \* history: the connections whose build_CGI_pipe failed, with those that
  \* were closed in this pass
  failed,
  \* the kernel: what each descriptor is, and the CGI child behind a pipe
  fdkind,
  owner,      \* whose socket, or whose CGI pipe, a descriptor is
  child,      \* the process writing to the pipe read at this descriptor
  out,        \* bytes it has written that nobody has read
  \* the clients' side of the sockets
  link, inbox, backlog

loopVars == <<pc, liso_state, readfds, waitfds, max_fd, pool, iter, cobjp>>
connVars == <<state, conn_fd, pipe_fd, is_pipe, linetype, res_open,
              read_size, write_size, failed>>
kernVars == <<fdkind, owner, child, out>>
netVars == <<link, inbox, backlog>>
vars == <<loopVars, connVars, kernVars, netVars>>

-----------------------------------------------------------------------------
(* The kernel *)

FreeFds == {f \in ConnFd : fdkind[f] = "free"}

\* POSIX allocates the lowest free descriptor.
Lowest(f) == f \in FreeFds /\ \A g \in FreeFds : f <= g

\* The n lowest free descriptors.
LowestFds(n) == {f \in FreeFds : Cardinality({g \in FreeFds : g < f}) < n}

\* The two calls of pipe() take four descriptors: stdin_pipe[1] and
\* stdout_pipe[0] are the second and the third of them.
StdinPipe(f) == f \in FreeFds /\ Cardinality({g \in FreeFds : g < f}) = 1
StdoutPipe(f) ==
  /\ f \in FreeFds
  /\ Cardinality({g \in FreeFds : g < f}) = 2
  /\ \E g \in FreeFds : f < g

\* What a number names, if anything.
Kind(f) == IF f \in Fd THEN fdkind[f] ELSE "free"

\* What select() reports for an open descriptor; of a stray one the other end
\* is not modelled.
Ready(f) ==
  \/ fdkind[f] = "null"
  \/ fdkind[f] = "listen" /\ \E c \in backlog : SockOf(c) = f
  \/ fdkind[f] = "conn" /\ owner[f] \in Conn
       /\ (inbox[owner[f]] > 0 \/ link[owner[f]] # "open")
  \/ fdkind[f] = "pipe" /\ (out[f] > 0 \/ child[f] = "exited")

\* Mutant: the pool is walked with waitfds in place of readfds.
ReadyFds_Wait ==
  {f \in waitfds \cap Fd : f <= max_fd /\ (f \in ListenFd => Ready(f))}

BadFds == {f \in waitfds : f <= max_fd /\ Kind(f) = "free"}
StrayFds == {f \in waitfds : f <= max_fd /\ Kind(f) = "stray"}
ReadyFds == {f \in waitfds \cap Fd : f <= max_fd /\ Ready(f)}

Larger(a, b) == IF a > b THEN a ELSE b

-----------------------------------------------------------------------------
(* Initial state: both sockets listen and waitfds holds them *)

\* Mutant: max_fd takes in the first socket only.
MaxListenFd_First == HTTP_sock

MaxListenFd == Larger(HTTP_sock, HTTPS_sock)

Init ==
  /\ pc = "loop" /\ liso_state = 0
  /\ readfds = {} /\ waitfds = ListenFd /\ max_fd = MaxListenFd
  /\ pool = <<>> /\ iter = <<>> /\ cobjp = NoConn
  /\ state = [c \in Conn |-> "FREE"]
  /\ conn_fd = [c \in Conn |-> 0]
  /\ pipe_fd = [c \in Conn |-> 0]
  /\ is_pipe = [c \in Conn |-> FALSE]
  /\ linetype = [c \in Conn |-> "OPEN"]
  /\ res_open = [c \in Conn |-> TRUE]
  /\ read_size = [c \in Conn |-> 0]
  /\ write_size = [c \in Conn |-> 0]
  /\ failed = {}
  /\ fdkind = [f \in Fd |-> IF f = DevNull THEN "null"
                            ELSE IF f \in ListenFd THEN "listen" ELSE "free"]
  /\ owner = [f \in Fd |-> NoConn]
  /\ child = [f \in Fd |-> "none"]
  /\ out = [f \in Fd |-> 0]
  /\ link = [c \in Conn |-> "off"]
  /\ inbox = [c \in Conn |-> 0]
  /\ backlog = {}

-----------------------------------------------------------------------------
(* select() and the listening sockets *)

\* while(liso_state==0) readfds=waitfds
Loop ==
  /\ pc = "loop"
  /\ IF liso_state = 0
     THEN pc' = "select" /\ readfds' = waitfds
     ELSE pc' = "returned" /\ readfds' = readfds
  /\ UNCHANGED <<liso_state, waitfds, max_fd, pool, iter, cobjp>>
  /\ UNCHANGED <<connVars, kernVars, netVars>>

\* A closed descriptor in waitfds: select() fails with EBADF.  Asked for more
\* than an fd_set holds, it may find anything there.
SelectFails ==
  /\ pc = "select" /\ (BadFds # {} \/ max_fd \notin FdSet)
  /\ pc' = "returned"
  /\ UNCHANGED <<liso_state, readfds, waitfds, max_fd, pool, iter, cobjp>>
  /\ UNCHANGED <<connVars, kernVars, netVars>>

SelectReturns ==
  /\ pc = "select" /\ BadFds = {}
  /\ \E strays \in SUBSET StrayFds : readfds' = ReadyFds \cup strays
  /\ readfds' # {}
  /\ pc' = "dispatch"
  /\ UNCHANGED <<liso_state, waitfds, max_fd, pool, iter, cobjp>>
  /\ UNCHANGED <<connVars, kernVars, netVars>>

\* run_liso looks at the HTTP socket first and accepts one client a turn.
Accepting(sock) ==
  /\ pc = "dispatch" /\ sock \in readfds
  /\ sock = HTTPS_sock => HTTP_sock \notin readfds

\* Mutant: the closed listening socket is also taken out of waitfds.
AcceptFails_Clears(sock) ==
  /\ Accepting(sock) /\ FreeFds = {}
  /\ fdkind' = [fdkind EXCEPT ![sock] = "free"]
  /\ waitfds' = waitfds \ {sock}
  /\ pc' = "loop"
  /\ UNCHANGED <<liso_state, readfds, max_fd, pool, iter, cobjp>>
  /\ UNCHANGED <<connVars, owner, child, out, netVars>>

\* Mutant: the listening socket is left as it is.
AcceptFails_Retries(sock) ==
  /\ Accepting(sock) /\ FreeFds = {}
  /\ pc' = "loop"
  /\ UNCHANGED <<liso_state, readfds, waitfds, max_fd, pool, iter, cobjp>>
  /\ UNCHANGED <<connVars, kernVars, netVars>>

\* accept() fails at the descriptor limit: create_connection returns NULL and
\* run_liso closes the listening socket, which stays in waitfds.
AcceptFails(sock) ==
  /\ Accepting(sock) /\ FreeFds = {}
  /\ fdkind' = [fdkind EXCEPT ![sock] = "free"]
  /\ pc' = "loop"
  /\ UNCHANGED <<liso_state, readfds, waitfds, max_fd, pool, iter, cobjp>>
  /\ UNCHANGED <<connVars, owner, child, out, netVars>>

\* The fields create_connection sets once the client is accepted at f, and
\* what run_liso does with the result.  pipe_fd is not among them: what malloc
\* left there is chosen where it is first read, in LaunchFailed.
Created(c, f) ==
  /\ state' = [state EXCEPT ![c] = "VACANT"]
  /\ conn_fd' = [conn_fd EXCEPT ![c] = f]
  /\ is_pipe' = [is_pipe EXCEPT ![c] = FALSE]
  /\ linetype' = [linetype EXCEPT ![c] = "OPEN"]
  /\ res_open' = [res_open EXCEPT ![c] = TRUE]
  /\ read_size' = [read_size EXCEPT ![c] = 0]
  /\ write_size' = [write_size EXCEPT ![c] = 0]
  /\ pool' = Cons(c, pool)
  /\ waitfds' = waitfds \cup {f}
  /\ max_fd' = Larger(f, max_fd)
  /\ pc' = "loop"

TakeClient(c, f) ==
  /\ c \in backlog /\ Lowest(f)
  /\ backlog' = backlog \ {c}
  /\ fdkind' = [fdkind EXCEPT ![f] = "conn"]
  /\ owner' = [owner EXCEPT ![f] = c]

AcceptHTTP(c, f) ==
  /\ Accepting(HTTP_sock) /\ c \notin HttpsConn
  /\ TakeClient(c, f)
  /\ Created(c, f)
  /\ UNCHANGED <<liso_state, readfds, iter, cobjp, pipe_fd, failed, child, out, link, inbox>>

\* accept() for HTTPS; the server then waits in SSL_accept for this client.
AcceptHTTPS(c, f) ==
  /\ Accepting(HTTPS_sock) /\ c \in HttpsConn
  /\ TakeClient(c, f)
  /\ conn_fd' = [conn_fd EXCEPT ![c] = f]
  /\ cobjp' = c
  /\ pc' = "ssl_accept"
  /\ UNCHANGED <<liso_state, readfds, waitfds, max_fd, pool, iter>>
  /\ UNCHANGED <<state, pipe_fd, is_pipe, linetype, res_open, read_size,
                 write_size, failed, child, out, link, inbox>>

SslAcceptOk ==
  /\ pc = "ssl_accept"
  /\ Created(cobjp, conn_fd[cobjp])
  /\ cobjp' = NoConn
  /\ UNCHANGED <<liso_state, readfds, iter, pipe_fd, failed, kernVars, netVars>>

\* ssl_wrap_socket fails: the accepted socket is not closed, the connection
\* object is gone, and run_liso closes the HTTPS listening socket.
SslAcceptFails ==
  /\ pc = "ssl_accept"
  /\ fdkind' = [fdkind EXCEPT ![conn_fd[cobjp]] = "stray",
                              ![HTTPS_sock] = "free"]
  /\ owner' = [owner EXCEPT ![conn_fd[cobjp]] = NoConn]
  /\ conn_fd' = [conn_fd EXCEPT ![cobjp] = 0]
  /\ link' = [link EXCEPT ![cobjp] = "off"]
  /\ inbox' = [inbox EXCEPT ![cobjp] = 0]
  /\ cobjp' = NoConn
  /\ pc' = "loop"
  /\ UNCHANGED <<liso_state, readfds, waitfds, max_fd, pool, iter>>
  /\ UNCHANGED <<state, pipe_fd, is_pipe, linetype, res_open, read_size,
                 write_size, failed, child, out, backlog>>

\* No listening socket is ready: reset_iterator and walk the pool.
StartPass ==
  /\ pc = "dispatch" /\ readfds \cap ListenFd = {}
  /\ iter' = pool
  /\ pc' = "visit"
  /\ UNCHANGED <<liso_state, readfds, waitfds, max_fd, pool, cobjp>>
  /\ UNCHANGED <<connVars, kernVars, netVars>>

\* readfds and cobjp are not read again before they are set again.
EndPass ==
  /\ pc = "visit" /\ iter = <<>>
  /\ pc' = "loop"
  /\ readfds' = {} /\ cobjp' = NoConn
  /\ failed' = {c \in failed : state[c] # "FREE"}
  /\ UNCHANGED <<liso_state, waitfds, max_fd, pool, iter>>
  /\ UNCHANGED <<state, conn_fd, pipe_fd, is_pipe, linetype, res_open, read_size, write_size>>
  /\ UNCHANGED <<kernVars, netVars>>

-----------------------------------------------------------------------------
(* One turn of the inner loop: read_connection *)

\* iterp->next moves on before the connection is handled.
Visiting(c) ==
  /\ pc = "visit" /\ iter # <<>> /\ c = Head(iter)
  /\ iter' = Tail(iter)
  /\ cobjp' = c

\* write_connection and the tests after it pass over a connection with nothing
\* to send that is neither SENT nor CLOSED.
TurnEnds(st) == IF st \in {"SENT", "CLOSED"} THEN "finish" ELSE "visit"

\* Where the turn of c may go on once its state is st; FD_ISSET of a pipe_fd
\* that no fd_set has a bit for reads other memory.
NextStop(c, st) ==
  IF st = "PARSING" THEN {"process"}
  ELSE IF st = "PARSED" /\ is_pipe[c] /\ pipe_fd[c] \in readfds THEN {"cgi_read"}
  ELSE IF st = "PARSED" /\ is_pipe[c] /\ pipe_fd[c] \notin FdSet
       THEN {"cgi_read", TurnEnds(st)}
  ELSE IF st = "RESPONSE_READY" /\ write_size[c] > 0 THEN {"write"}
  ELSE {TurnEnds(st)}

VisitUnready(c) ==
  /\ Visiting(c) /\ conn_fd[c] \notin readfds
  /\ pc' \in NextStop(c, state[c])
  /\ UNCHANGED <<liso_state, readfds, waitfds, max_fd, pool>>
  /\ UNCHANGED <<connVars, kernVars, netVars>>

\* SSL_read on a blocking socket takes what has come and, if that is no more
\* than a part of a record, waits for the client; the rest comes in one piece.
AwaitsRecord(c) ==
  /\ Visiting(c) /\ conn_fd[c] \in readfds /\ c \in HttpsConn /\ inbox[c] > 0
  /\ inbox' = [inbox EXCEPT ![c] = 0]
  /\ pc' = "ssl_read"
  /\ UNCHANGED <<liso_state, readfds, waitfds, max_fd, pool>>
  /\ UNCHANGED <<connVars, kernVars, link, backlog>>

Resuming(c) == pc = "ssl_read" /\ c = cobjp /\ UNCHANGED <<iter, cobjp>>

\* In read_connection.
Reading(c) == (Visiting(c) /\ conn_fd[c] \in readfds) \/ Resuming(c)

\* recv or SSL_read returns bytes and they fit.
ReadData(c) ==
  /\ Reading(c) /\ inbox[c] > 0
  /\ \E n \in 1..inbox[c] : inbox' = [inbox EXCEPT ![c] = @ - n]
  /\ \E rs \in ReadOutcome(read_size[c]) : read_size' = [read_size EXCEPT ![c] = rs]
  /\ state' = [state EXCEPT ![c] = "PARSING"]
  /\ pc' = "process"
  /\ UNCHANGED <<liso_state, readfds, waitfds, max_fd, pool>>
  /\ UNCHANGED <<conn_fd, pipe_fd, is_pipe, linetype, res_open, write_size,
                 failed, kernVars, link, backlog>>

\* Mutant: whatever arrived is parsed before the connection is closed.
AfterFailedRead_Parses(c) == "PARSING"

\* Mutant: a failed read leaves the connection waiting for the next request.
AfterFailedRead_Waits(c) == IF read_size[c] = 0 THEN "CLOSED" ELSE "VACANT"

\* run_liso after read_connection returned -1.
AfterFailedRead(c) == IF read_size[c] = 0 THEN "CLOSED" ELSE "PARSING"

\* End of file, an error, or bytes that fill the buffer (and are dropped).
ReadFails(c) ==
  /\ Reading(c)
  /\ \/ inbox[c] > 0 /\ \E n \in 1..inbox[c] : inbox' = [inbox EXCEPT ![c] = @ - n]
     \/ inbox[c] = 0 /\ link[c] # "open" /\ inbox' = inbox
  /\ state' = [state EXCEPT ![c] = AfterFailedRead(c)]
  /\ pc' \in NextStop(c, AfterFailedRead(c))
  /\ UNCHANGED <<liso_state, readfds, waitfds, max_fd, pool>>
  /\ UNCHANGED <<conn_fd, pipe_fd, is_pipe, linetype, res_open, read_size,
                 write_size, failed, kernVars, link, backlog>>

\* A read_size that has wrapped around points in front of read_buffer: the
\* bytes damage the heap.
DiesReading(c) ==
  /\ Reading(c) /\ inbox[c] > 0 /\ read_size[c] > 0
  /\ pc' = "dead"
  /\ UNCHANGED <<liso_state, readfds, waitfds, max_fd, pool>>
  /\ UNCHANGED <<connVars, kernVars, netVars>>

-----------------------------------------------------------------------------
(* process_connection *)

Processing(c) == pc = "process" /\ c = cobjp

Parse(c) ==
  \E o \in ParseOutcome(linetype[c], read_size[c]) :
    /\ linetype' = [linetype EXCEPT ![c] = o[1]]
    /\ read_size' = [read_size EXCEPT ![c] = o[2]]

Parsed(c) == linetype'[c] \in {"COMPLETE", "ERROR"}

StaysParsing(c) ==
  /\ Processing(c) /\ Parse(c) /\ ~Parsed(c)
  /\ pc' = TurnEnds("PARSING")
  /\ UNCHANGED <<liso_state, readfds, waitfds, max_fd, pool, iter, cobjp>>
  /\ UNCHANGED <<state, conn_fd, pipe_fd, is_pipe, res_open, write_size, failed>>
  /\ UNCHANGED <<kernVars, netVars>>

\* build_http_response, allocate_write_buffer and serailize_http_response.
\* Every ERROR comes with a status other than OK, which closes.
Answers(c) ==
  /\ Processing(c) /\ Parse(c) /\ Parsed(c) /\ ~is_pipe[c]
  /\ \E keep \in IF linetype'[c] = "ERROR" THEN {FALSE} ELSE BOOLEAN :
       res_open' = [res_open EXCEPT ![c] = res_open[c] /\ keep]
  /\ write_size' = [write_size EXCEPT ![c] = 1]
  /\ state' = [state EXCEPT ![c] = "RESPONSE_READY"]
  /\ pc' = "write"
  /\ UNCHANGED <<liso_state, readfds, waitfds, max_fd, pool, iter, cobjp>>
  /\ UNCHANGED <<conn_fd, pipe_fd, is_pipe, failed, kernVars, netVars>>

\* FD_SET of a number that no fd_set has a bit for writes other memory: the
\* process dies, or the bit is lost.
SetOutOfBounds(p) ==
  /\ p \notin FdSet
  /\ \/ pc' = "dead" /\ max_fd' = max_fd
     \/ pc' = "visit" /\ max_fd' = Larger(p, max_fd)
  /\ UNCHANGED waitfds

\* Mutant: max_fd is left as it is.
WatchPipe_OldMax(p) ==
  \/ /\ p \in FdSet
     /\ waitfds' = waitfds \cup {p}
     /\ pc' = "visit" /\ UNCHANGED max_fd
  \/ SetOutOfBounds(p)

\* Mutant: FD_SET is missing.
WatchPipe_NotSet(p) == pc' = "visit" /\ max_fd' = Larger(p, max_fd) /\ UNCHANGED waitfds

\* Mutant: max_fd is the last pipe, not the largest descriptor.
WatchPipe_LastMax(p) ==
  /\ waitfds' = IF p \in FdSet THEN waitfds \cup {p} ELSE waitfds
  /\ pc' = "visit" /\ max_fd' = p

\* FD_SET(pipe_fd), max_fd, and continue.
WatchPipe(p) ==
  \/ /\ p \in FdSet
     /\ waitfds' = waitfds \cup {p}
     /\ pc' = "visit" /\ max_fd' = Larger(p, max_fd)
  \/ SetOutOfBounds(p)

\* The request now parsed to its end is for a URI under /cgi, well-formed or
\* not; one that was answered before keeps its is_CGI of 0.
AsksForCGI(c) ==
  Processing(c) /\ c \in CgiConn /\ linetype[c] = "OPEN" /\ ~is_pipe[c]

\* build_CGI_pipe succeeds: the child runs, its body is written, and the
\* parent keeps the read end of its output.
LaunchesCGI(c, f) ==
  /\ AsksForCGI(c) /\ Parse(c) /\ Parsed(c)
  /\ StdoutPipe(f)
  /\ fdkind' = [fdkind EXCEPT ![f] = "pipe"]
  /\ owner' = [owner EXCEPT ![f] = c]
  /\ child' = [child EXCEPT ![f] = "running"]
  /\ pipe_fd' = [pipe_fd EXCEPT ![c] = f]
  /\ is_pipe' = [is_pipe EXCEPT ![c] = TRUE]
  /\ state' = [state EXCEPT ![c] = "PARSED"]
  /\ WatchPipe(f)
  /\ UNCHANGED <<liso_state, readfds, pool, iter, cobjp>>
  /\ UNCHANGED <<conn_fd, res_open, write_size, failed, out, netVars>>

\* The descriptors build_CGI_pipe leaves open when the first pipe(), the
\* second pipe() or fork() fails.
LeftOpen ==
  LET n == Cardinality(FreeFds)
  IN IF n < 2 THEN {} ELSE IF n < 4 THEN LowestFds(2) ELSE LowestFds(4)

\* build_CGI_pipe failed; its result is ignored, and pipe_fd is what malloc
\* left there.
LaunchFailed(c) ==
  /\ failed' = failed \cup {c}
  /\ is_pipe' = [is_pipe EXCEPT ![c] = TRUE]
  /\ state' = [state EXCEPT ![c] = "PARSED"]
  /\ \E j \in JunkFd : pipe_fd' = [pipe_fd EXCEPT ![c] = j] /\ WatchPipe(j)
  /\ UNCHANGED <<liso_state, readfds, pool, iter, cobjp>>
  /\ UNCHANGED <<conn_fd, res_open, write_size, owner, out, netVars>>

LaunchFails(c) ==
  /\ AsksForCGI(c) /\ Parse(c) /\ Parsed(c)
  /\ Cardinality(FreeFds) < 4 \/ CgiFails
  /\ fdkind' = [f \in Fd |-> IF f \in LeftOpen THEN "stray" ELSE fdkind[f]]
  /\ child' = child
  /\ LaunchFailed(c)

\* write() to stdin_pipe[1] fails: g stays open, so that the child at the other
\* end of f may wait for its input for ever, and f is in nobody's pipe_fd.
BodyNotWritten(c, g, f) ==
  /\ AsksForCGI(c) /\ Parse(c) /\ Parsed(c) /\ CgiFails
  /\ StdinPipe(g) /\ StdoutPipe(f)
  /\ fdkind' = [fdkind EXCEPT ![g] = "stray", ![f] = "pipe"]
  /\ child' = [child EXCEPT ![f] = "held"]
  /\ LaunchFailed(c)

\* More bytes arrived while the CGI child runs: nothing is started again.
AwaitsCGI(c) ==
  /\ Processing(c) /\ Parse(c) /\ Parsed(c) /\ is_pipe[c]
  /\ state' = [state EXCEPT ![c] = "PARSED"]
  /\ WatchPipe(pipe_fd[c])
  /\ UNCHANGED <<liso_state, readfds, pool, iter, cobjp>>
  /\ UNCHANGED <<conn_fd, pipe_fd, is_pipe, res_open, write_size, failed>>
  /\ UNCHANGED <<kernVars, netVars>>

\* find_token, memcpy or, for a request that is complete already, memmove leaves
\* the buffer, or the write of the body to a CGI child that is gone raises
\* SIGPIPE.
DiesProcessing(c) ==
  /\ Processing(c) /\ linetype[c] # "ERROR"
  /\ pc' = "dead"
  /\ UNCHANGED <<liso_state, readfds, waitfds, max_fd, pool, iter, cobjp>>
  /\ UNCHANGED <<connVars, kernVars, netVars>>

-----------------------------------------------------------------------------
(* read_CGI_response: read until the child has closed its end *)

ReadingCGI(c) == pc = "cgi_read" /\ c = cobjp

\* n bytes and the end were read.
ReadToEnd(c, n) ==
  /\ write_size' = [write_size EXCEPT ![c] = n]
  /\ state' = [state EXCEPT ![c] = "RESPONSE_READY"]
  /\ pc' = IF n > 0 THEN "write" ELSE TurnEnds("RESPONSE_READY")
  /\ UNCHANGED <<liso_state, readfds, waitfds, max_fd, pool, iter, cobjp>>
  /\ UNCHANGED <<conn_fd, pipe_fd, is_pipe, linetype, res_open, read_size, failed>>
  /\ UNCHANGED <<fdkind, owner, child, link, backlog>>

\* The loop ends when the child exits; until then the server waits in read().
ReadCGIResponse(c) ==
  LET f == pipe_fd[c]
  IN /\ ReadingCGI(c) /\ Kind(f) = "pipe" /\ child[f] = "exited"
     /\ out' = [out EXCEPT ![f] = 0]
     /\ ReadToEnd(c, out[f])
     /\ UNCHANGED inbox

\* After a failed launch, something without an end to wait for.
ReadNoCGI(c) ==
  /\ ReadingCGI(c)
  /\ \/ Kind(pipe_fd[c]) = "null" /\ ReadToEnd(c, 0)
     \/ Kind(pipe_fd[c]) = "stray" /\ \E n \in {0, 1} : ReadToEnd(c, n)
  /\ UNCHANGED <<out, inbox>>

\* After a failed launch, the socket of client d, until d has left.
ReadSocketOf(c, d) ==
  LET f == pipe_fd[c]
  IN /\ ReadingCGI(c) /\ Kind(f) = "conn" /\ owner[f] = d /\ link[d] = "eof"
     /\ inbox' = [inbox EXCEPT ![d] = 0]
     /\ ReadToEnd(c, IF inbox[d] > 0 THEN 1 ELSE 0)
     /\ UNCHANGED out

\* What read() or realloc() fails on; what had been read is lost.
FailsReading(f) ==
  \/ Kind(f) \in {"free", "null", "stray"} /\ UNCHANGED <<out, inbox>>
  \/ Kind(f) = "pipe" /\ out[f] > 0 /\ out' = [out EXCEPT ![f] = 0] /\ UNCHANGED inbox
  \/ \E d \in Conn :
       /\ Kind(f) = "conn" /\ owner[f] = d /\ (inbox[d] > 0 \/ link[d] = "reset")
       /\ inbox' = [inbox EXCEPT ![d] = 0] /\ UNCHANGED out

\* run_liso closes.
ReadCGIFails(c) ==
  /\ ReadingCGI(c) /\ FailsReading(pipe_fd[c])
  /\ state' = [state EXCEPT ![c] = "CLOSED"]
  /\ pc' = TurnEnds("CLOSED")
  /\ UNCHANGED <<liso_state, readfds, waitfds, max_fd, pool, iter, cobjp>>
  /\ UNCHANGED <<conn_fd, pipe_fd, is_pipe, linetype, res_open, read_size,
                 write_size, failed, fdkind, owner, child, link, backlog>>

\* The heap is damaged: bytes written past a write_buffer without room, or
\* a buffer that an earlier realloc moved is freed a second time.
DiesReadingCGI(c) ==
  LET f == pipe_fd[c]
  IN /\ ReadingCGI(c)
     /\ \/ Kind(f) = "pipe" /\ out[f] > 0
        \/ Kind(f) = "conn" /\ (inbox[owner[f]] > 0 \/ link[owner[f]] = "reset")
        \/ Kind(f) = "stray"
     /\ pc' = "dead"
     /\ UNCHANGED <<liso_state, readfds, waitfds, max_fd, pool, iter, cobjp>>
     /\ UNCHANGED <<connVars, kernVars, netVars>>

-----------------------------------------------------------------------------
(* write_connection *)

Writing(c) == pc = "write" /\ c = cobjp

\* Mutant: a CGI connection is kept alive like any other.
AfterSend_KeepsCGI(c) == IF ~res_open[c] THEN "CLOSED" ELSE "SENT"

\* The state a response that went out whole leaves behind.
AfterSend(c) == IF is_pipe[c] \/ ~res_open[c] THEN "CLOSED" ELSE "SENT"

SendsAll(c) ==
  /\ Writing(c) /\ link[c] # "reset"
  /\ write_size' = [write_size EXCEPT ![c] = 0]
  /\ state' = [state EXCEPT ![c] = AfterSend(c)]
  /\ pc' = TurnEnds(AfterSend(c))
  /\ UNCHANGED <<liso_state, readfds, waitfds, max_fd, pool, iter, cobjp>>
  /\ UNCHANGED <<conn_fd, pipe_fd, is_pipe, linetype, res_open, read_size, failed>>
  /\ UNCHANGED <<kernVars, netVars>>

\* send returns -1 or, for HTTP, fewer bytes than asked: the rest is given up.
SendFails(c) ==
  /\ Writing(c) /\ (link[c] = "reset" \/ c \notin HttpsConn)
  /\ state' = [state EXCEPT ![c] = "CLOSED"]
  /\ pc' = TurnEnds("CLOSED")
  /\ UNCHANGED <<liso_state, readfds, waitfds, max_fd, pool, iter, cobjp>>
  /\ UNCHANGED <<conn_fd, pipe_fd, is_pipe, linetype, res_open, read_size,
                 write_size, failed, kernVars, netVars>>

\* SSL_write returns 0 when the peer is gone: neither branch applies.
SendsNothing(c) ==
  /\ Writing(c) /\ c \in HttpsConn /\ link[c] # "open"
  /\ pc' = TurnEnds("RESPONSE_READY")
  /\ UNCHANGED <<liso_state, readfds, waitfds, max_fd, pool, iter, cobjp>>
  /\ UNCHANGED <<connVars, kernVars, netVars>>

\* SIGPIPE is not handled: writing to a reset connection may end the process.
DiesWriting(c) ==
  /\ Writing(c) /\ link[c] = "reset"
  /\ pc' = "dead"
  /\ UNCHANGED <<liso_state, readfds, waitfds, max_fd, pool, iter, cobjp>>
  /\ UNCHANGED <<connVars, kernVars, netVars>>

-----------------------------------------------------------------------------
(* The end of the turn: free_connection or refresh_connection *)

Finishing(c) == pc = "finish" /\ c = cobjp

\* Mutant: the last node is unlinked, whoever it is.
Unlink_Last(c) == pool # <<>> /\ pool' = RemoveAt(pool, Len(pool))

\* remove_node_content
Unlink(c) == \E i \in DOMAIN pool : pool[i] = c /\ pool' = RemoveAt(pool, i)

\* Mutant: FD_CLR is missing.
WaitSetAfterClose_Kept(c) == waitfds

\* FD_CLR(conn_fd)
WaitSetAfterClose(c) == waitfds \ {conn_fd[c]}

\* Mutant: the socket is left open.
FdKindAfterClose_Open(c) == fdkind

\* close(conn_fd)
FdKindAfterClose(c) == [fdkind EXCEPT ![conn_fd[c]] = "free"]

\* free_connection closes conn_fd and forgets pipe_fd, which stays open and
\* stays in waitfds.  The fields of the freed object go back to their
\* initial values, which nothing reads.
Closes(c) ==
  /\ Finishing(c) /\ state[c] = "CLOSED"
  /\ Unlink(c)
  /\ waitfds' = WaitSetAfterClose(c)
  /\ fdkind' = FdKindAfterClose(c)
  /\ owner' = [f \in Fd |-> IF owner[f] = c THEN NoConn ELSE owner[f]]
  /\ state' = [state EXCEPT ![c] = "FREE"]
  /\ conn_fd' = [conn_fd EXCEPT ![c] = 0]
  /\ pipe_fd' = [pipe_fd EXCEPT ![c] = 0]
  /\ is_pipe' = [is_pipe EXCEPT ![c] = FALSE]
  /\ linetype' = [linetype EXCEPT ![c] = "OPEN"]
  /\ res_open' = [res_open EXCEPT ![c] = TRUE]
  /\ read_size' = [read_size EXCEPT ![c] = 0]
  /\ write_size' = [write_size EXCEPT ![c] = 0]
  /\ link' = [link EXCEPT ![c] = "off"]
  /\ inbox' = [inbox EXCEPT ![c] = 0]
  /\ pc' = "visit"
  /\ UNCHANGED <<liso_state, readfds, max_fd, iter, cobjp, failed, child, out, backlog>>

\* refresh_connection keeps the unread bytes and says PARSING; run_liso then
\* says VACANT, so they wait for more input.
Refreshes(c) ==
  /\ Finishing(c) /\ state[c] = "SENT"
  /\ state' = [state EXCEPT ![c] = "VACANT"]
  /\ linetype' = [linetype EXCEPT ![c] = "OPEN"]
  /\ res_open' = [res_open EXCEPT ![c] = TRUE]
  /\ write_size' = [write_size EXCEPT ![c] = 0]
  /\ is_pipe' = [is_pipe EXCEPT ![c] = FALSE]
  /\ pc' = "visit"
  /\ UNCHANGED <<liso_state, readfds, waitfds, max_fd, pool, iter, cobjp>>
  /\ UNCHANGED <<conn_fd, pipe_fd, read_size, failed, kernVars, netVars>>

-----------------------------------------------------------------------------
(* The clients, the CGI children and the signals *)

Connect(c) ==
  /\ link[c] = "off" /\ fdkind[SockOf(c)] = "listen"
  /\ link' = [link EXCEPT ![c] = "open"]
  /\ backlog' = backlog \cup {c}
  /\ UNCHANGED <<loopVars, connVars, kernVars, inbox>>

Send(c) ==
  /\ link[c] = "open" /\ inbox[c] < MaxInbox
  /\ inbox' = [inbox EXCEPT ![c] = @ + 1]
  /\ UNCHANGED <<loopVars, connVars, kernVars, link, backlog>>

Shut(c) ==
  /\ link[c] = "open"
  /\ link' = [link EXCEPT ![c] = "eof"]
  /\ UNCHANGED <<loopVars, connVars, kernVars, inbox, backlog>>

Reset(c) ==
  /\ c \in Resetting /\ link[c] \in {"open", "eof"}
  /\ link' = [link EXCEPT ![c] = "reset"]
  /\ inbox' = [inbox EXCEPT ![c] = 0]
  /\ UNCHANGED <<loopVars, connVars, kernVars, backlog>>

ChildWrites(f) ==
  /\ child[f] \in {"running", "held"} /\ out[f] = 0
  /\ out' = [out EXCEPT ![f] = 1]
  /\ UNCHANGED <<loopVars, connVars, fdkind, owner, child, netVars>>

ChildExits(f) ==
  /\ child[f] \in {"running", "held"}
  /\ child' = [child EXCEPT ![f] = "exited"]
  /\ UNCHANGED <<loopVars, connVars, fdkind, owner, out, netVars>>

\* signal_handler.  A select() that is already waiting is interrupted; one
\* that run_liso has yet to enter is not.
Signal(s) ==
  /\ liso_state' = s
  /\ pc' \in IF pc = "select" THEN {"select", "returned"} ELSE {pc}
  /\ UNCHANGED <<readfds, waitfds, max_fd, pool, iter, cobjp>>
  /\ UNCHANGED <<connVars, kernVars, netVars>>

\* The call is over.
Terminating == pc \in Stopped /\ UNCHANGED vars

-----------------------------------------------------------------------------

Dispatch ==
  \/ Loop \/ SelectFails \/ SelectReturns \/ StartPass \/ EndPass
  \/ \E sock \in ListenFd : AcceptFails(sock)
  \/ \E c \in Conn, f \in Fd : AcceptHTTP(c, f) \/ AcceptHTTPS(c, f)

Handshake == SslAcceptOk \/ SslAcceptFails

Visit(c) ==
  VisitUnready(c) \/ AwaitsRecord(c) \/ ReadData(c) \/ ReadFails(c) \/ DiesReading(c)

Process(c) ==
  \/ StaysParsing(c) \/ Answers(c) \/ LaunchFails(c) \/ AwaitsCGI(c)
  \/ DiesProcessing(c)
  \/ \E f \in Fd : LaunchesCGI(c, f)
  \/ \E g, f \in Fd : BodyNotWritten(c, g, f)

ReadCGI(c) ==
  \/ ReadCGIResponse(c) \/ ReadNoCGI(c) \/ ReadCGIFails(c) \/ DiesReadingCGI(c)
  \/ \E d \in Conn : ReadSocketOf(c, d)

Write(c) ==
  SendsAll(c) \/ SendFails(c) \/ SendsNothing(c) \/ DiesWriting(c)

Finish(c) == Closes(c) \/ Refreshes(c)

Server ==
  \/ Dispatch \/ Handshake
  \/ \E c \in Conn : Visit(c) \/ Process(c) \/ ReadCGI(c) \/ Write(c) \/ Finish(c)

Client(c) == Connect(c) \/ Send(c) \/ Shut(c) \/ Reset(c)

\* What goes on around the server; of no interest once the call is over.
Environment ==
  /\ pc \notin Stopped
  /\ \/ \E c \in Conn : Client(c)
     \/ \E f \in Fd : ChildWrites(f) \/ ChildExits(f)
     \/ \E s \in Signals : Signal(s)

Next ==
  \/ Server
  \/ Environment
  \/ Terminating

Spec == Init /\ [][Next]_vars

\* read_connection, and read_CGI_response in another client's socket, wait for
\* client d.
AwaitsBytes(d) ==
  /\ inbox[d] = 0 /\ link[d] = "open"
  /\ \/ pc = "ssl_read" /\ cobjp = d
     \/ pc = "visit" /\ iter # <<>> /\ Head(iter) = d /\ conn_fd[d] \in readfds
AwaitsEnd(d) ==
  pc = "cgi_read" /\ Kind(pipe_fd[cobjp]) = "conn" /\ owner[pipe_fd[cobjp]] = d

\* The thread of the server is scheduled; a client it waits for in SSL_accept,
\* read() or send() answers or goes away; a CGI child that has had its input
\* ends.  Clients owe nothing else.
FairSpec ==
  /\ Spec
  /\ WF_vars(Server)
  /\ \A d \in Conn : /\ WF_vars(AwaitsBytes(d) /\ (Send(d) \/ Shut(d)))
                     /\ WF_vars(AwaitsEnd(d) /\ Shut(d))
  /\ \A f \in Fd : WF_vars(pc \notin Stopped /\ child[f] = "running" /\ ChildExits(f))

-----------------------------------------------------------------------------
(* Correctness *)

Live == {c \in Conn : state[c] # "FREE"}
Handshaking == {c \in Conn : pc = "ssl_accept" /\ c = cobjp}
InPass == pc \in {"visit", "ssl_read", "process", "cgi_read", "write", "finish"}

\* Every variable keeps its type: conn_obj fields, the two fd_sets and the
\* descriptor table never leave the values the code gives them.
TypeOK ==
  /\ pc \in PCs /\ liso_state \in 0..2
  /\ readfds \subseteq FdSet /\ waitfds \subseteq FdSet /\ max_fd \in Nat
  /\ pool \in Seq(Conn) /\ iter \in Seq(Conn) /\ cobjp \in Conn \cup {NoConn}
  /\ state \in [Conn -> States]
  /\ conn_fd \in [Conn -> Fd]
  /\ pipe_fd \in [Conn -> Int] /\ failed \subseteq Conn
  /\ is_pipe \in [Conn -> BOOLEAN]
  /\ linetype \in [Conn -> LineTypes]
  /\ res_open \in [Conn -> BOOLEAN]
  /\ read_size \in [Conn -> {0, 1}]
  /\ write_size \in [Conn -> {0, 1}]
  /\ fdkind \in [Fd -> {"free", "null", "listen", "conn", "pipe", "stray"}]
  /\ owner \in [Fd -> Conn \cup {NoConn}]
  /\ child \in [Fd -> {"none", "running", "held", "exited"}]
  /\ out \in [Fd -> {0, 1}]
  /\ link \in [Conn -> {"off", "open", "eof", "reset"}]
  /\ inbox \in [Conn -> 0..MaxInbox]
  /\ backlog \subseteq Conn

\* The pool lists every connection once, and the nodes iterp has still to
\* visit are the last ones of it, whatever free_connection unlinked during the
\* pass: the iterator never reaches a freed node and skips none that stays
\* (server.c:145-195).
PoolIsLive ==
  /\ \A i, j \in 1..Len(pool) : pool[i] = pool[j] => i = j
  /\ \A i \in 1..Len(pool) : pool[i] \in Live
  /\ \A c \in Live : \E i \in 1..Len(pool) : pool[i] = c

IterIsTail ==
  /\ Len(iter) <= Len(pool)
  /\ \A i \in 1..Len(iter) : iter[i] = pool[Len(pool) - Len(iter) + i]

IteratorSafe == PoolIsLive /\ (InPass => IterIsTail)

\* A connection's conn_fd is an open socket of that client and of no other,
\* and no socket outlives its connection: accept, close and reuse of the
\* lowest descriptor never cross two clients. (What a failed handshake leaks is
\* nobody's connection any more, kind "stray": this says nothing of it.)
DescriptorOwnership ==
  /\ \A c \in Live : fdkind[conn_fd[c]] = "conn" /\ owner[conn_fd[c]] = c
  /\ \A f \in Fd : fdkind[f] = "conn" =>
       /\ owner[f] \in Live \cup Handshaking
       /\ conn_fd[owner[f]] = f

\* One connection has at most one CGI child, and one whose child was launched
\* reads that child's pipe and no other, however many pipes of connections
\* already gone lie around; only where build_CGI_pipe failed does
\* read_CGI_response read what it finds in pipe_fd (cgi.c:188, 206), which may
\* be another live connection's pipe or socket.
PrivateOutput ==
  /\ \A f \in Fd : fdkind[f] = "pipe" /\ owner[f] # NoConn =>
       is_pipe[owner[f]] /\ pipe_fd[owner[f]] = f /\ owner[f] \notin failed
  /\ \A c \in Live : is_pipe[c] /\ c \notin failed =>
       Kind(pipe_fd[c]) = "pipe" /\ owner[pipe_fd[c]] = c

\* select() is asked about every socket, and about every CGI pipe somebody waits
\* for unless its launch failed.
Watched ==
  pc # "dead" =>
    \A c \in Live :
      /\ conn_fd[c] \in waitfds /\ conn_fd[c] <= max_fd
      /\ is_pipe[c] /\ c \notin failed => pipe_fd[c] \in waitfds /\ pipe_fd[c] <= max_fd

\* waitfds names a closed descriptor only where run_liso has closed a listening
\* socket, or has just set the pipe_fd of a connection whose launch failed
\* (server.c:166): close() and FD_CLR never part, and what a failed launch put
\* in outlives no connection, because the next select() ends the call.
WaitSetOpen ==
  \A f \in waitfds : Kind(f) = "free" =>
    f \in ListenFd \/ \E c \in failed : is_pipe[c] /\ pipe_fd[c] = f

\* Once a listening socket is closed (server.c:118, 133) no connection is
\* served any more: the server never goes on with one ear.
NeverHalfDeaf ==
  (\E f \in ListenFd : fdkind[f] = "free") => pc \in {"loop", "select"} \cup Stopped

\* While no launch has failed, a descriptor found in readfds is still readable
\* when its connection's turn comes, whatever was closed, opened and read since
\* select(): recv() and read() have something to return.  SSL_read may
\* wait all the same, for the rest of a record.
StillReadable ==
  InPass /\ failed = {} =>
    \A i \in DOMAIN iter :
      LET c == iter[i]
      IN /\ conn_fd[c] \in readfds => Ready(conn_fd[c])
         /\ is_pipe[c] /\ pipe_fd[c] \in readfds => Ready(pipe_fd[c])

\* The connection as ConnLifecycle sees it: bytes that arrive while a CGI
\* child runs do not take the connection back to "receiving".
Phase(c) ==
  CASE state[c] = "FREE" -> "none"
    [] state[c] = "CLOSED" -> "closing"
    [] state[c] = "RESPONSE_READY" -> IF is_pipe[c] THEN "cgi_answer" ELSE "answering"
    [] state[c] \in {"PARSING", "PARSED"} -> IF is_pipe[c] THEN "cgi" ELSE "receiving"
    [] OTHER -> "idle"

Abstract == INSTANCE ConnLifecycle WITH phase <- [c \in Conn |-> Phase(c)]

\* Every step of the server takes each connection along the promised cycle.
FollowsLifecycle == Abstract!Spec

\* A client in the backlog is accepted unless the call ends first.
BacklogAccepted == \A c \in Conn : c \in backlog ~> c \notin backlog \/ pc \in Stopped

\* A kept-alive connection with no bytes left over is freed once its client is
\* gone.
IdleReclaimed ==
  \A c \in Conn :
    state[c] = "VACANT" /\ read_size[c] = 0 /\ inbox[c] = 0
      /\ link[c] \in {"eof", "reset"}
    ~> state[c] = "FREE" \/ pc \in Stopped

Starved(c) ==
  is_pipe[c] /\ c \notin failed /\ state[c] \in {"PARSED", "PARSING"} /\ pc \notin Stopped

\* The end of a CGI child is noticed, unless its client's socket is readable
\* again and again: then every pass parses and continues (server.c:152-168), as
\* for a client that has left and had bytes unread.
CGINoticed ==
  \A c \in Conn : <>[]Starved(c) => []<>(inbox[c] > 0 \/ link[c] # "open")

\* vulnerabilities.txt:3: a client that comes when no descriptor is left ends
\* the call.
FdLimitStops ==
  pc = "dispatch" /\ readfds \cap ListenFd # {} /\ FreeFds = {} ~> pc \in Stopped

\* server.c:182 "close not opened connections": a connection whose client is
\* gone is closed.
ClosedPeerReaped ==
  \A c \in Conn : state[c] # "FREE" /\ link[c] = "eof" ~> link[c] # "eof" \/ pc \in Stopped

=============================================================================
