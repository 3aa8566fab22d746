# Liso: models, checks and proofs

Liso is a small web server in C: a daemon, one `select()` loop for HTTP and
HTTPS, static files, and one CGI script. This directory holds TLA+ modules
translated from its source, the TLC configurations that check them on small
instances, and TLAPS proofs of the properties that matter most.

    tlc -workers 2 -config server_two.cfg MCLisoServer.tla   # a run
    tlapm LisoServer_proofs.tla                              # the proofs

`PROJECT.json` lists the runs, the source lines behind every definition, the
hazards of the code and the properties that cover them, and for each property
a bug (a `*_Something` operator next to the one it replaces) that breaks it.

## The system

| Component | State | Operations | What makes it correct |
|---|---|---|---|
| Select loop, `server.c` | `waitfds`, `max_fd`, `connection_pool`, iterator | accept, pass over the pool, close or refresh | every waited-for descriptor is watched; the iterator survives removals; one client's trouble stays its own |
| Connections, `conn_obj.c` | `state`, `conn_fd`, `pipe_fd`, buffers | create, read, process, write, refresh, free | one owner per descriptor; an answer follows a request; idle ones are freed |
| CGI, `cgi.c` | pipes, children | `build_CGI_pipe`, `read_CGI_response` | output goes to the connection that asked; its end is noticed; room for every read |
| TLS, `ssl.c` | `SSL_CTX`, one `SSL` per connection | context, handshake | a failed handshake should concern one client (it ends the call, see below) |
| Daemon, `lisod.c` | lock file, `liso_state` | `daemonize`, signals, restart loop | one instance; a signal ends or restarts |
| Lists, `D_linked_list.c` | nodes, iterator | add, remove, iterate, free | behaves as a sequence |
| Responses, `http_generate_response.c`, `file_loader.c` | header list, file, `write_buffer` | build, serialize, load | fits its buffer; the body is the file; errors close |
| Parser, `http_parse_request.c` | `linetype`, `lineptr`, `read_buffer` | `parse_request` | each of several requests is answered as what it is; a body is as long as announced; the scan stays in the buffer |
| String helpers, `common.c` | none | `str_loosecompare` | equal names are equal |
| Logger | a log file | | not modelled |

The loop calls everything else synchronously; the only concurrency is with the
world: clients, CGI children, signals, other processes on the same ports, lock
file and documents. Components interact through shared structures: `cobjp`
passed down from `run_liso`, the read and write buffers, the fd sets, the
global `liso_state` written by a signal handler, and descriptors inherited by
children. The hard behaviours:

- **Reuse.** Descriptors, list nodes and connection objects are freed and
  reused within one pass whose `readfds` and iterator were taken before.
- **Shared fate.** A failed `accept` or handshake makes the loop close its own
  listening socket and leave it in `waitfds`; the call of `run_liso` ends with
  the next `select()`, and the restart in `main` cannot bind the other port,
  which was never closed.
- **Failures nobody looks at.** `build_CGI_pipe`'s result is dropped, so an
  uninitialised `pipe_fd` is watched, and a child whose `execve` failed becomes
  a second server.
- **Files** change between `stat`, `fopen`, `ftell` and `fread`.
- **Requests** arrive in pieces and several at a time, into one buffer whose
  rest is moved while two pointers and a size that may wrap around are kept
  from one call of the parser to the next.
- **Pipes** have a capacity: the one thread that serves everybody sleeps in the
  `write` of a body or the `read` of an output, and children inherit every
  client's socket.

## Modules

### LisoServer: one call of `run_liso`

Variables are the locals of `run_liso` (`readfds`, `waitfds`, `max_fd`, the
pool, what the iterator has still to visit, `cobjp`), the fields of every
`conn_obj`, the kernel's part (what each descriptor is and whose, the CGI child
at the other end of a pipe) and the clients' part (`link`, `inbox`, `backlog`).
`pc` names where `run_liso` is:

| `pc` | Code | Actions |
|---|---|---|
| `loop` | `server.c:106-107` | `Loop` |
| `select` | 109 | `SelectReturns`, `SelectFails` |
| `dispatch` | 115-145 | `AcceptHTTP`, `AcceptHTTPS`, `AcceptFails`, `StartPass` |
| `ssl_accept` | `ssl.c:61` | `SslAcceptOk`, `SslAcceptFails` |
| `visit` | 147-159 | `VisitUnready`, `AwaitsRecord`, `ReadData`, `ReadFails`, `DiesReading`, `EndPass` |
| `ssl_read` | `conn_obj.c:163` | `ReadData`, `ReadFails`, `DiesReading`, once the client has moved |
| `process` | 160-171, `process_connection` | `StaysParsing`, `Answers`, `LaunchesCGI`, `LaunchFails`, `BodyNotWritten`, `AwaitsCGI`, `DiesProcessing` |
| `cgi_read` | 172-178 | `ReadCGIResponse`, `ReadNoCGI`, `ReadSocketOf`, `ReadCGIFails`, `DiesReadingCGI` |
| `write` | 180 | `SendsAll`, `SendFails`, `SendsNothing`, `DiesWriting` |
| `finish` | 182-193 | `Closes`, `Refreshes` |
| `returned`, `dead` | | the call, or the process, is over |

Clients, children and signals move between any two of these.

`create_connection` does not set `pipe_fd`, and `process_connection` does not
look at the result of `build_CGI_pipe`: after a failed launch `pipe_fd` is what
`malloc` left there. It may be any integer (`JunkFd \subseteq Int`), chosen in
`LaunchFailed`, where it is first read. A number of an open descriptor is watched
and read, be it another connection's socket or pipe (`ReadSocketOf`,
`FailsReading`); a closed one is put into `waitfds` and fails the next
`select()`; one that no `fd_set` has a bit for writes and reads other memory
(`SetOutOfBounds`, `NextStop`), of which the process dies or goes on. That such a
bit lands in another variable of `run_liso` is left out. Where the code reads or
writes outside an object elsewhere, the process may die or go on (`Dies*`, and
the plain action beside it). `failed` is a history variable: the connections
whose launch failed, with those of them closed in this pass.

`recv` returns what has come. `SSL_read` is on a blocking socket too: when what
has come is only a part of a record it takes that and waits (`AwaitsRecord`,
`pc = "ssl_read"`), and with it the server, until the client sends the rest or
goes away. The rest comes in one piece: a client that sends it in several makes
the same wait longer.

Abstractions: sizes are 0 or 1, a segment read may be any part of the inbox;
`parse_request` and `read_connection` are the relations `ParseOutcome` and
`ReadOutcome` of ParseResult between old and new `linetype` and `read_size`,
and the deaths in them (`DiesProcessing`, `DiesReading`) come where HttpParser
has them (`AsServerSees`); three incomplete line types are one (`OPEN`); `accept` fails at
the descriptor limit only; records that OpenSSL has taken from the socket and not
yet returned (`SSL_pending`), which `select()` does not see, are left out; a short
`send` is `SendFails`, as the code treats it. A client's socket that was leaked by
a failed handshake is `"stray"`: still open, of use to nobody.

**ConnLifecycle** is what one client can rely on: a connection goes through
idle, receiving, answering and back, or through a CGI child to its end.
LisoServer implements it under the mapping `Phase`.

### HttpParser and ParseResult: requests

`parse_request` over the read buffer of one connection, with what `conn_obj.c`
and `run_liso` do with that connection between two calls. The text of a line is
one symbol, its CR LF another, a byte of a body a third; pointers are offsets
into `read_buffer`, `size_t` counts modulo `SizeT`. `pc` is `select` between two
calls (`Receives`, `ReceivesTooMuch`, `EndOfFile`, `OtherPass`, `Leaves`,
`CGIEnds`), `line` in the loop of lines 62-173 (`NoLine`, `EmptyLine`,
`RequestLine`, `HeaderLine`, `PartOfBody`, `RestOfBody`, `LoopEnds`), `finish` at
the move of lines 175-186 (`FinishesParse`) and `process` in
`process_connection`. What the code does outside the buffer is in the model:
`find_token` with nothing left to scan runs through stale symbols, then through
other memory that may hold anything, to a line end there or to the death of the
process (`RunsOn`, `LineEnds`, `RunsOff`); `memcpy` and `memmove` take other
memory along or die (`Copied`, `Moved`, `CopiesTooFar`); a read with a wrapped
`read_size` writes in front of the buffer (`ReadOffset`, `DamagesHeap`).

The length of a body is `atoi`'s `int`, made a `size_t` for `malloc` and the
comparison with what is unread, and an `int` again in `content_length`
(`TakenLength`, `Missing`, `Allocates`): with -1 there is one byte of room and all
that is unread is copied, with -3 `malloc` of nearly everything fails
(`OverrunsBody`: the process may die of it, or the copy goes through). A later
call that finds no `message_body` follows `tmp`, which it has not set. `BodyFits` is
therefore about lengths that are not negative; for others it is false. `malloc`
fails for wrapped sizes only.

The client is served in one of two ways. `"cut"`: its segments end anywhere.
`"whole"`: they end with a request or inside a request line, with no more behind
any request that waits than that request is long, and none while a CGI child
answers; and each body is as long as the last Content-Length sent (`Framed`; a
GET has none, and a negative length is never right). The two are kept apart because the parser keeps less than it seems to:
a call that finds no complete line returns without saving `lineptr` (line 69), so
that lines already taken are taken once more by the next call and a request cut
behind a complete line is answered 400; and a body cut in two is continued from
where `lineptr` was left, while the bytes are at the start of the buffer. Properties that promise
an answer are about `"whole"`; those that promise that nothing breaks (`BodyFits`,
`OkHasUri`, `AsServerSees`) are about both.

Why *any* request that waits, and not just the one in hand: line 182 moves as
many bytes as were read, not as many as are left. A request may lie in the buffer
unparsed after an answer (`server.c:192` says `VACANT`), and more may come behind
it before it is parsed. When two short GETs and the first line of a third are
read behind a long POST, the move after the first GET takes one symbol too few,
and that line is lost. The proof attempt found this, and TLC a run of it, when the
bound was on the request in hand only.

`SameName` is what `str_loosecompare` does to names: `str_truncate` drops the last
letter of both, so that "Hosx" is taken for "Host". `WellFormed` does not share
that: it asks for Host itself. `AnswersFit` promises each well-formed request its
answer, and an error to each request that does not even pass as well-formed by
the server's mistake (`PassesAsWellFormed`); the requests in between, which the code
serves though it should not, are promised nothing.

What these properties do not say: a request that lies complete in the buffer as
`VACANT` (`server.c:192`) may wait for ever for more input; a read that fills the
buffer loses its bytes; a request cut behind a header line is refused. All three are
in the model. SSL_write returning 0, after which the same request is answered
again, is in LisoServer (`SendsNothing`) and Response only.

**ParseResult** has the two relations LisoServer uses in place of all this.

### CgiPipes: a server and its children

`build_CGI_pipe` and `read_CGI_response` over pipes of `PipeSize` bytes, for
several connections whose children run side by side. The server's thread is in
`select`, `write` (the body, any part at a time) or `read` (the output, to its
end); a child prints, reads its stdin and prints again as its script says, may
be killed at any point, and holds the sockets it has inherited. One whose
`execve` failed (`cgi.c:163`) is a `"copy"` of the server that neither reads its
stdin, nor prints, nor ends; what it serves is LisoDaemon's. A signal makes
a `write` that sleeps return early (`Signal`).

The pipe of a child is read in a pass that finds its client's socket quiet only:
`server.c:152-168` takes a readable connection through `PARSING`, and `continue`
skips the pipe. `socket` says whether bytes wait or the client is gone, `rest`
whether `read_size` is not 0 though the request is complete. Bytes delay the
read (`TakesBytes`); a client that is gone with nothing left over takes its
connection along (`Departs`); with bytes left over every pass parses again and
the pipe is not read any more, unless the size, reduced by the same request
each time, happens to come out at 0 (`ParsesAgain`). What a child expects on stdin is
what `build_environ_header` told it (`Environ`); what it gets is what the parser
put into `message_body` (`ContentLength`). Lengths are not negative here: such a
POST does not get beyond its body in the parser.

### LisoDaemon: processes

`lisod.c`, the first half of `run_liso` and `fork`/`execve`, with everything
between two `select()` calls as one step. Each process has its `pc`,
`liso_state` and the listening sockets it holds; a child inherits the sockets,
not the lock. A process may fail at any start-up step and be killed by a signal
before its handlers are installed.

### DLinkedList and ListSpec: lists

Pointers, addresses and `malloc`/`free` of `D_linked_list.c`; `fault` records a
dereference of `NULL` or of a freed node, and a new node comes with both
pointers cleared, as `create_node` leaves it (`Blank`). ListSpec is the sequence with an
iterator that callers have in mind, and `ImplementsList` the refinement. One
call is one step: there is one thread.

### Response: bytes of an answer

The answers of one connection, one request after the other: `access_file` with
`stat`, `fopen`, `ftell` and `fread` apart and other users of the file in
between, the headers by their lengths in bytes, `allocate_write_buffer`,
`serailize_http_response`, `write_connection`, and the buffer
`read_CGI_response` reads into. `realloc` does not fail here (vulnerabilities.txt:1
says the server crashes then; LisoServer has that as `DiesReadingCGI` and
`ReadCGIFails`).

### MC modules

MCLisoServer adds an action constraint, MCLisoDaemon a symmetry set;
MCHttpParser has the requests a client may send, MCCgiPipes those and the
scripts.

## Runs

| Run | Shows | States |
|---|---|---|
| `server_two` | two clients: `IteratorSafe`, `DescriptorOwnership`, `PrivateOutput`, `Watched`, `StillReadable` | 2,850,000 |
| `server_cgi` | one TLS client that may do everything: types; `select()` gets a closed descriptor from a closed listening socket or a failed launch only (`WaitSetOpen`); LisoServer implements ConnLifecycle (`FollowsLifecycle`); `CGINoticed` | 1,080,000 |
| `server_live` | descriptors run out: `NeverHalfDeaf`, `BacklogAccepted`, `IdleReclaimed`, `FdLimitStops` | 243,000 |
| `parser` | requests in a row: `AnswersFit`, `BufferIsStream`, `WholeStaysInside`, `WholeRequestAnswered`; and cut anywhere: `BodyFits`, `OkHasUri`, `AsServerSees` | 171,000 |
| `cgi_pipes` | two children: `StandoffNeedsBoth`, `BodyReachesChild`, `EndSeen` | 1,500,000 |
| `daemon` | `OneInstance`, `ServesAlone` | 122,000 |
| `daemon_live` | `SignalEnds`, `ReturnEnds` | 17,000 |
| `list` | `NeverFaults`, `WellLinked`, `ImplementsList` | 21,000 |
| `response` | `ResponseFits`, `BodyIsRead`, `ErrorsClose`, `NothingCarriedOver`, `CGIRoomAtFirst` | 86,000 |

Three runs find the code at odds with something the repository says of it:

- `server_closed_peer`: `server.c:182` "close not opened connections". A client
  that goes away after part of a request leaves `read_size > 0`; the failed read
  then leads to `PARSING` (152-158), in every pass, for ever.
- `daemon_first`: `lisod.c:52` "only first instance continues". A child whose
  `execve` failed goes on in its parent's loop.
- `response_cgi`: vulnerabilities.txt:2 "buffersize is always 4096 bits more
  than actual usage". A connection that was kept alive has a buffer of the size
  of its last response when a CGI request comes.

Properties that hold and may surprise: `FdLimitStops` (one client too many ends
the call, as vulnerabilities.txt:3 says), `NeverHalfDeaf` (because the closed
socket is *not* taken out of `waitfds`, the loop stops instead of serving with
one port), `ReturnEnds` and `SignalEnds` (the restart on SIGHUP never succeeds),
`AnswersFit` (in spite of a `memmove` with the wrong length, as long as no
more waits behind a request than it is long), `StandoffNeedsBoth` (a body *or* an output of any
size is fine; with both larger than a pipe the server stops for everybody, the
run reaches that).

Properties with an exception that the code takes:

- `PrivateOutput`: a connection whose own launch failed may read another's pipe or
  socket. Everybody else reads their own.
- `WaitSetOpen`: what such a connection puts into `waitfds` may be closed. It stays
  there for the rest of that pass, and the next `select()` ends the call.
- `StillReadable`: a descriptor that `select()` reported is still readable when its
  connection's turn comes, while no launch has failed. This is what `recv` and
  `read` need in order to return; `SSL_read` may wait all the same (`AwaitsRecord`).
- `CGINoticed`: a CGI connection that waits is served in the end, or its client's
  socket is readable again and again. A client that has left, with bytes left
  over, is of the second kind for ever, and its child is never noticed.
- `EndSeen`: a connection the server closed is closed for its client once the
  children that hold its socket have ended, and they do, but for a copy of the
  server, a child whose output is no longer read, and one behind a standoff; for
  clients none of which sends without end.
- `BodyReachesChild`: but for a `write` a signal has cut short.

### Bounds

- `server_two`: one TLS and one CGI client are the two kinds of turn that
  disturb each other; `MaxFd = 7` leaves five descriptors: a launch succeeds
  while the other client is away, which may then come beside the running
  child, and fails, leaking its first pipe, while both are connected. Clients do not reset and `fork`
  does not fail here; `server_cgi` has both. `MoveWhenRead` keeps one of the
  orders in which a server step and an independent outside move can come: a
  client, child or signal moves while the server is in `select()`, while it waits
  in `SSL_read`, or just before the step that reads what it changes. A move it forbids changes
  nothing the server reads until then, so that every sequence of the server's
  states is still there; the invariants of this run speak of the server's state
  and, for `StillReadable`, of readiness, which moves only add to
  (bytes and ends of file do not go away). `JunkFd = {3, 4, 6, 12}`: both clients'
  sockets, a number that is now free and now a pipe, and one that is never open.
- `server_live`: `MaxFd = 5` runs out after the first failed CGI launch, which
  may leave a connection with its own or the other client's socket in `pipe_fd`.
- `server_cgi`: one client; `MaxFd = 8` leaves six descriptors, enough for a
  connection, the four of a CGI launch and one leaked pipe; `AnyInt = {-1, 0, 12, 99}`
  has /dev/null, a closed number and two that no `fd_set` of 16 bits holds; `MaxInbox = 1`, as a
  read that leaves something is the same to the loop as a client that sends
  again; one signal, since `run_liso` only compares `liso_state` with 0.
- `parser`: a buffer of 24 symbols holds any one of the requests and those
  that may be in it together, and overflows for more; `SizeT = 64` wraps sizes
  well above the buffer; up to four requests: static ones, a malformed
  one in each way (no Host, no Content-Length, an unknown method, no request
  line, a relative URI, a line that is no header), bodies of 0 to 4 bytes, two
  Content-Length headers, a Content-Length longer than the body, of -1 and of -3,
  a CGI request
  behind another, three short requests behind a long one. `MaxHeaders = 4` ends the growth of the list of a
  request that begins with a header and is parsed again in every pass;
  `MaxOverrun = 2` line ends behind the buffer.
- `cgi_pipes`: pipes of two bytes, bodies and outputs of up to three: smaller than a
  pipe and larger, for both at once; three kinds of request (a large body, two
  Content-Length headers, one refused by the parser) by three scripts; two
  connections, so that one child holds the other's socket, of which one has a
  client that may send more or leave (`Restless`); `CHECK_DEADLOCK FALSE`, because a standoff and the end of
  everybody are states in which nothing moves.
- `daemon`: three processes are a daemon, its child and a successor;
  `MaxSignals = 2` in `daemon`, 3 in `daemon_live`, one more than it takes to
  interrupt a restart.
- `list`: four nodes: a first, a last and two inner ones, with two values so
  that duplicates occur; every interleaving of calls, as the graph is finite.
- `response`: an empty file, one byte, three digits and four, larger than
  `BUF_SIZE`; up to three reads of 1 or 4096 bytes.

### Fairness

- `WF(Server)`: the thread runs. It includes the end of what it waits for in
  `SSL_accept`: a client that neither answers nor goes away does stop Liso, and
  nothing liveness says holds then.
- `WF(AwaitsBytes(d) /\ ...)`, `WF(AwaitsEnd(d) /\ ...)`: a client for which the server
  sleeps in `SSL_read`, or, after a failed launch, in `read` of its socket, sends
  the rest or goes away. As with the handshake, one that does neither stops Liso.
- `WF(ChildExits)`: a CGI script that has had its input ends. `read_CGI_response`
  waits for it. Not one whose stdin was left open by a failed write (`"held"`).
- `WF(Main(p))` for each process of LisoDaemon. `Wakes` (some client connects),
  `Start`, `Kills` and the script's end have none.
- `parser`: `WF(ParseRequest \/ Process)`: a call goes on. Passes, segments
  and the client have none.
- `cgi_pipes`: `WF(Server)` and `WF(Child(c))` for each child: who is not asleep
  goes on. Nobody is killed, signalled or disconnected by fairness. `LaunchesCGI` and
  `ParsesAgain` have none: no request has to come, and no size to come out at 0.
- Clients the server does not sleep for owe nothing: none has to send, read or
  leave.

## Proofs

For every value of the constants that satisfies the modules' `ASSUME`s. Each
safety property of every passing run is proved, and so are both refinements.

- `LisoServer_proofs`. `TypeCorrect`: `TypeOK` with the sequences and functions
  it needs is inductive. `IteratorAlwaysSafe`: `IteratorSafe` alone is not
  inductive, as `Closes` removes the connection in hand and the iterator stays
  a tail of the pool only because that connection is already behind it
  (`HandIsPast`), and a client is added only if it has no connection yet
  (`NotYetLive`); `PoolInv` is the three together. `DescriptorsAlwaysOwned`:
  `OwnInv` adds that a live or handshaking connection holds a socket in the
  client range (`SocketsHeld`), so that closing it frees nobody else's; its
  proof uses `PoolInv` for the connection in hand.
- `LisoServerWatch_proofs`, on those invariants. `OutputAlwaysPrivate`,
  `AlwaysWatched` and `WaitSetAlwaysOpen` come from one invariant, `KeepInv`:
  a pipe is owned by the live connection whose `pipe_fd` it is or by nobody, a
  launch that did not fail has its own, and only a connection without a child is
  refreshed (`PipesHeld`); a failed launch makes a CGI connection to its end
  (`FailedHeld`); a closed descriptor is in `waitfds` only between the turn of a
  connection that put it there, which is then `Behind` the iterator, and the next
  `select()` (`ClosedHeld`); both listening sockets and all that is waited for are
  in `waitfds` (`WatchHeld`). `Watched` needs the first to know that `Closes` takes
  away no descriptor another connection waits for; `ClosedHeld` needs that a
  connection which put junk in is not closed in the same pass. Nothing is assumed
  of `JunkFd` but that it holds integers. `ServesWithBothEars` is an induction of its
  own: a descriptor that was closed stays in `waitfds`, and `select()` fails.
  `AlwaysStillReadable` says of the snapshot `readfds`: what is still `Ahead` of the
  iterator and was reported is still ready (`NoBlock`), from `select()` on
  (`StillReady`), while no launch has failed. It holds because a pass opens no
  descriptor that a connection ahead was reported for, which needs ownership and
  `PipesHeld`, and because each connection reads its own only.
- `LisoServerLifecycle_proofs`. `ImplementsLifecycle`: the initial states map to
  initial states, and each step of the server is one edge of ConnLifecycle for
  one connection, or a stutter. `StateInv` is what the mapping needs: which
  state the connection in hand has at each point of its turn, and that no other
  one is ever `SENT` or `CLOSED`.
- `HttpParser_proofs`, for any buffer, any width of `size_t` larger than it and
  any requests, cut anywhere. `ParserInv` adds to the properties what a call
  knows of the request it began with (`SinceEntry`) and when `message_body` is
  there (`BodyHeld`); `ParserAsServerSees` follows step by step, deaths included.
  `BodyAlwaysFits` is for lengths that are not negative.
  `AnswersAlwaysFit`, `BufferAlwaysIsStream` and `WholeAlwaysInside` come from one
  invariant for a client served `"whole"`, `ServedWhole`. It says at each `pc`
  what of the request in hand has been taken: nothing (`AtFirstLine`), its line and
  its first `j` headers (`AtHeader`), all but the body (`AtBody`), all of it
  (`Judged`) or enough to refuse it (`Refused`), where the pointers are then, and
  that the buffer has the stream from the start of that request on (`Buffered`).
  Where the bytes of a request are is computed from the script: `RequestSymbols`
  gives every symbol of request `k + 1` in the stream, and `LaidOut` finds it in the
  buffer. `Sent` is a recursive function; `SentSteps` and `SentGrows` are
  inductions written as a least counterexample. Then there is one lemma per
  action: `NextLine` says which line `find_token` cuts off, `KeptGrows` and
  `CompleteRequest` that the list of headers decides what `WellFormed` says,
  `RestOfBodyWhole` that the body copied is the body sent, and `FinishesWhole` that
  the move leaves the rest in place, which is where the bound on what may wait
  (`Delivered`) is needed.
- `CgiPipes_proofs`, for any connections, requests and scripts, and pipes of
  any size. `PipeInv`: a child that runs was told of its own request
  (`Launched`), the body of a child the server is not writing to is written
  unless a signal came (`WrittenToEnd`), and nobody prints more than its script
  says (`PrintsNoMore`). `StandoffAlwaysNeedsBoth` is arithmetic on top of it and of
  `CopyIsSilent`: the server does not read from a child whose `execve` failed.
- `LisoDaemon_proofs`. `TypeCorrect`. `OneInstanceAlways` from: whoever is past
  `daemonize` and was started, not forked, has the lock (`LockHeld`).
  `ServesAloneAlways` from: a process in `run_liso`'s loop holds at least one
  port, and processes that hold a port in common descend from one daemon
  (`PortsHeld`); the lock plays no part.
- `Response_proofs`. One invariant for four theorems: each header line is at
  most 46 bytes of the 255 counted for it (`HeadersBounded`), where the room
  behind CGI output comes from (`RoomKnown`), and what of the file has been read
  at each point (`FileRead`). `TypeCorrect` and `ErrorsAlwaysClose` add the
  ranges (`Ranges`, `Flags`) and that a response still open when it is laid out
  is a 200 which says keep-alive (`OpenIsOK`).
- `DLinkedList_proofs`, for any number of nodes and any data. The invariant
  `ListInv` says that there is a sequence `s` of nodes without repetition which
  the pointers spell in both directions (`Linked`): `next` and `prev` of `s[i]`
  are its neighbours, `header` and `tailer` its ends, `count` its length, the
  nodes in use its members. `AddHeadLinks`, `AddTailLinks` and `RemoveNodeLinks`
  give the new sequence after each call, with the case splits of
  `D_linked_list.c:164-176` on a first, last, only or inner node.
  `NeverFaultsAlways` is part of the invariant; `AlwaysWellLinked` and
  `ImplementsSequence` need besides what the walk `Chain` computes, a recursive
  function: `WalkUnique` shows by a least counterexample that whatever satisfies
  its equation is the walk, and `ChainOfPath` that a path of linked nodes is
  therefore its result. `ImplementsSequence` then maps each call to the step of
  ListSpec (`AddHeadRefines` ... `RenewRefines`), for an iterator anywhere in the
  list. It assumes that `Stale`, the value that stands for what an iterator on a
  removed node would return, is not a sequence of data.

Only model-checked is liveness, as TLAPS proves none and no `ENABLED`:
`BacklogAccepted`, `IdleReclaimed`, `FdLimitStops`, `CGINoticed`, `SignalEnds`,
`ReturnEnds`, `WholeRequestAnswered`, `EndSeen`.

## Not modelled

- The logger (no state anyone reads), keys, certificate, Makefile.
- The environment of a CGI child but for `CONTENT_LENGTH` and `REQUEST_METHOD`,
  upper and lower case and blanks in header names, the text of URIs and paths:
  data that no promise depends on.
- OpenSSL's own buffers: how much of a TLS record stays in them, unseen by
  `select()`, is the library's affair; src/ has only the calls. The wait for the
  rest of a record is modelled.
- Memory exhaustion elsewhere than in `read_CGI_response` and of sizes that have
  wrapped in the parser.
- Which variable a bit set outside an `fd_set` lands in.
- In HttpParser a body is at most what the buffer holds at a time; one that
  does not fit arrives in several reads, whose pieces come from wherever
  `line_ptr` points (`PartOfBody`). In CgiPipes a connection is used for one
  request and at most one signal comes, since a later one changes nothing
  `run_liso` looks at.
- The Python scripts under `cgi/` and `flaskr/`: children are external, with
  any amounts printed and read.

## How it was built, and what is left

In order: LisoServer with ConnLifecycle, LisoDaemon, DLinkedList with ListSpec,
Response, each with its proofs; then HttpParser with ParseResult, CgiPipes, and
the proofs of the remaining safety invariants and of the refinement.

Worth doing next:

1. TLS bytes that OpenSSL holds back, as a second inbox of LisoServer that
   `select()` does not see.
2. `"cut"` delivery with an exact account of which requests survive it; today
   only what must not break is stated.
