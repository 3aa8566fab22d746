------------------------------- MODULE CgiPipes -------------------------------
(***************************************************************************)
(* The two pipes between run_liso and its CGI children (cgi.c): what a     *)
(* child is told and sent by build_CGI_pipe, what read_CGI_response takes  *)
(* from it, and who waits for whom when a pipe is full or empty.           *)
(*                                                                         *)
(* The server's one thread sits in select(), in the write() of a body or   *)
(* in the read() of an output.  A byte in a pipe is one that was put in    *)
(* and not taken out, so that pipes are differences of counters.  The      *)
(* clients only matter for what keeps the server from their children's     *)
(* output.  The rest of the loop is LisoServer's; a connection is not used *)
(* again here.                                                             *)
(***************************************************************************)
EXTENDS Integers, Sequences

CONSTANTS
  Conn,      \* the connections open at the start
  NoConn,
  PipeSize,  \* bytes a pipe holds
  Requests,  \* requests for a URI under /cgi
  Scripts,   \* what the CGI program may do
  Restless,  \* the clients that may send more, or leave
  ExecFails, \* whether execve() may fail
  Signals    \* whether SIGHUP or SIGTERM may come

\* A request is its method, the values of its Content-Length headers with the
\* one get_header_value finds in front, and whether the parser left it an
\* ERROR: it is under /cgi all the same.
NoLength == -1
Length(q) == IF q.lengths = <<>> THEN NoLength ELSE Head(q.lengths)

\* A script prints, reads ("none", as many bytes as CONTENT_LENGTH says, or
\* "all" there is), prints again and ends.
ASSUME PipesAssumption ==
  /\ NoConn \notin Conn /\ Restless \subseteq Conn
  /\ PipeSize \in Nat \ {0}
  /\ Requests \subseteq
       [method : {"GET", "POST", "HEAD"}, lengths : Seq(Nat), error : BOOLEAN]
  /\ \A q \in Requests : q.method = "POST" /\ q.lengths = <<>> => q.error
  /\ Scripts \subseteq [before : Nat, reads : {"none", "length", "all"}, after : Nat]
  /\ ExecFails \in BOOLEAN /\ Signals \in BOOLEAN

VARIABLES
  pc, cur,     \* where run_liso is, and with whose child
  liso_state,
  state,       \* of each conn_obj; FREE once free_connection is through
  socket,      \* whether bytes wait in it ("bytes"), or its client is "gone"
  rest,        \* whether read_size is not 0 though the request is complete
  req, script, \* the request, and the program started for it
  environ,     \* what the child was told of the request
  phase,       \* where the child is in its script
  held,        \* sockets it has inherited
  sent, got,   \* bytes written to its stdin, and read from there
  wrote, response \* bytes it printed, and those read_CGI_response has read

serverVars == <<pc, cur, liso_state, state>>
clientVars == <<socket, rest>>
launchVars == <<req, script, environ, held>>
pipeVars == <<sent, got, wrote, response>>
vars == <<serverVars, clientVars, launchVars, phase, pipeVars>>

Stopped == {"returned", "dead"}
Phases == {"none", "before", "read", "after", "exited", "copy"}

Init ==
  /\ pc = "select" /\ cur = NoConn /\ liso_state = 0
  /\ state = [c \in Conn |-> "PARSING"]
  /\ socket = [c \in Conn |-> "quiet"] /\ rest = [c \in Conn |-> FALSE]
  /\ req \in [Conn -> Requests] /\ script \in [Conn -> Scripts]
  /\ environ = [c \in Conn |-> [CONTENT_LENGTH |-> NoLength, REQUEST_METHOD |-> ""]]
  /\ phase = [c \in Conn |-> "none"]
  /\ held = [c \in Conn |-> {}]
  /\ sent = [c \in Conn |-> 0] /\ got = [c \in Conn |-> 0]
  /\ wrote = [c \in Conn |-> 0] /\ response = [c \in Conn |-> 0]

-----------------------------------------------------------------------------
(* The pipes *)

\* message_body is filled for a POST only, and not before its headers are
\* complete.
ContentLength(c) ==
  IF req[c].method = "POST" /\ ~req[c].error THEN Length(req[c]) ELSE 0

\* Mutant: the zero behind message_body is written too.
ToWrite_Zero(c) == ContentLength(c) + 1 - sent[c]

ToWrite(c) == ContentLength(c) - sent[c]
InStdin(c) == sent[c] - got[c]
InStdout(c) == wrote[c] - response[c]

Runs(c) == phase[c] \notin {"none", "exited"}

\* Mutant: stdin_pipe[1] is not closed after the write.
StdinOpen_Kept(c) == Runs(c)

\* The server has the write end, nobody else.
StdinOpen(c) == pc = "write" /\ cur = c

-----------------------------------------------------------------------------
(* The server *)

\* Mutant: the last Content-Length header is passed on.
Environ_Last(q) ==
  [CONTENT_LENGTH |-> IF q.lengths = <<>> THEN NoLength ELSE q.lengths[Len(q.lengths)],
   REQUEST_METHOD |-> q.method]

\* build_environ_header, of which these two say what to expect on stdin.
Environ(q) == [CONTENT_LENGTH |-> Length(q), REQUEST_METHOD |-> q.method]

\* fork(): the child keeps every socket the server has open.  If execve()
\* fails it goes on as a copy of the server, which neither reads its stdin nor
\* prints, nor ends.
LaunchesCGI(c) ==
  /\ pc = "select" /\ state[c] = "PARSING"
  /\ environ' = [environ EXCEPT ![c] = Environ(req[c])]
  /\ held' = [held EXCEPT ![c] = {d \in Conn : state[d] # "FREE"}]
  /\ \E p \in {"before"} \cup (IF ExecFails THEN {"copy"} ELSE {}) :
       phase' = [phase EXCEPT ![c] = p]
  /\ pc' = "write" /\ cur' = c
  /\ UNCHANGED <<liso_state, state, req, script, clientVars, pipeVars>>

\* write() sleeps while the pipe is full.
WritesBody(n) ==
  /\ pc = "write" /\ Runs(cur)
  /\ n <= ToWrite(cur) /\ InStdin(cur) + n <= PipeSize
  /\ sent' = [sent EXCEPT ![cur] = @ + n]
  /\ UNCHANGED <<serverVars, clientVars, launchVars, phase, got, wrote, response>>

\* Mutant: the pipe is not watched.
WriteReturns_Unwatched == pc' = "select" /\ cur' = NoConn /\ UNCHANGED state

\* Its result is only compared with 0: a short count is taken for the whole.
WriteReturns ==
  /\ pc' = "select" /\ cur' = NoConn
  /\ state' = [state EXCEPT ![cur] = "PARSED"]

FinishesWrite ==
  /\ pc = "write" /\ ToWrite(cur) = 0
  /\ WriteReturns
  /\ UNCHANGED <<liso_state, clientVars, launchVars, phase, pipeVars>>

\* SIGPIPE: nobody has the read end any more.
DiesWriting ==
  /\ pc = "write" /\ ToWrite(cur) > 0 /\ ~Runs(cur)
  /\ pc' = "dead"
  /\ UNCHANGED <<cur, liso_state, state, clientVars, launchVars, phase, pipeVars>>

\* A pass that finds the client's socket readable takes the connection through
\* PARSING, and continue skips its pipe.  The size of what is left over is
\* reduced by the length of the request each time, and may come out at 0.
TakesBytes(c) ==
  /\ pc = "select" /\ state[c] # "FREE" /\ socket[c] = "bytes"
  /\ socket' = [socket EXCEPT ![c] = "quiet"]
  /\ \E r \in BOOLEAN : rest' = [rest EXCEPT ![c] = r]
  /\ UNCHANGED <<serverVars, launchVars, phase, pipeVars>>

\* A read at a size that has wrapped around writes in front of read_buffer.
DiesTaking(c) ==
  /\ pc = "select" /\ state[c] # "FREE" /\ socket[c] = "bytes" /\ rest[c]
  /\ pc' = "dead"
  /\ UNCHANGED <<cur, liso_state, state, clientVars, launchVars, phase, pipeVars>>

\* So does every pass once the client is gone, as long as anything is left over.
ParsesAgain(c) ==
  /\ pc = "select" /\ state[c] # "FREE" /\ socket[c] = "gone" /\ rest[c]
  /\ rest' = [rest EXCEPT ![c] = FALSE]
  /\ UNCHANGED <<serverVars, socket, launchVars, phase, pipeVars>>

\* With nothing left over the connection of a client that is gone is freed; the
\* pipe of its child is neither read nor closed any more.
Departs(c) ==
  /\ pc = "select" /\ state[c] # "FREE" /\ socket[c] = "gone" /\ ~rest[c]
  /\ state' = [state EXCEPT ![c] = "FREE"]
  /\ UNCHANGED <<pc, cur, liso_state, clientVars, launchVars, phase, pipeVars>>

\* Only a pass that does not find the client's socket readable reads the pipe.
StartsRead(c) ==
  /\ pc = "select" /\ state[c] = "PARSED" /\ socket[c] = "quiet"
  /\ InStdout(c) > 0 \/ ~Runs(c)
  /\ pc' = "read" /\ cur' = c
  /\ UNCHANGED <<liso_state, state, clientVars, launchVars, phase, pipeVars>>

Reads(n) ==
  /\ pc = "read" /\ n <= InStdout(cur)
  /\ response' = [response EXCEPT ![cur] = @ + n]
  /\ UNCHANGED <<serverVars, clientVars, launchVars, phase, sent, got, wrote>>

\* read() returns 0 when the child has ended and everything is read.  The
\* output is sent and the connection closed; with no output there is nothing
\* to write, and the connection stays RESPONSE_READY.
FinishesRead ==
  /\ pc = "read" /\ InStdout(cur) = 0 /\ ~Runs(cur)
  /\ pc' = "select" /\ cur' = NoConn
  /\ state' = [state EXCEPT ![cur] = IF response[cur] = 0 THEN "RESPONSE_READY" ELSE "FREE"]
  /\ UNCHANGED <<liso_state, clientVars, launchVars, phase, pipeVars>>

Returns ==
  /\ pc = "select" /\ liso_state # 0
  /\ pc' = "returned"
  /\ UNCHANGED <<cur, liso_state, state, clientVars, launchVars, phase, pipeVars>>

\* The first signal; another one finds liso_state set already.
\* signal() restarts a read(), and a write() that has not written anything; a
\* write() that sleeps after a part returns that part.
Signal ==
  /\ Signals /\ liso_state = 0 /\ pc \notin Stopped
  /\ liso_state' = 1
  /\ IF pc = "write" /\ InStdin(cur) = PipeSize /\ sent[cur] > 0
          /\ ToWrite(cur) > 0
     THEN WriteReturns
     ELSE UNCHANGED <<pc, cur, state>>
  /\ UNCHANGED <<clientVars, launchVars, phase, pipeVars>>

-----------------------------------------------------------------------------
(* The clients *)

Sends(c) ==
  /\ pc \notin Stopped /\ c \in Restless /\ state[c] # "FREE" /\ socket[c] = "quiet"
  /\ socket' = [socket EXCEPT ![c] = "bytes"]
  /\ UNCHANGED <<serverVars, rest, launchVars, phase, pipeVars>>

\* What waits in the socket is read before the end of it.
Leaves(c) ==
  /\ pc \notin Stopped /\ c \in Restless /\ state[c] # "FREE" /\ socket[c] = "quiet"
  /\ socket' = [socket EXCEPT ![c] = "gone"]
  /\ UNCHANGED <<serverVars, rest, launchVars, phase, pipeVars>>

-----------------------------------------------------------------------------
(* The child *)

Prints(c) == IF phase[c] = "before" THEN script[c].before
             ELSE script[c].before + script[c].after

ChildWrites(c) ==
  /\ pc \notin Stopped /\ phase[c] \in {"before", "after"}
  /\ wrote[c] < Prints(c) /\ InStdout(c) < PipeSize
  /\ wrote' = [wrote EXCEPT ![c] = @ + 1]
  /\ UNCHANGED <<serverVars, clientVars, launchVars, phase, sent, got, response>>

ChildGoesOn(c) ==
  /\ pc \notin Stopped /\ phase[c] \in {"before", "after"}
  /\ wrote[c] >= Prints(c)
  /\ phase' = [phase EXCEPT ![c] = IF @ = "before" THEN "read" ELSE "exited"]
  /\ UNCHANGED <<serverVars, clientVars, launchVars, pipeVars>>

WantsMore(c) ==
  \/ script[c].reads = "all"
  \/ script[c].reads = "length" /\ got[c] < environ[c].CONTENT_LENGTH

ChildReads(c) ==
  /\ pc \notin Stopped /\ phase[c] = "read"
  /\ WantsMore(c) /\ InStdin(c) > 0
  /\ got' = [got EXCEPT ![c] = @ + 1]
  /\ UNCHANGED <<serverVars, clientVars, launchVars, phase, sent, wrote, response>>

ChildHasRead(c) ==
  /\ pc \notin Stopped /\ phase[c] = "read"
  /\ ~WantsMore(c) \/ (InStdin(c) = 0 /\ ~StdinOpen(c))
  /\ phase' = [phase EXCEPT ![c] = "after"]
  /\ UNCHANGED <<serverVars, clientVars, launchVars, pipeVars>>

ChildDies(c) ==
  /\ pc \notin Stopped /\ Runs(c)
  /\ phase' = [phase EXCEPT ![c] = "exited"]
  /\ UNCHANGED <<serverVars, clientVars, launchVars, pipeVars>>

-----------------------------------------------------------------------------

Server ==
  \/ \E n \in 1..PipeSize : WritesBody(n) \/ Reads(n)
  \/ FinishesWrite \/ DiesWriting \/ FinishesRead \/ Returns
  \/ \E c \in Conn : StartsRead(c) \/ TakesBytes(c) \/ Departs(c)

Child(c) == ChildWrites(c) \/ ChildGoesOn(c) \/ ChildReads(c) \/ ChildHasRead(c)

Next ==
  \/ Server \/ Signal
  \/ \E c \in Conn :
       \/ LaunchesCGI(c) \/ DiesTaking(c) \/ ParsesAgain(c)
       \/ Sends(c) \/ Leaves(c) \/ Child(c) \/ ChildDies(c)

Spec == Init /\ [][Next]_vars

\* The server's thread runs, and every child does what it can.
FairSpec == Spec /\ WF_vars(Server) /\ \A c \in Conn : WF_vars(Child(c))

-----------------------------------------------------------------------------
(* Correctness *)

Typed ==
  /\ pc \in {"select", "write", "read"} \cup Stopped
  /\ cur \in Conn \cup {NoConn} /\ liso_state \in {0, 1}
  /\ pc \in {"write", "read"} => cur \in Conn
  /\ state \in [Conn -> {"PARSING", "PARSED", "RESPONSE_READY", "FREE"}]
  /\ socket \in [Conn -> {"quiet", "bytes", "gone"}] /\ rest \in [Conn -> BOOLEAN]
  /\ req \in [Conn -> Requests] /\ script \in [Conn -> Scripts]
  /\ phase \in [Conn -> Phases] /\ held \in [Conn -> SUBSET Conn]
  /\ environ \in [Conn -> [CONTENT_LENGTH : Nat \cup {NoLength},
                           REQUEST_METHOD : {"", "GET", "POST", "HEAD"}]]
  /\ sent \in [Conn -> Nat] /\ got \in [Conn -> Nat]
  /\ wrote \in [Conn -> Nat] /\ response \in [Conn -> Nat]

Bounded ==
  \A c \in Conn :
    /\ InStdin(c) \in 0..PipeSize /\ InStdout(c) \in 0..PipeSize
    /\ sent[c] <= ContentLength(c)

\* Every variable keeps its type, and the pipes hold what a pipe can hold;
\* no byte behind the body is written.
TypeOK == Typed /\ Bounded

ServerWaits ==
  \/ pc = "write" /\ ToWrite(cur) > 0 /\ InStdin(cur) = PipeSize
  \/ pc = "read" /\ InStdout(cur) = 0

ChildWaits(c) ==
  \/ phase[c] \in {"before", "after"} /\ wrote[c] < Prints(c) /\ InStdout(c) = PipeSize
  \/ phase[c] = "read" /\ WantsMore(c) /\ InStdin(c) = 0 /\ StdinOpen(c)

Standoff == cur \in Conn /\ ServerWaits /\ (ChildWaits(cur) \/ phase[cur] = "copy")

\* The body is written before anybody reads the output (cgi.c:178): server and
\* child wait for each other only when the body and what the script prints are
\* both larger than a pipe; one whose execve failed (cgi.c:163) never takes a
\* body larger than a pipe.  With a smaller body, whatever the script does, in
\* whatever order, with whatever Content-Length, both go on.
StandoffNeedsBoth ==
  Standoff =>
    /\ ContentLength(cur) > PipeSize
    /\ phase[cur] = "copy" \/ script[cur].before + script[cur].after > PipeSize

\* A script that reads what there is after a POST the parser accepted gets as
\* many bytes as CONTENT_LENGTH told it, unless a signal cut the write short.
BodyReachesChild ==
  \A c \in Conn :
    /\ phase[c] = "after" /\ script[c].reads # "none"
    /\ environ[c].REQUEST_METHOD = "POST" /\ ~req[c].error /\ liso_state = 0
    => got[c] = environ[c].CONTENT_LENGTH

Copies(d) == {c \in Conn : Runs(c) /\ d \in held[c]}

\* The pipe is full and nobody reads it: the connection is gone, or its client
\* is gone and left bytes over.
Unread(c) ==
  ChildWaits(c) /\ (state[c] = "FREE" \/ (socket[c] = "gone" /\ rest[c]))

\* A child has the sockets of all clients of its time.  A connection that the
\* server closed is closed for its client when those children have ended.  They
\* do, if no client sends without end, but for one whose execve failed, one
\* whose output is not read because its own client is gone (server.c:152-168),
\* or one that waits for a server that waits for another child.
EndSeen ==
  (\A c \in Conn : <>[](socket[c] # "bytes")) =>
    \A d \in Conn :
      state[d] = "FREE" ~>
        \/ Copies(d) = {} \/ pc \in Stopped \/ Standoff
        \/ \E c \in Copies(d) : Unread(c) \/ phase[c] = "copy"

=============================================================================
