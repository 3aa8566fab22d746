-------------------------- MODULE LisoServer_proofs ---------------------------
(* Proofs about LisoServer, for every set of clients and every descriptor    *)
(* limit.                                                                    *)
EXTENDS LisoServer, SequenceTheorems, TLAPS

-----------------------------------------------------------------------------
(* remove_node_content on the pool *)

\* Unlinking the i-th node leaves the nodes before it where they are and moves
\* those behind it up by one.
LEMMA RemoveAtElements ==
  ASSUME NEW S, NEW s \in Seq(S), NEW i \in 1..Len(s)
  PROVE  /\ RemoveAt(s, i) \in Seq(S)
         /\ Len(RemoveAt(s, i)) = Len(s) - 1
         /\ \A j \in 1..(Len(s) - 1) :
              RemoveAt(s, i)[j] = IF j < i THEN s[j] ELSE s[j + 1]
<1> DEFINE a == SubSeq(s, 1, i - 1)
           b == SubSeq(s, i + 1, Len(s))
<1>1. /\ a \in Seq(S) /\ Len(a) = i - 1
      /\ \A j \in 1..(i - 1) : a[j] = s[j]
  BY SubSeqProperties
<1>2. /\ b \in Seq(S) /\ Len(b) = Len(s) - i
      /\ \A j \in 1..(Len(s) - i) : b[j] = s[i + j]
  BY SubSeqProperties
<1> HIDE DEF a, b
<1>3. /\ a \o b \in Seq(S) /\ Len(a \o b) = Len(a) + Len(b)
      /\ \A j \in 1..Len(a) + Len(b) :
           (a \o b)[j] = IF j <= Len(a) THEN a[j] ELSE b[j - Len(a)]
  BY <1>1, <1>2, ConcatProperties
<1>4. Len(s) \in Nat /\ i \in Nat /\ 1 <= i /\ i <= Len(s)
  BY LenProperties
<1>5. Len(a \o b) = Len(s) - 1
  BY <1>1, <1>2, <1>3, <1>4
<1>6. ASSUME NEW j \in 1..(Len(s) - 1)
      PROVE  (a \o b)[j] = IF j < i THEN s[j] ELSE s[j + 1]
  <2>1. CASE j < i
    BY <1>1, <1>2, <1>3, <1>4, <2>1
  <2>2. CASE ~(j < i)
    <3>1. (a \o b)[j] = b[j - (i - 1)]
      BY <1>1, <1>2, <1>3, <1>4, <2>2
    <3>2. j - (i - 1) \in 1..(Len(s) - i) /\ i + (j - (i - 1)) = j + 1
      BY <1>4, <2>2
    <3> QED BY <1>2, <2>2, <3>1, <3>2
  <2> QED BY <2>1, <2>2
<1> QED BY <1>3, <1>5, <1>6 DEF RemoveAt, a, b

-----------------------------------------------------------------------------
(* Types *)

\* What TypeOK needs of the connection in hand: where the server waits for
\* somebody, it has one.
InHand == pc \in {"ssl_accept", "ssl_read", "cgi_read"} => cobjp \in Conn

TypeInv == TypeOK /\ InHand

\* run_liso starts with typed variables.
LEMMA TypeInit == Init => TypeInv
<1> SUFFICES ASSUME Init PROVE TypeInv
  OBVIOUS
<1>1. pool \in Seq(Conn) /\ iter \in Seq(Conn)
  BY EmptySeq DEF Init
<1>2. QED
  BY <1>1, LisoAssumption DEF Init, TypeInv, TypeOK, InHand, PCs, States,
     LineTypes, Fd, FdSet,
     ConnFd, ListenFd, DevNull, HTTP_sock, HTTPS_sock, MaxListenFd, Larger

-----------------------------------------------------------------------------
(* Types, step by step *)

\* create_connection leaves typed fields, a typed pool and a typed wait set.
LEMMA CreatedTypes ==
  ASSUME TypeOK, NEW c \in Conn, NEW f \in Fd, Created(c, f)
  PROVE  /\ state' \in [Conn -> States] /\ conn_fd' \in [Conn -> Fd]
         /\ is_pipe' \in [Conn -> BOOLEAN] /\ linetype' \in [Conn -> LineTypes]
         /\ res_open' \in [Conn -> BOOLEAN]
         /\ read_size' \in [Conn -> {0, 1}] /\ write_size' \in [Conn -> {0, 1}]
         /\ pool' \in Seq(Conn) /\ waitfds' \subseteq FdSet /\ max_fd' \in Nat
         /\ pc' = "loop"
<1>1. <<c>> \in Seq(Conn)
  OBVIOUS
<1>2. pool' \in Seq(Conn)
  BY <1>1, ConcatProperties DEF TypeOK, Created, Cons
<1>3. max_fd' \in Nat
  BY DEF TypeOK, Created, Larger, Fd
<1>4. waitfds' \subseteq FdSet
  BY LisoAssumption DEF TypeOK, Created, Fd, FdSet
<1> QED BY <1>2, <1>3, <1>4 DEF TypeOK, Created, States, LineTypes

\* Whatever parse_request makes of the buffer is typed.
LEMMA ParseTypes ==
  ASSUME TypeOK, NEW c \in Conn, Parse(c)
  PROVE  linetype' \in [Conn -> LineTypes] /\ read_size' \in [Conn -> {0, 1}]
<1>1. PICK o \in ParseOutcome(linetype[c], read_size[c]) :
        /\ linetype' = [linetype EXCEPT ![c] = o[1]]
        /\ read_size' = [read_size EXCEPT ![c] = o[2]]
  BY DEF Parse
<1>2. read_size[c] \in {0, 1}
  BY DEF TypeOK
<1>3. o[1] \in LineTypes /\ o[2] \in {0, 1}
  BY <1>2 DEF ParseOutcome, LineTypes
<1> QED BY <1>1, <1>3 DEF TypeOK

\* FD_SET of a pipe sets a bit of the set, or none.
LEMMA WatchPipeTypes ==
  ASSUME TypeOK, NEW p \in Int, WatchPipe(p)
  PROVE  waitfds' \subseteq FdSet /\ max_fd' \in Nat /\ pc' \in {"visit", "dead"}
BY DEF TypeOK, WatchPipe, SetOutOfBounds, Larger

\* So it does with what malloc left in pipe_fd.
LEMMA FailedTypes ==
  ASSUME TypeOK, NEW c \in Conn, LaunchFailed(c)
  PROVE  /\ waitfds' \subseteq FdSet /\ max_fd' \in Nat /\ pc' \in {"visit", "dead"}
         /\ pipe_fd' \in [Conn -> Int]
<1>1. PICK j \in JunkFd : pipe_fd' = [pipe_fd EXCEPT ![c] = j] /\ WatchPipe(j)
  BY DEF LaunchFailed
<1>2. j \in Int
  BY LisoAssumption
<1> QED BY <1>1, <1>2, WatchPipeTypes DEF TypeOK

\* recv takes bytes out of the socket, never more than are there.
LEMMA ReadTypes ==
  ASSUME TypeOK, NEW c \in Conn, NEW n \in 1..inbox[c]
  PROVE  [inbox EXCEPT ![c] = @ - n] \in [Conn -> 0..MaxInbox]
BY LisoAssumption DEF TypeOK

\* The iterator moves on to a shorter list of connections.
LEMMA VisitTypes ==
  ASSUME TypeInv, NEW c, Visiting(c) \/ Resuming(c)
  PROVE  iter' \in Seq(Conn) /\ c \in Conn /\ cobjp' = c /\ pc \in {"visit", "ssl_read"}
<1>1. iter \in Seq(Conn) /\ (pc = "ssl_read" => cobjp \in Conn)
  BY DEF TypeInv, TypeOK, InHand
<1>2. CASE Visiting(c)
  BY <1>1, <1>2, HeadTailProperties DEF Visiting
<1>3. CASE Resuming(c)
  BY <1>1, <1>3 DEF Resuming
<1> QED BY <1>2, <1>3

\* No step of the server, of a client or of a child spoils a type.
LEMMA TypeNext == TypeInv /\ [Next]_vars => TypeInv'
<1> SUFFICES ASSUME TypeInv, [Next]_vars PROVE TypeInv'
  OBVIOUS
<1> USE LisoAssumption DEF TypeInv, TypeOK, InHand, connVars, kernVars, netVars,
        loopVars, PCs, States, LineTypes, Fd, FdSet, ConnFd, ListenFd, DevNull,
        HTTP_sock, HTTPS_sock, Stopped
<1>1. CASE Loop
  BY <1>1 DEF Loop
<1>2. CASE SelectFails
  BY <1>2 DEF SelectFails
<1>3. CASE SelectReturns
  <2>1. readfds' \subseteq FdSet
    BY <1>3 DEF SelectReturns, ReadyFds, StrayFds
  <2> QED BY <1>3, <2>1 DEF SelectReturns
<1>4. CASE StartPass
  BY <1>4 DEF StartPass
<1>5. CASE EndPass
  BY <1>5 DEF EndPass
<1>6. ASSUME NEW sock \in ListenFd, AcceptFails(sock) PROVE TypeInv'
  BY <1>6 DEF AcceptFails, Accepting
<1>7. ASSUME NEW c \in Conn, NEW f \in Fd, AcceptHTTP(c, f) PROVE TypeInv'
  <2>1. f \in ConnFd /\ Created(c, f)
    BY <1>7 DEF AcceptHTTP, TakeClient, Lowest, FreeFds
  <2> QED BY <1>7, <2>1, CreatedTypes DEF AcceptHTTP, TakeClient
<1>8. ASSUME NEW c \in Conn, NEW f \in Fd, AcceptHTTPS(c, f) PROVE TypeInv'
  BY <1>8 DEF AcceptHTTPS, TakeClient, Accepting
<1>9. CASE SslAcceptOk
  <2>1. cobjp \in Conn /\ conn_fd[cobjp] \in Fd /\ Created(cobjp, conn_fd[cobjp])
    BY <1>9 DEF SslAcceptOk
  <2> QED BY <1>9, <2>1, CreatedTypes DEF SslAcceptOk
<1>10. CASE SslAcceptFails
  <2>1. cobjp \in Conn /\ conn_fd[cobjp] \in Fd
    BY <1>10 DEF SslAcceptFails
  <2>2. fdkind' \in [Fd -> {"free", "null", "listen", "conn", "pipe", "stray"}]
    BY <1>10, <2>1 DEF SslAcceptFails
  <2>4. owner' \in [Fd -> Conn \cup {NoConn}]
    BY <1>10, <2>1 DEF SslAcceptFails
  <2>5. conn_fd' \in [Conn -> Fd]
    BY <1>10, <2>1 DEF SslAcceptFails
  <2>3. /\ link' \in [Conn -> {"off", "open", "eof", "reset"}]
        /\ inbox' \in [Conn -> 0..MaxInbox]
    BY <1>10, <2>1 DEF SslAcceptFails
  <2> QED BY <1>10, <2>2, <2>3, <2>4, <2>5 DEF SslAcceptFails
<1>11. ASSUME NEW c \in Conn, VisitUnready(c) PROVE TypeInv'
  <2>1. iter' \in Seq(Conn) /\ cobjp' = c
    BY <1>11, VisitTypes DEF VisitUnready
  <2>2. pc' \in {"process", "cgi_read", "write", "finish", "visit"}
    BY <1>11 DEF VisitUnready, NextStop, TurnEnds
  <2> QED BY <1>11, <2>1, <2>2 DEF VisitUnready
<1>40. ASSUME NEW c \in Conn, AwaitsRecord(c) PROVE TypeInv'
  <2>1. iter' \in Seq(Conn) /\ cobjp' = c
    BY <1>40, VisitTypes DEF AwaitsRecord
  <2>2. inbox' \in [Conn -> 0..MaxInbox]
    BY <1>40 DEF AwaitsRecord
  <2> QED BY <1>40, <2>1, <2>2 DEF AwaitsRecord
<1>12. ASSUME NEW c \in Conn, ReadData(c) PROVE TypeInv'
  <2>1. iter' \in Seq(Conn) /\ cobjp' = c
    BY <1>12, VisitTypes DEF ReadData, Reading
  <2>2. inbox' \in [Conn -> 0..MaxInbox]
    BY <1>12, ReadTypes DEF ReadData
  <2>3. pc' = "process"
    BY <1>12 DEF ReadData
  <2>4. read_size' \in [Conn -> {0, 1}]
    BY <1>12 DEF ReadData, ReadOutcome
  <2> QED BY <1>12, <2>1, <2>2, <2>3, <2>4 DEF ReadData
<1>13. ASSUME NEW c \in Conn, ReadFails(c) PROVE TypeInv'
  <2>1. iter' \in Seq(Conn) /\ cobjp' = c
    BY <1>13, VisitTypes DEF ReadFails, Reading
  <2>2. inbox' \in [Conn -> 0..MaxInbox]
    <3>1. \/ inbox' = inbox
          \/ \E n \in 1..inbox[c] : inbox' = [inbox EXCEPT ![c] = @ - n]
      BY <1>13 DEF ReadFails
    <3>2. inbox \in [Conn -> 0..MaxInbox] /\ TypeOK
      OBVIOUS
    <3> QED BY <3>1, <3>2, ReadTypes
  <2>3. AfterFailedRead(c) \in {"CLOSED", "PARSING"}
    BY DEF AfterFailedRead
  <2>4. pc' \in {"process", "finish"}
    BY <1>13, <2>3 DEF ReadFails, NextStop, TurnEnds
  <2> QED BY <1>13, <2>1, <2>2, <2>3, <2>4 DEF ReadFails
<1>43. ASSUME NEW c \in Conn, DiesReading(c) PROVE TypeInv'
  <2>1. iter' \in Seq(Conn) /\ cobjp' = c
    BY <1>43, VisitTypes DEF DiesReading, Reading
  <2> QED BY <1>43, <2>1 DEF DiesReading
<1>14. ASSUME NEW c \in Conn, StaysParsing(c) PROVE TypeInv'
  BY <1>14 DEF StaysParsing, Processing, TurnEnds, Parse, Parsed, ParseOutcome
<1>15. ASSUME NEW c \in Conn, Answers(c) PROVE TypeInv'
  <2>1. linetype' \in [Conn -> LineTypes] /\ read_size' \in [Conn -> {0, 1}]
    BY <1>15, ParseTypes DEF Answers
  <2>2. res_open' \in [Conn -> BOOLEAN]
    <3>1. PICK keep \in BOOLEAN : res_open' = [res_open EXCEPT ![c] = res_open[c] /\ keep]
      BY <1>15 DEF Answers
    <3> QED BY <3>1
  <2> QED BY <1>15, <2>1, <2>2 DEF Answers
<1>16. ASSUME NEW c \in Conn, NEW f \in Fd, LaunchesCGI(c, f) PROVE TypeInv'
  <2>1. linetype' \in [Conn -> LineTypes] /\ read_size' \in [Conn -> {0, 1}]
    BY <1>16, ParseTypes DEF LaunchesCGI
  <2>2. waitfds' \subseteq FdSet /\ max_fd' \in Nat /\ pc' \in {"visit", "dead"}
    <3>1. WatchPipe(f) /\ f \in Int
      BY <1>16 DEF LaunchesCGI
    <3> QED BY <3>1, WatchPipeTypes
  <2>3. /\ fdkind' \in [Fd -> {"free", "null", "listen", "conn", "pipe", "stray"}]
        /\ owner' \in [Fd -> Conn \cup {NoConn}]
        /\ child' \in [Fd -> {"none", "running", "held", "exited"}]
    BY <1>16 DEF LaunchesCGI
  <2>4. /\ pipe_fd' \in [Conn -> Int] /\ is_pipe' \in [Conn -> BOOLEAN]
        /\ state' \in [Conn -> States]
    BY <1>16 DEF LaunchesCGI
  <2> QED BY <1>16, <2>1, <2>2, <2>3, <2>4 DEF LaunchesCGI
<1>17. ASSUME NEW c \in Conn, LaunchFails(c) PROVE TypeInv'
  <2>1. linetype' \in [Conn -> LineTypes] /\ read_size' \in [Conn -> {0, 1}]
    BY <1>17, ParseTypes DEF LaunchFails
  <2>2. LaunchFailed(c)
    BY <1>17 DEF LaunchFails
  <2>3. /\ waitfds' \subseteq FdSet /\ max_fd' \in Nat /\ pc' \in {"visit", "dead"}
        /\ pipe_fd' \in [Conn -> Int]
    BY <2>2, FailedTypes
  <2>4. fdkind' \in [Fd -> {"free", "null", "listen", "conn", "pipe", "stray"}]
    BY <1>17 DEF LaunchFails
  <2> QED BY <1>17, <2>1, <2>2, <2>3, <2>4 DEF LaunchFails, LaunchFailed
<1>41. ASSUME NEW c \in Conn, NEW g \in Fd, NEW f \in Fd, BodyNotWritten(c, g, f) PROVE TypeInv'
  <2>1. linetype' \in [Conn -> LineTypes] /\ read_size' \in [Conn -> {0, 1}]
    BY <1>41, ParseTypes DEF BodyNotWritten
  <2>2. LaunchFailed(c)
    BY <1>41 DEF BodyNotWritten
  <2>3. /\ waitfds' \subseteq FdSet /\ max_fd' \in Nat /\ pc' \in {"visit", "dead"}
        /\ pipe_fd' \in [Conn -> Int]
    BY <2>2, FailedTypes
  <2>4. /\ fdkind' \in [Fd -> {"free", "null", "listen", "conn", "pipe", "stray"}]
        /\ child' \in [Fd -> {"none", "running", "held", "exited"}]
    BY <1>41 DEF BodyNotWritten
  <2>5. /\ is_pipe' \in [Conn -> BOOLEAN] /\ state' \in [Conn -> States]
        /\ failed' \subseteq Conn
    BY <2>2 DEF LaunchFailed
  <2>6. UNCHANGED <<liso_state, readfds, pool, iter, cobjp, conn_fd, res_open, write_size,
                    owner, out, link, inbox, backlog>>
    BY <2>2 DEF LaunchFailed
  <2>7. pc' \in PCs /\ InHand'
    BY <2>3
  <2> QED BY <2>1, <2>3, <2>4, <2>5, <2>6, <2>7
<1>18. ASSUME NEW c \in Conn, AwaitsCGI(c) PROVE TypeInv'
  <2>1. linetype' \in [Conn -> LineTypes] /\ read_size' \in [Conn -> {0, 1}]
    BY <1>18, ParseTypes DEF AwaitsCGI
  <2>2. waitfds' \subseteq FdSet /\ max_fd' \in Nat /\ pc' \in {"visit", "dead"}
    BY <1>18, WatchPipeTypes DEF AwaitsCGI
  <2> QED BY <1>18, <2>1, <2>2 DEF AwaitsCGI
<1>19. ASSUME NEW c \in Conn, DiesProcessing(c) PROVE TypeInv'
  BY <1>19 DEF DiesProcessing
<1>20. ASSUME NEW c \in Conn, ReadCGIResponse(c) PROVE TypeInv'
  BY <1>20 DEF ReadCGIResponse, ReadingCGI, ReadToEnd, TurnEnds, Kind
<1>21. ASSUME NEW c \in Conn, ReadNoCGI(c) PROVE TypeInv'
  <2>1. PICK n \in {0, 1} : ReadToEnd(c, n)
    BY <1>21 DEF ReadNoCGI
  <2> QED BY <1>21, <2>1 DEF ReadNoCGI, ReadToEnd, TurnEnds
<1>42. ASSUME NEW c \in Conn, NEW d \in Conn, ReadSocketOf(c, d) PROVE TypeInv'
  BY <1>42 DEF ReadSocketOf, ReadingCGI, ReadToEnd, TurnEnds
<1>22. ASSUME NEW c \in Conn, ReadCGIFails(c) PROVE TypeInv'
  <2>1. out' \in [Fd -> {0, 1}] /\ inbox' \in [Conn -> 0..MaxInbox]
    <3>1. \A f \in Fd : [out EXCEPT ![f] = 0] \in [Fd -> {0, 1}]
      OBVIOUS
    <3>2. \A d \in Conn : [inbox EXCEPT ![d] = 0] \in [Conn -> 0..MaxInbox]
      OBVIOUS
    <3>3. Kind(pipe_fd[c]) = "pipe" => pipe_fd[c] \in Fd
      BY DEF Kind
    <3>4. CASE UNCHANGED <<out, inbox>>
      BY <3>4
    <3>5. CASE /\ Kind(pipe_fd[c]) = "pipe" /\ inbox' = inbox
               /\ out' = [out EXCEPT ![pipe_fd[c]] = 0]
      BY <3>1, <3>3, <3>5
    <3>6. CASE out' = out /\ \E d \in Conn : inbox' = [inbox EXCEPT ![d] = 0]
      BY <3>2, <3>6
    <3>7. FailsReading(pipe_fd[c])
      BY <1>22 DEF ReadCGIFails
    <3> QED BY <3>4, <3>5, <3>6, <3>7 DEF FailsReading
  <2> QED BY <1>22, <2>1 DEF ReadCGIFails, ReadingCGI, TurnEnds
<1>23. ASSUME NEW c \in Conn, DiesReadingCGI(c) PROVE TypeInv'
  BY <1>23 DEF DiesReadingCGI
<1>24. ASSUME NEW c \in Conn, SendsAll(c) PROVE TypeInv'
  BY <1>24 DEF SendsAll, Writing, TurnEnds, AfterSend
<1>25. ASSUME NEW c \in Conn, SendFails(c) PROVE TypeInv'
  BY <1>25 DEF SendFails, Writing, TurnEnds
<1>26. ASSUME NEW c \in Conn, SendsNothing(c) PROVE TypeInv'
  BY <1>26 DEF SendsNothing, Writing, TurnEnds
<1>27. ASSUME NEW c \in Conn, DiesWriting(c) PROVE TypeInv'
  BY <1>27 DEF DiesWriting
<1>28. ASSUME NEW c \in Conn, Closes(c) PROVE TypeInv'
  <2>1. PICK i \in 1..Len(pool) : pool' = RemoveAt(pool, i)
    BY <1>28 DEF Closes, Unlink
  <2>2. pool' \in Seq(Conn)
    BY <2>1, RemoveAtElements
  <2>3. waitfds' \subseteq FdSet
    BY <1>28 DEF Closes, WaitSetAfterClose
  <2>4. /\ fdkind' \in [Fd -> {"free", "null", "listen", "conn", "pipe", "stray"}]
        /\ owner' \in [Fd -> Conn \cup {NoConn}]
    BY <1>28 DEF Closes, FdKindAfterClose
  <2>5. /\ state' \in [Conn -> States] /\ conn_fd' \in [Conn -> Fd]
        /\ linetype' \in [Conn -> LineTypes]
    BY <1>28 DEF Closes
  <2>8. is_pipe' \in [Conn -> BOOLEAN] /\ res_open' \in [Conn -> BOOLEAN]
    BY <1>28 DEF Closes
  <2>7. /\ pipe_fd' \in [Conn -> Int]
        /\ read_size' \in [Conn -> {0, 1}] /\ write_size' \in [Conn -> {0, 1}]
    BY <1>28 DEF Closes
  <2>6. /\ link' \in [Conn -> {"off", "open", "eof", "reset"}]
        /\ inbox' \in [Conn -> 0..MaxInbox]
    BY <1>28 DEF Closes
  <2> QED BY <1>28, <2>2, <2>3, <2>4, <2>5, <2>6, <2>7, <2>8 DEF Closes
<1>29. ASSUME NEW c \in Conn, Refreshes(c) PROVE TypeInv'
  BY <1>29 DEF Refreshes, Finishing
<1>30. ASSUME NEW c \in Conn, Connect(c) PROVE TypeInv'
  BY <1>30 DEF Connect
<1>31. ASSUME NEW c \in Conn, Send(c) PROVE TypeInv'
  <2>1. inbox[c] \in 0..MaxInbox /\ MaxInbox \in Nat /\ inbox[c] < MaxInbox
    BY <1>31 DEF Send
  <2>2. inbox[c] + 1 \in 0..MaxInbox
    BY <2>1
  <2>3. inbox' \in [Conn -> 0..MaxInbox]
    BY <1>31, <2>2 DEF Send
  <2> QED BY <1>31, <2>3 DEF Send
<1>32. ASSUME NEW c \in Conn, Shut(c) PROVE TypeInv'
  BY <1>32 DEF Shut
<1>33. ASSUME NEW c \in Conn, Reset(c) PROVE TypeInv'
  BY <1>33 DEF Reset
<1>34. ASSUME NEW f \in Fd, ChildWrites(f) PROVE TypeInv'
  BY <1>34 DEF ChildWrites
<1>35. ASSUME NEW f \in Fd, ChildExits(f) PROVE TypeInv'
  BY <1>35 DEF ChildExits
<1>36. ASSUME NEW s \in Signals, Signal(s) PROVE TypeInv'
  BY <1>36 DEF Signal
<1>37. CASE UNCHANGED vars
  BY <1>37 DEF vars
<1> QED
  BY <1>1, <1>2, <1>3, <1>4, <1>5, <1>6, <1>7, <1>8, <1>9, <1>10, <1>11, <1>12,
     <1>13, <1>14, <1>15, <1>16, <1>17, <1>18, <1>19, <1>20, <1>21, <1>22, <1>23,
     <1>24, <1>25, <1>26, <1>27, <1>28, <1>29, <1>30, <1>31, <1>32, <1>33, <1>34,
     <1>35, <1>36, <1>37, <1>40, <1>41, <1>42, <1>43
     DEF Next, Server, Dispatch, Handshake, Visit, Process,
     ReadCGI, Write, Finish, Environment, Client, Terminating

\* conn_obj fields, fd_sets and the descriptor table keep their types in every
\* run of run_liso.
THEOREM TypeCorrect == Spec => []TypeOK
<1>1. TypeInv => TypeOK
  BY DEF TypeInv
<1> QED BY <1>1, TypeInit, TypeNext, PTL DEF Spec

-----------------------------------------------------------------------------
(* The pool and the iterator *)

\* The control points at which a connection is in hand.
InTurn == pc \in {"ssl_read", "process", "cgi_read", "write", "finish"}

\* It is alive and iterp is already past it.
HandIsPast ==
  InTurn =>
    cobjp \in Live /\ \A i \in 1..Len(iter) : iter[i] # cobjp

\* A client still to be accepted, or in SSL_accept, has no connection object.
NotYetLive ==
  /\ \A c \in backlog : c \notin Live /\ link[c] # "off"
  /\ \A c \in Conn : link[c] = "off" => c \notin Live /\ c \notin Handshaking
  /\ \A c \in Handshaking : c \notin Live /\ c \notin backlog

PoolInv == IteratorSafe /\ HandIsPast /\ NotYetLive

\* The pool is empty when run_liso begins.
LEMMA PoolInit == Init => PoolInv
  BY EmptySeq DEF Init, PoolInv, IteratorSafe, PoolIsLive, HandIsPast, InTurn, NotYetLive,
     Live, Handshaking, InPass

\* A step that leaves the pool, the iterator and the set of connections alone,
\* and enters no turn, keeps the invariant.
LEMMA SamePool ==
  ASSUME TypeOK, PoolInv,
         UNCHANGED <<pool, iter, cobjp, backlog>>, Live' = Live,
         Handshaking' = Handshaking, InPass' => InPass, InTurn' => InTurn,
         \A c \in Conn : link'[c] = "off" <=> link[c] = "off"
  PROVE  PoolInv'
<1>1. IteratorSafe'
  BY DEF PoolInv, IteratorSafe, PoolIsLive, IterIsTail
<1>2. HandIsPast'
  BY DEF PoolInv, HandIsPast, InTurn
<1>3. NotYetLive'
  BY DEF TypeOK, PoolInv, NotYetLive
<1> QED BY <1>1, <1>2, <1>3 DEF PoolInv

\* add_head of a new connection keeps the pool a list of the live ones.
LEMMA CreatedPool ==
  ASSUME TypeOK, IteratorSafe, NEW c \in Conn, c \notin Live, NEW f, Created(c, f)
  PROVE  IteratorSafe'
<1>1. /\ pool' \in Seq(Conn) /\ Len(pool') = Len(pool) + 1
      /\ pool'[1] = c /\ \A i \in 1..Len(pool) : pool'[i + 1] = pool[i]
  <2>1. <<c>> \in Seq(Conn) /\ Len(<<c>>) = 1 /\ <<c>>[1] = c
    OBVIOUS
  <2>2. pool \in Seq(Conn) /\ pool' = <<c>> \o pool /\ Len(pool) \in Nat
    BY LenProperties DEF TypeOK, Created, Cons
  <2> QED BY <2>1, <2>2, ConcatProperties
<1>2. Len(pool) \in Nat
  BY LenProperties DEF TypeOK
<1>3. Live' = Live \cup {c}
  BY DEF Created, Live, TypeOK
<1>4. \A i \in 1..Len(pool') :
        i = 1 \/ (i - 1 \in 1..Len(pool) /\ pool'[i] = pool[i - 1])
  <2> SUFFICES ASSUME NEW i \in 1..Len(pool'), i # 1
               PROVE i - 1 \in 1..Len(pool) /\ pool'[i] = pool[i - 1]
    OBVIOUS
  <2>1. i - 1 \in 1..Len(pool) /\ (i - 1) + 1 = i
    BY <1>1, <1>2
  <2> QED BY <1>1, <2>1
<1>5. \A i \in 1..Len(pool') : pool'[i] \in Live'
  BY <1>1, <1>3, <1>4 DEF IteratorSafe, PoolIsLive
<1>6. \A i, j \in 1..Len(pool') : pool'[i] = pool'[j] => i = j
  <2> SUFFICES ASSUME NEW i \in 1..Len(pool'), NEW j \in 1..Len(pool'), pool'[i] = pool'[j]
               PROVE i = j
    OBVIOUS
  <2>1. \A k \in 1..Len(pool) : pool[k] # c
    BY DEF IteratorSafe, PoolIsLive
  <2>2. CASE i = 1 \/ j = 1
    BY <1>1, <1>4, <2>1, <2>2
  <2>3. CASE i # 1 /\ j # 1
    <3>1. i - 1 = j - 1
      BY <1>4, <2>3 DEF IteratorSafe, PoolIsLive
    <3> QED BY <1>1, <1>2, <3>1
  <2> QED BY <2>2, <2>3
<1>7. \A d \in Live' : \E i \in 1..Len(pool') : pool'[i] = d
  <2> SUFFICES ASSUME NEW d \in Live' PROVE \E i \in 1..Len(pool') : pool'[i] = d
    OBVIOUS
  <2>1. CASE d = c
    BY <1>1, <1>2, <2>1
  <2>2. CASE d # c
    <3>1. PICK i \in 1..Len(pool) : pool[i] = d
      BY <1>3, <2>2 DEF IteratorSafe, PoolIsLive
    <3>2. i + 1 \in 1..Len(pool') /\ pool'[i + 1] = d
      BY <1>1, <1>2, <3>1
    <3> QED BY <3>2
  <2> QED BY <2>1, <2>2
<1>8. ~InPass'
  BY DEF Created, InPass
<1> QED BY <1>5, <1>6, <1>7, <1>8 DEF IteratorSafe, PoolIsLive

\* The node iterp hands out is a live connection, and once past it iterp does
\* not meet it again.
LEMMA VisitedIsLive ==
  ASSUME TypeOK, IteratorSafe, NEW c, Visiting(c)
  PROVE  /\ c \in Live
         /\ pool' = pool /\ Live' = Live => IteratorSafe' /\ HandIsPast'
<1>1. iter \in Seq(Conn) /\ iter # <<>> /\ pool \in Seq(Conn) /\ c = iter[1]
      /\ InPass
  BY DEF TypeOK, Visiting, InPass
<1>2. /\ Len(iter) \in Nat /\ Len(pool) \in Nat /\ Len(iter) > 0
      /\ iter' \in Seq(Conn) /\ Len(iter') = Len(iter) - 1
      /\ \A i \in 1..(Len(iter) - 1) : iter'[i] = iter[i + 1]
  BY <1>1, HeadTailProperties, EmptySeq, LenProperties DEF Visiting
<1> DEFINE d == Len(pool) - Len(iter)
<1>3. d \in Nat /\ \A i \in 1..Len(iter) : iter[i] = pool[d + i]
  BY <1>1, <1>2 DEF IteratorSafe, IterIsTail
<1>4. \A i \in 1..Len(iter) : d + i \in 1..Len(pool)
  BY <1>2, <1>3
<1>5. c \in Live
  <2>1. 1 \in 1..Len(iter)
    BY <1>2
  <2>2. c = pool[d + 1] /\ d + 1 \in 1..Len(pool)
    BY <1>1, <1>3, <1>4, <2>1
  <2> QED BY <2>2 DEF IteratorSafe, PoolIsLive
<1>6. ASSUME pool' = pool, Live' = Live PROVE IteratorSafe'
  <2>1. PoolIsLive'
    BY <1>6 DEF IteratorSafe, PoolIsLive
  <2>2. ASSUME NEW i \in 1..Len(iter') PROVE iter'[i] = pool[Len(pool) - Len(iter') + i]
    <3>1. i \in 1..(Len(iter) - 1) /\ i + 1 \in 1..Len(iter)
      BY <1>2
    <3>2. iter'[i] = pool[d + (i + 1)]
      BY <1>2, <1>3, <3>1
    <3>3. d + (i + 1) = Len(pool) - Len(iter') + i
      BY <1>2, <3>1
    <3> QED BY <3>2, <3>3
  <2>3. Len(iter') <= Len(pool)
    BY <1>2, <1>3
  <2> QED BY <1>6, <2>1, <2>2, <2>3 DEF IteratorSafe, IterIsTail
<1>7. ASSUME NEW i \in 1..Len(iter') PROVE iter'[i] # c
  <2>1. i \in 1..(Len(iter) - 1) /\ i + 1 \in 1..Len(iter) /\ 1 \in 1..Len(iter)
    BY <1>2
  <2>2. iter'[i] = pool[d + (i + 1)] /\ c = pool[d + 1]
    BY <1>1, <1>2, <1>3, <2>1
  <2>3. d + (i + 1) # d + 1 /\ d + (i + 1) \in 1..Len(pool) /\ d + 1 \in 1..Len(pool)
    BY <1>2, <1>3, <2>1
  <2> QED BY <2>2, <2>3 DEF IteratorSafe, PoolIsLive
<1> QED BY <1>5, <1>6, <1>7 DEF HandIsPast, Visiting,
     InTurn

\* The same once its SSL_read has the rest of its record.
LEMMA TurnIsLive ==
  ASSUME TypeOK, IteratorSafe, HandIsPast, NEW c, Visiting(c) \/ Resuming(c)
  PROVE  /\ c \in Live
         /\ pool' = pool /\ Live' = Live => IteratorSafe' /\ HandIsPast'
<1>1. CASE Visiting(c)
  BY <1>1, VisitedIsLive
<1>2. CASE Resuming(c)
  <2>1. InTurn /\ InPass /\ c = cobjp /\ cobjp' = cobjp /\ iter' = iter
    BY <1>2 DEF Resuming, InTurn, InPass
  <2> QED BY <2>1 DEF HandIsPast, IteratorSafe, PoolIsLive, IterIsTail
<1> QED BY <1>1, <1>2

\* Unlinking the connection in hand leaves the nodes iterp has still to visit
\* where they were, counted from the end.
LEMMA ClosedPool ==
  ASSUME TypeOK, PoolInv, NEW c \in Conn, Closes(c), Live' = Live \ {c}
  PROVE  IteratorSafe'
<1>1. /\ pool \in Seq(Conn) /\ iter \in Seq(Conn) /\ iter' = iter
      /\ Len(pool) \in Nat /\ Len(iter) \in Nat
      /\ \A k \in 1..Len(iter) : iter[k] # c
      /\ PoolIsLive /\ IterIsTail
  BY LenProperties DEF TypeOK, Closes, Finishing, PoolInv, HandIsPast,
     IteratorSafe, InPass,
     InTurn
<1>2. PICK i \in 1..Len(pool) : pool[i] = c /\ pool' = RemoveAt(pool, i)
  BY <1>1 DEF Closes, Unlink
<1>3. /\ pool' \in Seq(Conn) /\ Len(pool') = Len(pool) - 1
      /\ \A j \in 1..(Len(pool) - 1) : pool'[j] = IF j < i THEN pool[j] ELSE pool[j + 1]
  BY <1>1, <1>2, RemoveAtElements
<1> DEFINE old(j) == IF j < i THEN j ELSE j + 1
<1>4. \A j \in 1..Len(pool') : /\ old(j) \in 1..Len(pool) /\ old(j) # i
                               /\ pool'[j] = pool[old(j)]
  BY <1>1, <1>2, <1>3
<1>5. \A j, k \in 1..Len(pool') : old(j) = old(k) => j = k
  BY <1>1, <1>3
<1>6. \A j, k \in 1..Len(pool') : pool'[j] = pool'[k] => j = k
  BY <1>1, <1>4, <1>5 DEF PoolIsLive
<1>7. \A j \in 1..Len(pool') : pool'[j] \in Live'
  BY <1>1, <1>2, <1>4 DEF PoolIsLive
<1>8. ASSUME NEW d \in Live' PROVE \E j \in 1..Len(pool') : pool'[j] = d
  <2>1. PICK k \in 1..Len(pool) : pool[k] = d
    BY <1>1 DEF PoolIsLive
  <2>2. k # i
    BY <1>2, <2>1
  <2>3. CASE k < i
    <3>1. k \in 1..Len(pool') /\ pool'[k] = pool[k]
      BY <1>1, <1>2, <1>3, <2>3
    <3> QED BY <2>1, <3>1
  <2>4. CASE k > i
    <3>1. k - 1 \in 1..Len(pool') /\ pool'[k - 1] = pool[(k - 1) + 1] /\ (k - 1) + 1 = k
      BY <1>1, <1>2, <1>3, <2>4
    <3> QED BY <2>1, <3>1
  <2> QED BY <2>2, <2>3, <2>4
<1>9. i <= Len(pool) - Len(iter)
  <2> SUFFICES ASSUME i > Len(pool) - Len(iter) PROVE FALSE
    BY <1>1, <1>2
  <2> DEFINE k == i - (Len(pool) - Len(iter))
  <2>1. k \in 1..Len(iter) /\ Len(pool) - Len(iter) + k = i
    BY <1>1, <1>2
  <2>2. iter[k] = pool[i]
    BY <1>1, <2>1 DEF IterIsTail
  <2> QED BY <1>1, <1>2, <2>1, <2>2
<1>10. ASSUME NEW k \in 1..Len(iter) PROVE iter[k] = pool'[Len(pool') - Len(iter) + k]
  <2> DEFINE j == Len(pool') - Len(iter) + k
  <2>1. /\ j \in 1..(Len(pool) - 1) /\ ~(j < i)
        /\ j + 1 = Len(pool) - Len(iter) + k
    BY <1>1, <1>2, <1>3, <1>9
  <2>2. pool'[j] = pool[j + 1]
    BY <1>3, <2>1
  <2> QED BY <1>1, <2>1, <2>2 DEF IterIsTail
<1>11. Len(iter) <= Len(pool')
  BY <1>1, <1>2, <1>3, <1>9
<1> QED BY <1>1, <1>6, <1>7, <1>8, <1>10, <1>11 DEF IteratorSafe, PoolIsLive,
        IterIsTail

\* Every step keeps the pool a list of the live connections, with iterp at its
\* tail.
LEMMA PoolNext == TypeInv /\ PoolInv /\ [Next]_vars => PoolInv'
<1> SUFFICES ASSUME TypeOK, InHand, PoolInv, [Next]_vars PROVE PoolInv'
  BY DEF TypeInv
<1> USE DEF connVars, kernVars, netVars, loopVars
<1>1. CASE Loop
  BY <1>1, SamePool DEF Loop, TypeOK, PoolInv, InTurn, HandIsPast, NotYetLive, Live,
     Handshaking, InPass, InTurn
<1>2. CASE SelectFails
  BY <1>2, SamePool DEF SelectFails, TypeOK, PoolInv, InTurn, HandIsPast, InTurn, NotYetLive,
     Live, Handshaking, InPass, InTurn
<1>3. CASE SelectReturns
  BY <1>3, SamePool DEF SelectReturns, TypeOK, PoolInv, InTurn, HandIsPast, InTurn, NotYetLive,
     Live, Handshaking, InPass, InTurn
<1>4. ASSUME NEW sock \in ListenFd, AcceptFails(sock) PROVE PoolInv'
  BY <1>4, SamePool DEF AcceptFails, Accepting, TypeOK, PoolInv, InTurn, HandIsPast,
     NotYetLive, Live, Handshaking, InPass, InTurn
<1>5. ASSUME NEW c \in Conn, StaysParsing(c) PROVE PoolInv'
  BY <1>5, SamePool DEF StaysParsing, Processing, TurnEnds, TypeOK, PoolInv,
     HandIsPast, NotYetLive, Live, Handshaking, InPass, InTurn
<1>6. ASSUME NEW c \in Conn, Answers(c) PROVE PoolInv'
  BY <1>6, SamePool DEF Answers, Processing, TypeOK, PoolInv, InTurn, HandIsPast,
     NotYetLive, Live, Handshaking, InPass, InTurn
<1>7. ASSUME NEW c \in Conn, NEW f \in Fd, LaunchesCGI(c, f) PROVE PoolInv'
  BY <1>7, SamePool DEF LaunchesCGI, AsksForCGI, Processing, WatchPipe, TypeOK,
     PoolInv, HandIsPast, NotYetLive, Live, Handshaking, InPass, InTurn,
     SetOutOfBounds
<1>8. ASSUME NEW c \in Conn, LaunchFails(c) PROVE PoolInv'
  BY <1>8, SamePool DEF LaunchFails, AsksForCGI, Processing, WatchPipe, TypeOK,
     PoolInv, HandIsPast, NotYetLive, Live, Handshaking, InPass, InTurn,
     SetOutOfBounds, LaunchFailed
<1>9. ASSUME NEW c \in Conn, AwaitsCGI(c) PROVE PoolInv'
  BY <1>9, SamePool DEF AwaitsCGI, Processing, WatchPipe, TypeOK, PoolInv,
     HandIsPast, NotYetLive, Live, Handshaking, InPass, InTurn,
     SetOutOfBounds
<1>10. ASSUME NEW c \in Conn, DiesProcessing(c) PROVE PoolInv'
  BY <1>10, SamePool DEF DiesProcessing, Processing, TypeOK, PoolInv, InTurn, HandIsPast,
     NotYetLive, Live, Handshaking, InPass, InTurn
<1>11. ASSUME NEW c \in Conn, ReadCGIResponse(c) PROVE PoolInv'
  BY <1>11, SamePool DEF ReadCGIResponse, ReadingCGI, TurnEnds, TypeOK, PoolInv,
     HandIsPast, NotYetLive, Live, Handshaking, InPass, InTurn,
     ReadToEnd
<1>12. ASSUME NEW c \in Conn, ReadNoCGI(c) PROVE PoolInv'
  BY <1>12, SamePool DEF ReadNoCGI, ReadingCGI, TurnEnds, TypeOK, PoolInv,
     HandIsPast, NotYetLive, Live, Handshaking, InPass, InTurn,
     ReadToEnd
<1>36. ASSUME NEW c \in Conn, NEW d \in Conn, ReadSocketOf(c, d) PROVE PoolInv'
  BY <1>36, SamePool DEF ReadSocketOf, ReadingCGI, ReadToEnd, TurnEnds, TypeOK, PoolInv,
     HandIsPast, NotYetLive, Live, Handshaking, InPass, InTurn
<1>37. ASSUME NEW c \in Conn, NEW g \in Fd, NEW f \in Fd, BodyNotWritten(c, g, f)
       PROVE PoolInv'
  BY <1>37, SamePool DEF BodyNotWritten, LaunchFailed, AsksForCGI, Processing, WatchPipe,
     SetOutOfBounds, TypeOK, PoolInv, HandIsPast, NotYetLive, Live, Handshaking, InPass,
     InTurn
<1>13. ASSUME NEW c \in Conn, ReadCGIFails(c) PROVE PoolInv'
  BY <1>13, SamePool DEF ReadCGIFails, ReadingCGI, TurnEnds, TypeOK, PoolInv,
     HandIsPast, NotYetLive, Live, Handshaking, InPass, InTurn
<1>14. ASSUME NEW c \in Conn, DiesReadingCGI(c) PROVE PoolInv'
  BY <1>14, SamePool DEF DiesReadingCGI, ReadingCGI, TypeOK, PoolInv, InTurn, HandIsPast,
     NotYetLive, Live, Handshaking, InPass, InTurn
<1>15. ASSUME NEW c \in Conn, SendsAll(c) PROVE PoolInv'
  BY <1>15, SamePool DEF SendsAll, Writing, TurnEnds, AfterSend, TypeOK, PoolInv,
     HandIsPast, NotYetLive, Live, Handshaking, InPass, InTurn
<1>16. ASSUME NEW c \in Conn, SendFails(c) PROVE PoolInv'
  BY <1>16, SamePool DEF SendFails, Writing, TurnEnds, TypeOK, PoolInv,
     HandIsPast, NotYetLive, Live, Handshaking, InPass, InTurn
<1>17. ASSUME NEW c \in Conn, SendsNothing(c) PROVE PoolInv'
  BY <1>17, SamePool DEF SendsNothing, Writing, TurnEnds, TypeOK, PoolInv,
     HandIsPast, NotYetLive, Live, Handshaking, InPass, InTurn
<1>18. ASSUME NEW c \in Conn, DiesWriting(c) PROVE PoolInv'
  BY <1>18, SamePool DEF DiesWriting, Writing, TypeOK, PoolInv, InTurn, HandIsPast,
     NotYetLive, Live, Handshaking, InPass, InTurn
<1>19. ASSUME NEW c \in Conn, Refreshes(c) PROVE PoolInv'
  BY <1>19, SamePool DEF Refreshes, Finishing, TypeOK, PoolInv, InTurn, HandIsPast,
     NotYetLive, Live, Handshaking, InPass, InTurn
<1>20. ASSUME NEW c \in Conn, Send(c) PROVE PoolInv'
  BY <1>20, SamePool DEF Send, TypeOK, PoolInv, InTurn, HandIsPast, NotYetLive, Live,
     Handshaking, InPass, InTurn
<1>21. ASSUME NEW c \in Conn, Shut(c) PROVE PoolInv'
  BY <1>21, SamePool DEF Shut, TypeOK, PoolInv, InTurn, HandIsPast, NotYetLive, Live,
     Handshaking, InPass, InTurn
<1>22. ASSUME NEW c \in Conn, Reset(c) PROVE PoolInv'
  BY <1>22, SamePool DEF Reset, TypeOK, PoolInv, InTurn, HandIsPast, NotYetLive, Live,
     Handshaking, InPass, InTurn
<1>23. ASSUME NEW f \in Fd, ChildWrites(f) PROVE PoolInv'
  BY <1>23, SamePool DEF ChildWrites, TypeOK, PoolInv, InTurn, HandIsPast, InTurn, NotYetLive,
     Live, Handshaking, InPass, InTurn
<1>24. ASSUME NEW f \in Fd, ChildExits(f) PROVE PoolInv'
  BY <1>24, SamePool DEF ChildExits, TypeOK, PoolInv, InTurn, HandIsPast, InTurn, NotYetLive,
     Live, Handshaking, InPass, InTurn
<1>25. ASSUME NEW s \in Signals, Signal(s) PROVE PoolInv'
  <2>1. pc' = pc \/ (pc = "select" /\ pc' = "returned")
    BY <1>25 DEF Signal
  <2> QED BY <1>25, <2>1, SamePool DEF Signal, Live, Handshaking, InPass, InTurn
<1>26. CASE UNCHANGED vars
  BY <1>26, SamePool DEF vars, Live, Handshaking, InPass, InTurn
<1>27. CASE StartPass
  <2>1. IteratorSafe'
    BY <1>27 DEF StartPass, TypeOK, PoolInv, IteratorSafe, PoolIsLive, IterIsTail,
       Live
  <2>2. HandIsPast' /\ NotYetLive'
    BY <1>27 DEF StartPass, TypeOK, PoolInv, InTurn, HandIsPast, NotYetLive, Live,
       Handshaking
  <2> QED BY <2>1, <2>2 DEF PoolInv
<1>28. CASE EndPass
  <2>1. IteratorSafe'
    BY <1>28 DEF EndPass, TypeOK, PoolInv, IteratorSafe, PoolIsLive, IterIsTail,
       Live, InPass
  <2>2. HandIsPast' /\ NotYetLive'
    BY <1>28 DEF EndPass, TypeOK, PoolInv, InTurn, HandIsPast, NotYetLive, Live, Handshaking
  <2> QED BY <2>1, <2>2 DEF PoolInv
<1>29. ASSUME NEW c \in Conn, Connect(c) PROVE PoolInv'
  <2>1. IteratorSafe'
    BY <1>29 DEF Connect, TypeOK, PoolInv, IteratorSafe, PoolIsLive, IterIsTail,
       Live, InPass
  <2>2. HandIsPast' /\ NotYetLive'
    BY <1>29 DEF Connect, TypeOK, PoolInv, InTurn, HandIsPast, NotYetLive, Live, Handshaking
  <2> QED BY <2>1, <2>2 DEF PoolInv
<1>30. ASSUME NEW c \in Conn, NEW f \in Fd, AcceptHTTPS(c, f) PROVE PoolInv'
  <2>1. IteratorSafe'
    BY <1>30 DEF AcceptHTTPS, TypeOK, PoolInv, IteratorSafe, PoolIsLive,
       IterIsTail, Live, InPass
  <2>2. HandIsPast' /\ NotYetLive'
    BY <1>30 DEF AcceptHTTPS, TakeClient, TypeOK, PoolInv, InTurn, HandIsPast, NotYetLive,
       Live, Handshaking
  <2> QED BY <2>1, <2>2 DEF PoolInv
<1>31. CASE SslAcceptFails
  <2>1. IteratorSafe'
    BY <1>31 DEF SslAcceptFails, TypeOK, PoolInv, IteratorSafe, PoolIsLive,
       IterIsTail, Live, InPass
  <2>2. HandIsPast' /\ NotYetLive'
    BY <1>31 DEF SslAcceptFails, TypeOK, PoolInv, InTurn, HandIsPast, NotYetLive, Live,
       Handshaking
  <2> QED BY <2>1, <2>2 DEF PoolInv
<1>32. ASSUME NEW c \in Conn, NEW f \in Fd, AcceptHTTP(c, f) PROVE PoolInv'
  <2>1. c \notin Live /\ c \in backlog /\ link[c] # "off" /\ c \notin Handshaking
    BY <1>32 DEF AcceptHTTP, Accepting, TakeClient, PoolInv, NotYetLive, Handshaking
  <2>2. IteratorSafe'
    BY <1>32, <2>1, CreatedPool DEF AcceptHTTP, PoolInv
  <2>3. Live' = Live \cup {c} /\ pc' = "loop"
    BY <1>32 DEF AcceptHTTP, Created, Live, TypeOK
  <2>4. HandIsPast' /\ NotYetLive'
    BY <1>32, <2>1, <2>3 DEF AcceptHTTP, TakeClient, TypeOK, PoolInv, InTurn, HandIsPast,
       NotYetLive, Handshaking
  <2> QED BY <2>2, <2>4 DEF PoolInv
<1>33. CASE SslAcceptOk
  <2>1. cobjp \in Conn
    BY <1>33 DEF SslAcceptOk, TypeInv, InHand
  <2>2. cobjp \notin Live /\ cobjp \notin backlog /\ link[cobjp] # "off"
    BY <1>33, <2>1 DEF SslAcceptOk, PoolInv, NotYetLive, Handshaking
  <2>3. IteratorSafe'
    BY <1>33, <2>1, <2>2, CreatedPool DEF SslAcceptOk, PoolInv
  <2>4. Live' = Live \cup {cobjp} /\ pc' = "loop"
    BY <1>33, <2>1 DEF SslAcceptOk, Created, Live, TypeOK
  <2>5. HandIsPast' /\ NotYetLive'
    BY <1>33, <2>1, <2>2, <2>4 DEF SslAcceptOk, TypeOK, PoolInv, InTurn, HandIsPast,
       NotYetLive, Handshaking
  <2> QED BY <2>3, <2>5 DEF PoolInv
<1>34. ASSUME NEW c \in Conn, Visit(c) PROVE PoolInv'
  <2>1. /\ Visiting(c) \/ Resuming(c)
        /\ pool' = pool /\ backlog' = backlog /\ link' = link
    BY <1>34 DEF Visit, VisitUnready, AwaitsRecord, ReadData, ReadFails, DiesReading, Reading
  <2>2. pc' \in {"ssl_read", "process", "cgi_read", "write", "finish", "visit", "dead"}
    BY <1>34 DEF Visit, VisitUnready, AwaitsRecord, ReadData, ReadFails, DiesReading, NextStop,
       TurnEnds, AfterFailedRead
  <2>3. c \in Live
    BY <2>1, TurnIsLive DEF PoolInv
  <2>4. Live' = Live
    <3>1. \/ state' = state
          \/ \E st \in {"PARSING", "CLOSED"} : state' = [state EXCEPT ![c] = st]
      BY <1>34 DEF Visit, VisitUnready, AwaitsRecord, ReadData, ReadFails, DiesReading, AfterFailedRead
    <3> QED BY <2>3, <3>1 DEF Live, TypeOK
  <2>5. IteratorSafe' /\ HandIsPast'
    BY <2>1, <2>3, <2>4, TurnIsLive DEF PoolInv
  <2>6. Handshaking = {} /\ Handshaking' = {}
    BY <2>1, <2>2 DEF Handshaking, Visiting, Resuming
  <2>7. NotYetLive'
    BY <2>1, <2>4, <2>6 DEF PoolInv, NotYetLive
  <2> QED BY <2>5, <2>7 DEF PoolInv
<1>35. ASSUME NEW c \in Conn, Closes(c) PROVE PoolInv'
  <2>1. pc = "finish" /\ c = cobjp /\ c \in Live /\ pc' = "visit"
    BY <1>35 DEF Closes, Finishing, PoolInv, HandIsPast,
     InTurn
  <2>2. Live' = Live \ {c}
    BY <1>35 DEF Closes, Live, TypeOK
  <2>3. IteratorSafe'
    BY <1>35, <2>1, <2>2, ClosedPool
  <2>4. HandIsPast'
    BY <2>1 DEF HandIsPast,
     InTurn
  <2>5. NotYetLive'
    BY <1>35, <2>1, <2>2 DEF Closes, PoolInv, NotYetLive, Handshaking, TypeOK
  <2> QED BY <2>3, <2>4, <2>5 DEF PoolInv
<1> QED
  BY <1>1, <1>2, <1>3, <1>4, <1>5, <1>6, <1>7, <1>8, <1>9, <1>10, <1>11, <1>12,
     <1>13, <1>14, <1>15, <1>16, <1>17, <1>18, <1>19, <1>20, <1>21, <1>22, <1>23,
     <1>24, <1>25, <1>26, <1>27, <1>28, <1>29, <1>30, <1>31, <1>32, <1>33, <1>34, <1>35,
     <1>36, <1>37
  DEF Next, Server, Dispatch, Handshake, Visit, Process, ReadCGI, Write, Finish,
      Environment, Client, Terminating

\* The iterator never reaches a freed connection, in any run of run_liso.
THEOREM IteratorAlwaysSafe == Spec => []IteratorSafe
<1>1. Init => PoolInv
  BY PoolInit
<1>2. TypeInv /\ PoolInv /\ [Next]_vars => (TypeInv /\ PoolInv)'
  BY TypeNext, PoolNext
<1>3. TypeInv /\ PoolInv => IteratorSafe
  BY DEF PoolInv
<1> QED BY <1>1, <1>2, <1>3, TypeInit, PTL DEF Spec

-----------------------------------------------------------------------------
(* Descriptors and their owners *)

\* Every connection, live or in its handshake, holds a socket of its own.
SocketsHeld ==
  \A c \in Live \cup Handshaking :
    conn_fd[c] \in ConnFd /\ fdkind[conn_fd[c]] = "conn" /\ owner[conn_fd[c]] = c

OwnInv == SocketsHeld /\ DescriptorOwnership

\* A step that opens and closes no descriptor changes no ownership.
LEMMA SameSockets ==
  ASSUME OwnInv, UNCHANGED <<conn_fd, fdkind, owner>>,
         Live' = Live, Handshaking' = Handshaking
  PROVE  OwnInv'
BY DEF OwnInv, SocketsHeld, DescriptorOwnership

\* accept() gives a connection a descriptor nobody else holds.
LEMMA NewSocket ==
  ASSUME TypeOK, OwnInv, NEW c \in Conn, NEW f \in ConnFd, f \in Fd, fdkind[f] = "free",
         fdkind' = [fdkind EXCEPT ![f] = "conn"], owner' = [owner EXCEPT ![f] = c],
         conn_fd' = [conn_fd EXCEPT ![c] = f], c \notin Live, Handshaking = {},
         Live' \cup Handshaking' = Live \cup {c}, Live' \subseteq Live \cup {c}
  PROVE  OwnInv'
<1>1. /\ fdkind'[f] = "conn" /\ owner'[f] = c /\ conn_fd'[c] = f
      /\ \A g \in Fd : g # f => fdkind'[g] = fdkind[g] /\ owner'[g] = owner[g]
      /\ \A d \in Conn : d # c => conn_fd'[d] = conn_fd[d]
  BY DEF TypeOK
<1>2. \A d \in Live : d \in Conn /\ d # c /\ conn_fd[d] # f /\ conn_fd[d] \in Fd
  BY DEF OwnInv, SocketsHeld, Live, ConnFd, Fd
<1>3. SocketsHeld'
  BY <1>1, <1>2 DEF OwnInv, SocketsHeld
<1>4. ASSUME NEW g \in Fd, fdkind'[g] = "conn"
      PROVE owner'[g] \in Live \cup {c} /\ conn_fd'[owner'[g]] = g
  <2>1. CASE g = f
    BY <1>1, <2>1
  <2>2. CASE g # f
    <3>1. owner[g] \in Live /\ conn_fd[owner[g]] = g /\ owner'[g] = owner[g]
      BY <1>1, <1>4, <2>2 DEF OwnInv, DescriptorOwnership
    <3> QED BY <1>1, <1>2, <3>1
  <2> QED BY <2>1, <2>2
<1> QED BY <1>3, <1>4 DEF OwnInv, SocketsHeld, DescriptorOwnership

\* Every step keeps sockets and connections matched one to one.
LEMMA OwnNext == TypeInv /\ PoolInv /\ OwnInv /\ [Next]_vars => OwnInv'
<1> SUFFICES ASSUME TypeOK, InHand, PoolInv, OwnInv, [Next]_vars PROVE OwnInv'
  BY DEF TypeInv
<1> USE DEF connVars, kernVars, netVars, loopVars
<1>1. CASE Loop
  BY <1>1, SameSockets DEF Loop, TypeOK, PoolInv, InTurn, HandIsPast, Live, Handshaking
<1>2. CASE SelectFails
  BY <1>2, SameSockets DEF SelectFails, TypeOK, PoolInv, InTurn, HandIsPast, Live,
     Handshaking
<1>3. CASE SelectReturns
  BY <1>3, SameSockets DEF SelectReturns, TypeOK, PoolInv, InTurn, HandIsPast, Live,
     Handshaking
<1>4. CASE StartPass
  BY <1>4, SameSockets DEF StartPass, TypeOK, PoolInv, InTurn, HandIsPast, Live, Handshaking
<1>5. CASE EndPass
  BY <1>5, SameSockets DEF EndPass, TypeOK, PoolInv, InTurn, HandIsPast, Live, Handshaking
<1>6. ASSUME NEW c \in Conn, Visit(c) PROVE OwnInv'
  <2>1. /\ Visiting(c) \/ Resuming(c)
        /\ UNCHANGED <<conn_fd, fdkind, owner>>
    BY <1>6 DEF Visit, VisitUnready, AwaitsRecord, ReadData, ReadFails, DiesReading, Reading
  <2>2. pc' # "ssl_accept"
    BY <1>6 DEF Visit, VisitUnready, AwaitsRecord, ReadData, ReadFails, DiesReading, NextStop,
       TurnEnds, AfterFailedRead
  <2>3. c \in Live
    BY <2>1, TurnIsLive DEF PoolInv
  <2>4. Live' = Live
    <3>1. \/ state' = state
          \/ \E st \in {"PARSING", "CLOSED"} : state' = [state EXCEPT ![c] = st]
      BY <1>6 DEF Visit, VisitUnready, AwaitsRecord, ReadData, ReadFails, DiesReading, AfterFailedRead
    <3> QED BY <2>3, <3>1 DEF Live, TypeOK
  <2>5. Handshaking = {} /\ Handshaking' = {}
    BY <2>1, <2>2 DEF Handshaking, Visiting, Resuming
  <2> QED BY <2>1, <2>4, <2>5, SameSockets
<1>9. ASSUME NEW c \in Conn, StaysParsing(c) PROVE OwnInv'
  BY <1>9, SameSockets DEF StaysParsing, Processing, TurnEnds, TypeOK, PoolInv,
     HandIsPast, Live, Handshaking,
     InTurn
<1>10. ASSUME NEW c \in Conn, Answers(c) PROVE OwnInv'
  BY <1>10, SameSockets DEF Answers, Processing, TypeOK, PoolInv, InTurn, HandIsPast,
     Live, Handshaking
<1>11. ASSUME NEW c \in Conn, AwaitsCGI(c) PROVE OwnInv'
  BY <1>11, SameSockets DEF AwaitsCGI, Processing, WatchPipe, TypeOK, PoolInv,
     HandIsPast, Live, Handshaking,
     InTurn, SetOutOfBounds
<1>12. ASSUME NEW c \in Conn, DiesProcessing(c) PROVE OwnInv'
  BY <1>12, SameSockets DEF DiesProcessing, Processing, TypeOK, PoolInv,
     HandIsPast, Live, Handshaking,
     InTurn
<1>13. ASSUME NEW c \in Conn, ReadCGIResponse(c) PROVE OwnInv'
  BY <1>13, SameSockets DEF ReadCGIResponse, ReadingCGI, TurnEnds, TypeOK,
     PoolInv, HandIsPast, Live, Handshaking,
     InTurn, ReadToEnd
<1>14. ASSUME NEW c \in Conn, ReadNoCGI(c) PROVE OwnInv'
  BY <1>14, SameSockets DEF ReadNoCGI, ReadingCGI, TurnEnds, TypeOK, PoolInv,
     HandIsPast, Live, Handshaking,
     InTurn, ReadToEnd
<1>7. ASSUME NEW c \in Conn, NEW d \in Conn, ReadSocketOf(c, d) PROVE OwnInv'
  BY <1>7, SameSockets DEF ReadSocketOf, ReadingCGI, ReadToEnd, TurnEnds, TypeOK, PoolInv,
     HandIsPast, InTurn, Live, Handshaking
<1>15. ASSUME NEW c \in Conn, ReadCGIFails(c) PROVE OwnInv'
  BY <1>15, SameSockets DEF ReadCGIFails, ReadingCGI, TurnEnds, TypeOK, PoolInv,
     HandIsPast, Live, Handshaking,
     InTurn
<1>16. ASSUME NEW c \in Conn, DiesReadingCGI(c) PROVE OwnInv'
  BY <1>16, SameSockets DEF DiesReadingCGI, ReadingCGI, TypeOK, PoolInv,
     HandIsPast, Live, Handshaking,
     InTurn
<1>17. ASSUME NEW c \in Conn, SendsAll(c) PROVE OwnInv'
  BY <1>17, SameSockets DEF SendsAll, Writing, TurnEnds, AfterSend, TypeOK,
     PoolInv, HandIsPast, Live, Handshaking,
     InTurn
<1>18. ASSUME NEW c \in Conn, SendFails(c) PROVE OwnInv'
  BY <1>18, SameSockets DEF SendFails, Writing, TurnEnds, TypeOK, PoolInv,
     HandIsPast, Live, Handshaking,
     InTurn
<1>19. ASSUME NEW c \in Conn, SendsNothing(c) PROVE OwnInv'
  BY <1>19, SameSockets DEF SendsNothing, Writing, TurnEnds, TypeOK, PoolInv,
     HandIsPast, Live, Handshaking,
     InTurn
<1>20. ASSUME NEW c \in Conn, DiesWriting(c) PROVE OwnInv'
  BY <1>20, SameSockets DEF DiesWriting, Writing, TypeOK, PoolInv, InTurn, HandIsPast,
     Live, Handshaking
<1>21. ASSUME NEW c \in Conn, Refreshes(c) PROVE OwnInv'
  BY <1>21, SameSockets DEF Refreshes, Finishing, TypeOK, PoolInv, InTurn, HandIsPast,
     Live, Handshaking
<1>22. ASSUME NEW c \in Conn, Connect(c) PROVE OwnInv'
  BY <1>22, SameSockets DEF Connect, TypeOK, PoolInv, InTurn, HandIsPast, Live, Handshaking
<1>23. ASSUME NEW c \in Conn, Send(c) PROVE OwnInv'
  BY <1>23, SameSockets DEF Send, TypeOK, PoolInv, InTurn, HandIsPast, Live, Handshaking
<1>24. ASSUME NEW c \in Conn, Shut(c) PROVE OwnInv'
  BY <1>24, SameSockets DEF Shut, TypeOK, PoolInv, InTurn, HandIsPast, Live, Handshaking
<1>25. ASSUME NEW c \in Conn, Reset(c) PROVE OwnInv'
  BY <1>25, SameSockets DEF Reset, TypeOK, PoolInv, InTurn, HandIsPast, Live, Handshaking
<1>26. ASSUME NEW f \in Fd, ChildWrites(f) PROVE OwnInv'
  BY <1>26, SameSockets DEF ChildWrites, TypeOK, PoolInv, InTurn, HandIsPast, Live,
     Handshaking
<1>27. ASSUME NEW f \in Fd, ChildExits(f) PROVE OwnInv'
  BY <1>27, SameSockets DEF ChildExits, TypeOK, PoolInv, InTurn, HandIsPast, Live,
     Handshaking
<1>28. ASSUME NEW s \in Signals, Signal(s) PROVE OwnInv'
  <2>1. pc' = pc \/ (pc = "select" /\ pc' = "returned")
    BY <1>28 DEF Signal
  <2> QED BY <1>28, <2>1, SameSockets DEF Signal, Live, Handshaking
<1>29. CASE UNCHANGED vars
  BY <1>29, SameSockets DEF vars, Live, Handshaking
<1>30. ASSUME NEW sock \in ListenFd, AcceptFails(sock) PROVE OwnInv'
  <2>1. Live' = Live /\ Handshaking' = Handshaking
    BY <1>30 DEF AcceptFails, Accepting, Live, Handshaking
  <2>2. \A f \in Fd : fdkind'[f] = IF f = sock THEN "free" ELSE fdkind[f]
    BY <1>30 DEF AcceptFails, TypeOK
  <2>3. sock \notin ConnFd
    BY DEF ConnFd, ListenFd, HTTP_sock, HTTPS_sock
  <2> QED BY <1>30, <2>1, <2>2, <2>3
          DEF AcceptFails, OwnInv, SocketsHeld, DescriptorOwnership, ConnFd, Fd
<1>31. ASSUME NEW c \in Conn, NEW f \in Fd, AcceptHTTP(c, f) PROVE OwnInv'
  <2>1. Handshaking = {} /\ Handshaking' = {} /\ c \notin Live /\ Live' = Live \cup {c}
    BY <1>31 DEF AcceptHTTP, Accepting, TakeClient, Created, PoolInv, NotYetLive,
       Handshaking, Live, TypeOK
  <2>2. f \in ConnFd /\ f \in Fd /\ fdkind[f] = "free"
    BY <1>31 DEF AcceptHTTP, TakeClient, Lowest, FreeFds
  <2> QED BY <1>31, <2>1, <2>2, NewSocket DEF AcceptHTTP, TakeClient, Created
<1>32. ASSUME NEW c \in Conn, NEW f \in Fd, AcceptHTTPS(c, f) PROVE OwnInv'
  <2>1. Handshaking = {} /\ Handshaking' = {c} /\ c \notin Live /\ Live' = Live
    BY <1>32 DEF AcceptHTTPS, Accepting, TakeClient, PoolInv, NotYetLive,
       Handshaking, Live
  <2>2. f \in ConnFd /\ f \in Fd /\ fdkind[f] = "free"
    BY <1>32 DEF AcceptHTTPS, TakeClient, Lowest, FreeFds
  <2> QED BY <1>32, <2>1, <2>2, NewSocket DEF AcceptHTTPS, TakeClient
<1>33. CASE SslAcceptOk
  <2>1. cobjp \in Conn /\ Handshaking = {cobjp} /\ Handshaking' = {}
    BY <1>33 DEF SslAcceptOk, Created, InHand, Handshaking
  <2>2. Live' = Live \cup {cobjp}
    BY <1>33, <2>1 DEF SslAcceptOk, Created, Live, TypeOK
  <2>3. conn_fd' = conn_fd /\ fdkind' = fdkind /\ owner' = owner
    BY <1>33, <2>1 DEF SslAcceptOk, Created, TypeOK
  <2> QED BY <2>1, <2>2, <2>3 DEF OwnInv, SocketsHeld, DescriptorOwnership
<1>34. CASE SslAcceptFails
  <2>1. cobjp \in Conn /\ Handshaking = {cobjp} /\ Handshaking' = {} /\ cobjp \notin Live
    BY <1>34 DEF SslAcceptFails, InHand, Handshaking, PoolInv, NotYetLive
  <2>2. Live' = Live
    BY <1>34 DEF SslAcceptFails, Live
  <2> DEFINE g == conn_fd[cobjp]
  <2>3. g \in ConnFd /\ g \in Fd /\ owner[g] = cobjp
    BY <2>1 DEF OwnInv, SocketsHeld, ConnFd, Fd
  <2>4. \A f \in Fd : f # g => fdkind'[f] \in {"free", fdkind[f]} /\ owner'[f] = owner[f]
    BY <1>34 DEF SslAcceptFails, TypeOK
  <2>5. fdkind'[g] = "stray"
    BY <1>34, <2>3 DEF SslAcceptFails, TypeOK, ConnFd, HTTPS_sock
  <2>6. \A f \in ConnFd : f # g => fdkind'[f] = fdkind[f]
    BY <1>34 DEF SslAcceptFails, TypeOK, ConnFd, Fd, HTTPS_sock
  <2>7. \A c \in Conn : c # cobjp => conn_fd'[c] = conn_fd[c]
    BY <1>34 DEF SslAcceptFails, TypeOK
  <2>8. \A c \in Live : c # cobjp /\ conn_fd[c] # g
    BY <2>1, <2>3 DEF OwnInv, SocketsHeld
  <2>9. SocketsHeld'
    BY <2>1, <2>2, <2>4, <2>6, <2>7, <2>8 DEF OwnInv, SocketsHeld, Live, ConnFd, Fd
  <2>10. ASSUME NEW f \in Fd, fdkind'[f] = "conn"
         PROVE owner'[f] \in Live /\ conn_fd'[owner'[f]] = f
    <3>1. f # g /\ fdkind[f] = "conn" /\ owner'[f] = owner[f]
      BY <2>4, <2>5, <2>10
    <3>2. owner[f] \in Live \cup {cobjp} /\ conn_fd[owner[f]] = f
      BY <2>1, <3>1 DEF OwnInv, DescriptorOwnership
    <3> QED BY <2>7, <3>1, <3>2, <2>8 DEF Live
  <2> QED BY <2>1, <2>2, <2>9, <2>10 DEF OwnInv, SocketsHeld, DescriptorOwnership
<1>35. ASSUME NEW c \in Conn, NEW f \in Fd, LaunchesCGI(c, f) PROVE OwnInv'
  <2>1. Live' = Live /\ Handshaking = {} /\ Handshaking' = {}
    BY <1>35 DEF LaunchesCGI, AsksForCGI, Processing, WatchPipe, PoolInv,
       HandIsPast,
       Live, Handshaking, TypeOK,
     InTurn, SetOutOfBounds
  <2>2. fdkind[f] = "free"
    BY <1>35 DEF LaunchesCGI, StdoutPipe, FreeFds
  <2>3. \A g \in Fd : g # f => fdkind'[g] = fdkind[g] /\ owner'[g] = owner[g]
    BY <1>35 DEF LaunchesCGI, TypeOK
  <2>4. fdkind'[f] = "pipe" /\ conn_fd' = conn_fd
    BY <1>35 DEF LaunchesCGI, TypeOK
  <2> QED BY <2>1, <2>2, <2>3, <2>4 DEF OwnInv, SocketsHeld, DescriptorOwnership,
          ConnFd, Fd
<1>36. ASSUME NEW c \in Conn, LaunchFails(c) PROVE OwnInv'
  <2>1. Live' = Live /\ Handshaking = {} /\ Handshaking' = {}
    BY <1>36 DEF LaunchFails, AsksForCGI, Processing, WatchPipe, PoolInv,
       HandIsPast,
       Live, Handshaking, TypeOK,
     InTurn, SetOutOfBounds, LaunchFailed
  <2>2. \A g \in Fd : fdkind'[g] = fdkind[g] \/ (fdkind[g] = "free" /\ fdkind'[g] = "stray")
    BY <1>36 DEF LaunchFails, LeftOpen, LowestFds, FreeFds
  <2>3. owner' = owner /\ conn_fd' = conn_fd
    BY <1>36 DEF LaunchFails, LaunchFailed
  <2> QED BY <2>1, <2>2, <2>3 DEF OwnInv, SocketsHeld, DescriptorOwnership,
          ConnFd, Fd
<1>8. ASSUME NEW c \in Conn, NEW g \in Fd, NEW f \in Fd, BodyNotWritten(c, g, f) PROVE OwnInv'
  <2>1. Live' = Live /\ Handshaking = {} /\ Handshaking' = {}
    BY <1>8 DEF BodyNotWritten, LaunchFailed, AsksForCGI, Processing, WatchPipe, SetOutOfBounds,
       PoolInv, HandIsPast, InTurn, Live, Handshaking, TypeOK
  <2>2. \A h \in Fd : \/ fdkind'[h] = fdkind[h]
                      \/ fdkind[h] = "free" /\ fdkind'[h] \in {"stray", "pipe"}
    BY <1>8 DEF BodyNotWritten, StdinPipe, StdoutPipe, FreeFds, TypeOK
  <2>3. owner' = owner /\ conn_fd' = conn_fd
    BY <1>8 DEF BodyNotWritten, LaunchFailed
  <2> QED BY <2>1, <2>2, <2>3 DEF OwnInv, SocketsHeld, DescriptorOwnership,
          ConnFd, Fd
<1>37. ASSUME NEW c \in Conn, Closes(c) PROVE OwnInv'
  <2>1. /\ c \in Live /\ Live' = Live \ {c}
        /\ Handshaking = {} /\ Handshaking' = {}
    BY <1>37 DEF Closes, Finishing, PoolInv, HandIsPast, Live, Handshaking, TypeOK,
     InTurn
  <2> DEFINE g == conn_fd[c]
  <2>2. g \in Fd /\ owner[g] = c
    BY <2>1 DEF OwnInv, SocketsHeld, ConnFd, Fd
  <2>3. fdkind'[g] = "free" /\ \A f \in Fd : f # g => fdkind'[f] = fdkind[f]
    BY <1>37, <2>2 DEF Closes, FdKindAfterClose, TypeOK
  <2>4. \A d \in Conn : d # c => conn_fd'[d] = conn_fd[d]
    BY <1>37 DEF Closes, TypeOK
  <2>5. \A f \in Fd : owner[f] # c => owner'[f] = owner[f]
    BY <1>37 DEF Closes
  <2>6. \A d \in Live' : d \in Live /\ d # c /\ conn_fd[d] # g
    BY <2>1, <2>2 DEF OwnInv, SocketsHeld
  <2>7. SocketsHeld'
    BY <2>1, <2>3, <2>4, <2>5, <2>6 DEF OwnInv, SocketsHeld, Live, ConnFd, Fd
  <2>8. ASSUME NEW f \in Fd, fdkind'[f] = "conn"
        PROVE owner'[f] \in Live' /\ conn_fd'[owner'[f]] = f
    <3>1. f # g /\ fdkind[f] = "conn"
      BY <2>3, <2>8
    <3>2. owner[f] \in Live /\ conn_fd[owner[f]] = f /\ owner[f] # c
      BY <2>1, <3>1 DEF OwnInv, DescriptorOwnership
    <3> QED BY <2>1, <2>4, <2>5, <3>2 DEF Live
  <2> QED BY <2>1, <2>7, <2>8 DEF OwnInv, SocketsHeld, DescriptorOwnership
<1> QED
  BY <1>1, <1>2, <1>3, <1>4, <1>5, <1>6, <1>7, <1>8, <1>9, <1>10, <1>11,
     <1>12, <1>13, <1>14, <1>15, <1>16, <1>17, <1>18, <1>19, <1>20, <1>21, <1>22,
     <1>23, <1>24, <1>25, <1>26, <1>27, <1>28, <1>29, <1>30, <1>31, <1>32, <1>33,
     <1>34, <1>35, <1>36, <1>37
  DEF Next, Server, Dispatch, Handshake, Visit, Process, ReadCGI, Write, Finish,
      Environment, Client, Terminating

\* No socket is ever shared by two clients, lost or left behind by its
\* connection, in any run of run_liso.
THEOREM DescriptorsAlwaysOwned == Spec => []DescriptorOwnership
<1>1. Init => PoolInv
  BY PoolInit
<1>2. Init => OwnInv
  BY DEF Init, OwnInv, SocketsHeld, DescriptorOwnership, Live, Handshaking
<1>3. TypeInv /\ PoolInv /\ OwnInv /\ [Next]_vars => (TypeInv /\ PoolInv /\ OwnInv)'
  BY TypeNext, PoolNext, OwnNext
<1>4. OwnInv => DescriptorOwnership
  BY DEF OwnInv
<1> QED BY <1>1, <1>2, <1>3, <1>4, TypeInit, PTL DEF Spec

=============================================================================
