--------------------- MODULE LisoServerLifecycle_proofs ---------------------
(***************************************************************************)
(* LisoServer implements ConnLifecycle, for every set of clients: whatever *)
(* else the select loop does in between, each step of it takes at most one *)
(* connection along an edge of the promised cycle.                         *)
(***************************************************************************)
EXTENDS LisoServer_proofs

\* What the state of a connection says about the point the turn has reached: a
\* connection is SENT or CLOSED only at the end of its own turn, and without a
\* CGI child it waits for a request.
StateInv ==
  /\ \A c \in Conn : state[c] \in {"SENT", "CLOSED"} => pc = "finish" /\ c = cobjp
  /\ \A c \in Conn : state[c] \in {"FREE", "VACANT", "SENT"} => ~is_pipe[c]
  /\ pc = "process" => state[cobjp] = "PARSING"
  /\ pc = "cgi_read" => state[cobjp] = "PARSED" /\ is_pipe[cobjp]
  /\ pc = "write" => state[cobjp] = "RESPONSE_READY"

\* The refined action of ConnLifecycle, and its variable.
Lifecycle == [Abstract!Next]_([c \in Conn |-> Phase(c)])

\* A step that changes no state and no is_pipe is a stutter of the lifecycle.
LEMMA Stutter ==
  ASSUME state' = state, is_pipe' = is_pipe PROVE Lifecycle
<1>1. \A c \in Conn : Phase(c)' = Phase(c)
  BY DEF Phase
<1> QED BY <1>1 DEF Lifecycle

\* A step of one connection along an edge, or in place.
LEMMA OneConnection ==
  ASSUME NEW c \in Conn,
         \A d \in Conn : d # c => state'[d] = state[d] /\ is_pipe'[d] = is_pipe[d],
         \/ Phase(c)' = Phase(c)
         \/ <<Phase(c), Phase(c)'>> \in Abstract!Edges
         \/ Phase(c) \in Abstract!Closable /\ Phase(c)' = "closing"
         \/ Phase(c) = "closing" /\ Phase(c)' = "none"
  PROVE  Lifecycle
<1> DEFINE f == [d \in Conn |-> Phase(d)]
           g == [d \in Conn |-> Phase(d)']
<1>1. \A d \in Conn : d # c => Phase(d)' = Phase(d)
  BY DEF Phase
<1>2. CASE Phase(c)' = Phase(c)
  BY <1>1, <1>2 DEF Lifecycle
<1>3. CASE Phase(c)' # Phase(c)
  <2>1. g = [f EXCEPT ![c] = Phase(c)']
    BY <1>1
  <2>2. f[c] = Phase(c)
    OBVIOUS
  <2>3. Phase(c)' \in Abstract!Phases
    BY DEF Phase, Abstract!Phases
  <2>4. \/ <<f[c], Phase(c)'>> \in Abstract!Edges
        \/ f[c] \in Abstract!Closable /\ Phase(c)' = "closing"
        \/ f[c] = "closing" /\ Phase(c)' = "none"
    BY <1>3, <2>2
  <2>5. Abstract!Step(c)
    BY <2>1, <2>3, <2>4 DEF Abstract!Step
  <2> QED BY <2>5 DEF Lifecycle, Abstract!Next
<1> QED BY <1>2, <1>3

\* create_connection: from nothing to idle.
LEMMA CreatedPhase ==
  ASSUME TypeOK, NEW c \in Conn, c \notin Live, NEW f, Created(c, f)
  PROVE  /\ Lifecycle
         /\ \A d \in Conn : d # c => state'[d] = state[d] /\ is_pipe'[d] = is_pipe[d]
         /\ state'[c] = "VACANT" /\ is_pipe'[c] = FALSE /\ pc' = "loop"
<1>1. /\ \A d \in Conn : d # c => state'[d] = state[d] /\ is_pipe'[d] = is_pipe[d]
      /\ state[c] = "FREE" /\ state'[c] = "VACANT" /\ is_pipe'[c] = FALSE /\ pc' = "loop"
  BY DEF Created, TypeOK, Live
<1>2. Phase(c) = "none" /\ Phase(c)' = "idle"
  BY <1>1 DEF Phase
<1>3. <<Phase(c), Phase(c)'>> \in Abstract!Edges
  BY <1>2 DEF Abstract!Edges
<1> QED BY <1>1, <1>3, OneConnection

\* More bytes, or what is left of them after a failed read: a request is being
\* received, or a CGI child runs on.
LEMMA ReadPhase ==
  ASSUME TypeOK, StateInv, NEW c \in Conn, c \in Live, pc \in {"visit", "ssl_read"},
         NEW st \in {"PARSING", "CLOSED"}, state' = [state EXCEPT ![c] = st],
         is_pipe' = is_pipe
  PROVE  Lifecycle
<1>1. /\ \A d \in Conn : d # c => state'[d] = state[d] /\ is_pipe'[d] = is_pipe[d]
      /\ state'[c] = st /\ is_pipe'[c] = is_pipe[c]
      /\ state[c] \in {"VACANT", "PARSING", "PARSED", "RESPONSE_READY"}
      /\ state[c] = "VACANT" => ~is_pipe[c]
  BY DEF TypeOK, StateInv, Live, States
<1>2. CASE st = "CLOSED"
  <2>1. Phase(c)' = "closing" /\ Phase(c) \in {"idle", "receiving", "answering", "cgi", "cgi_answer"}
    BY <1>1, <1>2 DEF Phase
  <2> QED BY <1>1, <2>1, OneConnection DEF Abstract!Closable
<1>3. CASE st = "PARSING" /\ is_pipe[c]
  <2>1. Phase(c)' = "cgi" /\ Phase(c) \in {"cgi", "cgi_answer"}
    BY <1>1, <1>3 DEF Phase
  <2>2. Phase(c)' = Phase(c) \/ <<Phase(c), Phase(c)'>> \in Abstract!Edges
    BY <2>1 DEF Abstract!Edges
  <2> QED BY <1>1, <2>2, OneConnection
<1>4. CASE st = "PARSING" /\ ~is_pipe[c]
  <2>1. Phase(c)' = "receiving" /\ Phase(c) \in {"idle", "receiving", "answering"}
    BY <1>1, <1>4 DEF Phase
  <2>2. Phase(c)' = Phase(c) \/ <<Phase(c), Phase(c)'>> \in Abstract!Edges
    BY <2>1 DEF Abstract!Edges
  <2> QED BY <1>1, <2>2, OneConnection
<1> QED BY <1>2, <1>3, <1>4

\* A step that changes no state keeps the invariant if the turn does not move,
\* or ends.
LEMMA SameState ==
  ASSUME StateInv, state' = state, is_pipe' = is_pipe,
         \/ pc' = pc /\ cobjp' = cobjp
         \/ pc # "finish" /\ pc' \notin {"process", "cgi_read", "write", "finish"}
  PROVE  StateInv'
BY DEF StateInv

\* Every step keeps the invariant and takes the connection in hand along the
\* cycle.
LEMMA LifeNext ==
  TypeInv /\ PoolInv /\ StateInv /\ [Next]_vars => StateInv' /\ Lifecycle
<1> SUFFICES ASSUME TypeOK, InHand, PoolInv, StateInv, [Next]_vars PROVE StateInv' /\ Lifecycle
  BY DEF TypeInv
<1> USE DEF connVars, kernVars, netVars, loopVars
<1>1. CASE Loop
  BY <1>1, SameState, Stutter DEF Loop
<1>2. CASE SelectFails
  BY <1>2, SameState, Stutter DEF SelectFails
<1>3. CASE SelectReturns
  BY <1>3, SameState, Stutter DEF SelectReturns
<1>4. CASE StartPass
  BY <1>4, SameState, Stutter DEF StartPass
<1>5. CASE EndPass
  BY <1>5, SameState, Stutter DEF EndPass
<1>6. ASSUME NEW sock \in ListenFd, AcceptFails(sock) PROVE StateInv' /\ Lifecycle
  BY <1>6, SameState, Stutter DEF AcceptFails, Accepting
<1>7. ASSUME NEW c \in Conn, NEW f \in Fd, AcceptHTTPS(c, f) PROVE StateInv' /\ Lifecycle
  BY <1>7, SameState, Stutter DEF AcceptHTTPS, Accepting
<1>8. CASE SslAcceptFails
  BY <1>8, SameState, Stutter DEF SslAcceptFails
<1>9. ASSUME NEW c \in Conn, Connect(c) PROVE StateInv' /\ Lifecycle
  BY <1>9, SameState, Stutter DEF Connect
<1>10. ASSUME NEW c \in Conn, Send(c) PROVE StateInv' /\ Lifecycle
  BY <1>10, SameState, Stutter DEF Send
<1>11. ASSUME NEW c \in Conn, Shut(c) PROVE StateInv' /\ Lifecycle
  BY <1>11, SameState, Stutter DEF Shut
<1>12. ASSUME NEW c \in Conn, Reset(c) PROVE StateInv' /\ Lifecycle
  BY <1>12, SameState, Stutter DEF Reset
<1>13. ASSUME NEW f \in Fd, ChildWrites(f) PROVE StateInv' /\ Lifecycle
  BY <1>13, SameState, Stutter DEF ChildWrites
<1>14. ASSUME NEW f \in Fd, ChildExits(f) PROVE StateInv' /\ Lifecycle
  BY <1>14, SameState, Stutter DEF ChildExits
<1>15. ASSUME NEW s \in Signals, Signal(s) PROVE StateInv' /\ Lifecycle
  <2>1. pc' = pc \/ (pc = "select" /\ pc' = "returned")
    BY <1>15 DEF Signal
  <2> QED BY <1>15, <2>1, SameState, Stutter DEF Signal
<1>16. CASE UNCHANGED vars
  BY <1>16, SameState, Stutter DEF vars
<1>17. ASSUME NEW c \in Conn, DiesProcessing(c) PROVE StateInv' /\ Lifecycle
  BY <1>17, SameState, Stutter DEF DiesProcessing, Processing
<1>43. ASSUME NEW c \in Conn, DiesReading(c) PROVE StateInv' /\ Lifecycle
  BY <1>43, SameState, Stutter DEF DiesReading, Reading, Visiting, Resuming
<1>18. ASSUME NEW c \in Conn, DiesReadingCGI(c) PROVE StateInv' /\ Lifecycle
  BY <1>18, SameState, Stutter DEF DiesReadingCGI, ReadingCGI
<1>19. ASSUME NEW c \in Conn, DiesWriting(c) PROVE StateInv' /\ Lifecycle
  BY <1>19, SameState, Stutter DEF DiesWriting, Writing
<1>20. ASSUME NEW c \in Conn, StaysParsing(c) PROVE StateInv' /\ Lifecycle
  BY <1>20, SameState, Stutter DEF StaysParsing, Processing, TurnEnds
<1>21. ASSUME NEW c \in Conn, SendsNothing(c) PROVE StateInv' /\ Lifecycle
  BY <1>21, SameState, Stutter DEF SendsNothing, Writing, TurnEnds
<1>22. ASSUME NEW c \in Conn, NEW f \in Fd, AcceptHTTP(c, f) PROVE StateInv' /\ Lifecycle
  <2>1. c \notin Live /\ pc = "dispatch" /\ Created(c, f)
    BY <1>22 DEF AcceptHTTP, Accepting, TakeClient, PoolInv, NotYetLive
  <2>2. /\ Lifecycle
        /\ \A d \in Conn : d # c => state'[d] = state[d] /\ is_pipe'[d] = is_pipe[d]
        /\ state'[c] = "VACANT" /\ is_pipe'[c] = FALSE /\ pc' = "loop"
    BY <2>1, CreatedPhase
  <2> QED BY <2>1, <2>2 DEF StateInv
<1>23. CASE SslAcceptOk
  <2>1. cobjp \in Conn /\ cobjp \notin Live /\ pc = "ssl_accept" /\ Created(cobjp, conn_fd[cobjp])
    BY <1>23 DEF SslAcceptOk, InHand, Handshaking, PoolInv, NotYetLive
  <2>2. /\ Lifecycle
        /\ \A d \in Conn : d # cobjp => state'[d] = state[d] /\ is_pipe'[d] = is_pipe[d]
        /\ state'[cobjp] = "VACANT" /\ is_pipe'[cobjp] = FALSE /\ pc' = "loop"
    BY <2>1, CreatedPhase
  <2> QED BY <2>1, <2>2 DEF StateInv
<1>24. ASSUME NEW c \in Conn, VisitUnready(c) PROVE StateInv' /\ Lifecycle
  <2>1. /\ pc = "visit" /\ cobjp' = c /\ state' = state /\ is_pipe' = is_pipe
        /\ pc' \in NextStop(c, state[c])
    BY <1>24 DEF VisitUnready, Visiting
  <2>2. \A d \in Conn : state[d] \notin {"SENT", "CLOSED"}
    BY <2>1 DEF StateInv
  <2>3. /\ pc' \in {"process", "cgi_read", "write", "visit"}
        /\ pc' = "process" => state[c] = "PARSING"
        /\ pc' = "cgi_read" => state[c] = "PARSED" /\ is_pipe[c]
        /\ pc' = "write" => state[c] = "RESPONSE_READY"
    BY <2>1, <2>2 DEF NextStop, TurnEnds
  <2>4. StateInv'
    BY <2>1, <2>2, <2>3 DEF StateInv
  <2> QED BY <2>1, <2>4, Stutter
<1>25. ASSUME NEW c \in Conn, ReadData(c) PROVE StateInv' /\ Lifecycle
  <2>1. Visiting(c) \/ Resuming(c)
    BY <1>25 DEF ReadData, Reading
  <2>2. c \in Live /\ cobjp' = c /\ pc \in {"visit", "ssl_read"}
    BY <2>1, TurnIsLive DEF PoolInv, Visiting, Resuming
  <2>3. state' = [state EXCEPT ![c] = "PARSING"] /\ pc' = "process" /\ is_pipe' = is_pipe
    BY <1>25 DEF ReadData
  <2>4. Lifecycle
    BY <2>2, <2>3, ReadPhase
  <2>5. StateInv'
    BY <2>2, <2>3 DEF StateInv, TypeOK
  <2> QED BY <2>4, <2>5
<1>26. ASSUME NEW c \in Conn, ReadFails(c) PROVE StateInv' /\ Lifecycle
  <2>1. Visiting(c) \/ Resuming(c)
    BY <1>26 DEF ReadFails, Reading
  <2>2. c \in Live /\ cobjp' = c /\ pc \in {"visit", "ssl_read"}
    BY <2>1, TurnIsLive DEF PoolInv, Visiting, Resuming
  <2>3. PICK st \in {"PARSING", "CLOSED"} :
          state' = [state EXCEPT ![c] = st] /\ pc' \in NextStop(c, st) /\ is_pipe' = is_pipe
    BY <1>26 DEF ReadFails, AfterFailedRead
  <2>4. Lifecycle
    BY <2>2, <2>3, ReadPhase
  <2>5. pc' = IF st = "PARSING" THEN "process" ELSE "finish"
    BY <2>3 DEF NextStop, TurnEnds
  <2>6. StateInv'
    BY <2>2, <2>3, <2>5 DEF StateInv, TypeOK
  <2> QED BY <2>4, <2>6
<1>27. ASSUME NEW c \in Conn, Answers(c) PROVE StateInv' /\ Lifecycle
  <2>1. /\ c \in Live /\ c = cobjp /\ cobjp' = cobjp
        /\ pc = "process" /\ state[c] = "PARSING" /\ ~is_pipe[c]
        /\ \A d \in Conn : d # c => state'[d] = state[d] /\ is_pipe'[d] = is_pipe[d]
        /\ state'[c] = "RESPONSE_READY" /\ ~is_pipe'[c] /\ pc' = "write"
    BY <1>27 DEF Answers, Processing, PoolInv, HandIsPast, InTurn, StateInv, TypeOK, TurnEnds
  <2>2. Phase(c) = "receiving" /\ Phase(c)' = "answering"
    BY <2>1 DEF Phase
  <2>3. <<Phase(c), Phase(c)'>> \in Abstract!Edges
    BY <2>2 DEF Abstract!Edges, Abstract!Closable
  <2>4. Lifecycle
    BY <2>1, <2>3, OneConnection
  <2>5. StateInv'
    BY <2>1 DEF StateInv
  <2> QED BY <2>4, <2>5
<1>28. ASSUME NEW c \in Conn, AwaitsCGI(c) PROVE StateInv' /\ Lifecycle
  <2>1. /\ c \in Live /\ c = cobjp /\ cobjp' = cobjp
        /\ pc = "process" /\ state[c] = "PARSING" /\ is_pipe[c]
        /\ \A d \in Conn : d # c => state'[d] = state[d] /\ is_pipe'[d] = is_pipe[d]
        /\ state'[c] = "PARSED" /\ is_pipe'[c] /\ pc' \in {"visit", "dead"}
    BY <1>28 DEF AwaitsCGI, Processing, WatchPipe, SetOutOfBounds, PoolInv, HandIsPast, InTurn,
       StateInv, TypeOK, TurnEnds
  <2>2. Phase(c) = "cgi" /\ Phase(c)' = "cgi"
    BY <2>1 DEF Phase
  <2>3. Phase(c)' = Phase(c)
    BY <2>2 DEF Abstract!Edges, Abstract!Closable
  <2>4. Lifecycle
    BY <2>1, <2>3, OneConnection
  <2>5. StateInv'
    BY <2>1 DEF StateInv
  <2> QED BY <2>4, <2>5
<1>29. ASSUME NEW c \in Conn, NEW f \in Fd, LaunchesCGI(c, f) PROVE StateInv' /\ Lifecycle
  <2>1. /\ c \in Live /\ c = cobjp /\ cobjp' = cobjp
        /\ pc = "process" /\ state[c] = "PARSING" /\ ~is_pipe[c]
        /\ \A d \in Conn : d # c => state'[d] = state[d] /\ is_pipe'[d] = is_pipe[d]
        /\ state'[c] = "PARSED" /\ is_pipe'[c] /\ pc' \in {"visit", "dead"}
    BY <1>29 DEF LaunchesCGI, AsksForCGI, Processing, WatchPipe, SetOutOfBounds, PoolInv,
       HandIsPast, InTurn, StateInv, TypeOK, TurnEnds
  <2>2. Phase(c) = "receiving" /\ Phase(c)' = "cgi"
    BY <2>1 DEF Phase
  <2>3. <<Phase(c), Phase(c)'>> \in Abstract!Edges
    BY <2>2 DEF Abstract!Edges, Abstract!Closable
  <2>4. Lifecycle
    BY <2>1, <2>3, OneConnection
  <2>5. StateInv'
    BY <2>1 DEF StateInv
  <2> QED BY <2>4, <2>5
<1>30. ASSUME NEW c \in Conn, AsksForCGI(c), LaunchFailed(c) PROVE StateInv' /\ Lifecycle
  <2>0. pc' \in {"visit", "dead"}
    BY <1>30, FailedTypes
  <2>1. /\ c \in Live /\ c = cobjp /\ cobjp' = cobjp
        /\ pc = "process" /\ state[c] = "PARSING" /\ ~is_pipe[c]
        /\ \A d \in Conn : d # c => state'[d] = state[d] /\ is_pipe'[d] = is_pipe[d]
        /\ state'[c] = "PARSED" /\ is_pipe'[c] /\ pc' \in {"visit", "dead"}
    BY <1>30, <2>0 DEF AsksForCGI, Processing, LaunchFailed, PoolInv,
       HandIsPast, InTurn, StateInv, TypeOK
  <2>2. Phase(c) = "receiving" /\ Phase(c)' = "cgi"
    BY <2>1 DEF Phase
  <2>3. <<Phase(c), Phase(c)'>> \in Abstract!Edges
    BY <2>2 DEF Abstract!Edges, Abstract!Closable
  <2>4. Lifecycle
    BY <2>1, <2>3, OneConnection
  <2>5. StateInv'
    BY <2>1 DEF StateInv
  <2> QED BY <2>4, <2>5
<1>31. ASSUME NEW c \in Conn, NEW n, ReadingCGI(c), ReadToEnd(c, n)
       PROVE  StateInv' /\ Lifecycle
  <2>1. /\ c \in Live /\ c = cobjp /\ cobjp' = cobjp
        /\ pc = "cgi_read" /\ state[c] = "PARSED" /\ is_pipe[c]
        /\ \A d \in Conn : d # c => state'[d] = state[d] /\ is_pipe'[d] = is_pipe[d]
        /\ state'[c] = "RESPONSE_READY" /\ is_pipe'[c] /\ pc' \in {"write", "visit"}
    BY <1>31 DEF ReadToEnd, ReadingCGI, PoolInv, HandIsPast, InTurn, StateInv, TypeOK, TurnEnds
  <2>2. Phase(c) = "cgi" /\ Phase(c)' = "cgi_answer"
    BY <2>1 DEF Phase
  <2>3. <<Phase(c), Phase(c)'>> \in Abstract!Edges
    BY <2>2 DEF Abstract!Edges, Abstract!Closable
  <2>4. Lifecycle
    BY <2>1, <2>3, OneConnection
  <2>5. StateInv'
    BY <2>1 DEF StateInv
  <2> QED BY <2>4, <2>5
<1>32. ASSUME NEW c \in Conn,
              ReadCGIResponse(c) \/ ReadNoCGI(c) \/ \E d \in Conn : ReadSocketOf(c, d)
       PROVE  StateInv' /\ Lifecycle
  <2>1. ReadingCGI(c) /\ \E n : ReadToEnd(c, n)
    BY <1>32 DEF ReadCGIResponse, ReadNoCGI, ReadSocketOf
  <2>2. PICK n : ReadToEnd(c, n)
    BY <2>1
  <2> QED BY <1>31, <2>1, <2>2
<1>38. ASSUME NEW c \in Conn, AwaitsRecord(c) PROVE StateInv' /\ Lifecycle
  BY <1>38, SameState, Stutter DEF AwaitsRecord, Visiting
<1>33. ASSUME NEW c \in Conn, ReadCGIFails(c) PROVE StateInv' /\ Lifecycle
  <2>1. /\ c \in Live /\ c = cobjp /\ cobjp' = cobjp
        /\ pc = "cgi_read" /\ state[c] = "PARSED" /\ is_pipe[c]
        /\ \A d \in Conn : d # c => state'[d] = state[d] /\ is_pipe'[d] = is_pipe[d]
        /\ state'[c] = "CLOSED" /\ is_pipe'[c] /\ pc' = "finish"
    BY <1>33 DEF ReadCGIFails, ReadingCGI, PoolInv, HandIsPast, InTurn, StateInv, TypeOK, TurnEnds
  <2>2. Phase(c) = "cgi" /\ Phase(c)' = "closing"
    BY <2>1 DEF Phase
  <2>3. Phase(c) \in Abstract!Closable /\ Phase(c)' = "closing"
    BY <2>2 DEF Abstract!Edges, Abstract!Closable
  <2>4. Lifecycle
    BY <2>1, <2>3, OneConnection
  <2>5. StateInv'
    BY <2>1 DEF StateInv
  <2> QED BY <2>4, <2>5
<1>34. ASSUME NEW c \in Conn, SendFails(c) PROVE StateInv' /\ Lifecycle
  <2>1. /\ c \in Live /\ c = cobjp /\ cobjp' = cobjp
        /\ pc = "write" /\ state[c] = "RESPONSE_READY"
        /\ \A d \in Conn : d # c => state'[d] = state[d] /\ is_pipe'[d] = is_pipe[d]
        /\ state'[c] = "CLOSED" /\ pc' = "finish"
    BY <1>34 DEF SendFails, Writing, PoolInv, HandIsPast, InTurn, StateInv, TypeOK, TurnEnds
  <2>2. Phase(c) \in {"answering", "cgi_answer"} /\ Phase(c)' = "closing"
    BY <2>1 DEF Phase
  <2>3. Phase(c) \in Abstract!Closable /\ Phase(c)' = "closing"
    BY <2>2 DEF Abstract!Edges, Abstract!Closable
  <2>4. Lifecycle
    BY <2>1, <2>3, OneConnection
  <2>5. StateInv'
    BY <2>1 DEF StateInv
  <2> QED BY <2>4, <2>5
<1>35. ASSUME NEW c \in Conn, SendsAll(c) PROVE StateInv' /\ Lifecycle
  <2>1. /\ c \in Live /\ c = cobjp /\ cobjp' = cobjp
        /\ pc = "write" /\ state[c] = "RESPONSE_READY"
        /\ \A d \in Conn : d # c => state'[d] = state[d] /\ is_pipe'[d] = is_pipe[d]
        /\ state'[c] = "CLOSED" \/ (state'[c] = "SENT" /\ ~is_pipe[c] /\ ~is_pipe'[c])
        /\ pc' = "finish"
    BY <1>35 DEF SendsAll, Writing, AfterSend, PoolInv, HandIsPast, InTurn, StateInv, TypeOK,
       TurnEnds
  <2>2. \/ Phase(c) \in {"answering", "cgi_answer"} /\ Phase(c)' = "closing"
        \/ Phase(c) = "answering" /\ Phase(c)' = "idle"
    BY <2>1 DEF Phase
  <2>3. (Phase(c) \in Abstract!Closable /\ Phase(c)' = "closing")
        \/ <<Phase(c), Phase(c)'>> \in Abstract!Edges
    BY <2>2 DEF Abstract!Edges, Abstract!Closable
  <2>4. Lifecycle
    BY <2>1, <2>3, OneConnection
  <2>5. StateInv'
    BY <2>1 DEF StateInv
  <2> QED BY <2>4, <2>5
<1>36. ASSUME NEW c \in Conn, Closes(c) PROVE StateInv' /\ Lifecycle
  <2>1. /\ c \in Live /\ c = cobjp /\ cobjp' = cobjp /\ pc = "finish" /\ state[c] = "CLOSED"
        /\ \A d \in Conn : d # c => state'[d] = state[d] /\ is_pipe'[d] = is_pipe[d]
        /\ state'[c] = "FREE" /\ ~is_pipe'[c] /\ pc' = "visit"
    BY <1>36 DEF Closes, Finishing, PoolInv, HandIsPast, InTurn, StateInv, TypeOK, TurnEnds
  <2>2. Phase(c) = "closing" /\ Phase(c)' = "none"
    BY <2>1 DEF Phase
  <2>3. Phase(c) = "closing" /\ Phase(c)' = "none"
    BY <2>2 DEF Abstract!Edges, Abstract!Closable
  <2>4. Lifecycle
    BY <2>1, <2>3, OneConnection
  <2>5. StateInv'
    BY <2>1 DEF StateInv
  <2> QED BY <2>4, <2>5
<1>37. ASSUME NEW c \in Conn, Refreshes(c) PROVE StateInv' /\ Lifecycle
  <2>1. /\ c \in Live /\ c = cobjp /\ cobjp' = cobjp /\ pc = "finish" /\ state[c] = "SENT"
        /\ \A d \in Conn : d # c => state'[d] = state[d] /\ is_pipe'[d] = is_pipe[d]
        /\ state'[c] = "VACANT" /\ ~is_pipe'[c] /\ pc' = "visit"
    BY <1>37 DEF Refreshes, Finishing, PoolInv, HandIsPast, InTurn, StateInv, TypeOK, TurnEnds
  <2>2. Phase(c) = "idle" /\ Phase(c)' = "idle"
    BY <2>1 DEF Phase
  <2>3. Phase(c)' = Phase(c)
    BY <2>2 DEF Abstract!Edges, Abstract!Closable
  <2>4. Lifecycle
    BY <2>1, <2>3, OneConnection
  <2>5. StateInv'
    BY <2>1 DEF StateInv
  <2> QED BY <2>4, <2>5
<1>39. ASSUME NEW c \in Conn, Visit(c) PROVE StateInv' /\ Lifecycle
  BY <1>24, <1>25, <1>26, <1>38, <1>39, <1>43 DEF Visit
<1>40. ASSUME NEW c \in Conn, Process(c) PROVE StateInv' /\ Lifecycle
  <2>1. ASSUME LaunchFails(c) PROVE StateInv' /\ Lifecycle
    BY <1>30, <2>1 DEF LaunchFails
  <2>2. ASSUME NEW g \in Fd, NEW f \in Fd, BodyNotWritten(c, g, f) PROVE StateInv' /\ Lifecycle
    BY <1>30, <2>2 DEF BodyNotWritten
  <2> QED BY <1>17, <1>20, <1>27, <1>28, <1>29, <1>40, <2>1, <2>2 DEF Process
<1>41. ASSUME NEW c \in Conn, ReadCGI(c) PROVE StateInv' /\ Lifecycle
  BY <1>18, <1>32, <1>33, <1>41 DEF ReadCGI
<1>42. ASSUME NEW c \in Conn, Write(c) \/ Finish(c) PROVE StateInv' /\ Lifecycle
  BY <1>19, <1>21, <1>34, <1>35, <1>36, <1>37, <1>42 DEF Write, Finish
<1> QED
  BY <1>1, <1>2, <1>3, <1>4, <1>5, <1>6, <1>7, <1>8, <1>9, <1>10, <1>11,
     <1>12, <1>13, <1>14, <1>15, <1>16, <1>22, <1>23, <1>39, <1>40, <1>41, <1>42
  DEF Next, Server, Dispatch, Handshake, Environment, Client, Terminating

\* At the start there are no connections.
LEMMA LifeInit == Init => StateInv /\ Abstract!Init
<1> SUFFICES ASSUME Init PROVE StateInv /\ Abstract!Init
  OBVIOUS
<1>1. StateInv
  BY DEF Init, StateInv
<1>2. \A c \in Conn : Phase(c) = "none"
  BY DEF Init, Phase
<1> QED BY <1>1, <1>2 DEF Abstract!Init

\* run_liso takes every connection along the promised cycle and no other way.
THEOREM ImplementsLifecycle == Spec => FollowsLifecycle
<1>1. Init => PoolInv
  BY PoolInit
<1>2. TypeInv /\ PoolInv /\ StateInv /\ [Next]_vars => (TypeInv /\ PoolInv /\ StateInv)'
  BY TypeNext, PoolNext, LifeNext
<1>3. TypeInv /\ PoolInv /\ StateInv /\ [Next]_vars
        => [Abstract!Next]_([c \in Conn |-> Phase(c)])
  BY LifeNext DEF Lifecycle
<1> QED BY <1>1, <1>2, <1>3, TypeInit, LifeInit, PTL DEF Spec, FollowsLifecycle, Abstract!Spec

=============================================================================
