----------------------- MODULE LisoServerWatch_proofs -----------------------
(***************************************************************************)
(* More theorems about LisoServer, on the invariants proved in             *)
(* LisoServer_proofs: who reads which pipe, what select() is asked about,  *)
(* and what its answer is worth by the time a connection has its turn.     *)
(***************************************************************************)
EXTENDS LisoServer_proofs

-----------------------------------------------------------------------------
(* The connections iterp has still to visit *)

Ahead(c) == \E i \in DOMAIN iter : iter[i] = c

\* The nodes ahead of iterp are live connections, and none is in hand.
LEMMA AheadIsLive ==
  ASSUME TypeOK, PoolInv, InPass, NEW c, Ahead(c)
  PROVE  c \in Live /\ (InTurn => c # cobjp)
<1>0. PICK i \in DOMAIN iter : iter[i] = c
  BY DEF Ahead
<1>1. /\ iter \in Seq(Conn) /\ pool \in Seq(Conn) /\ i \in 1..Len(iter) /\ i \in Nat
      /\ Len(iter) \in Nat /\ Len(pool) \in Nat
  BY <1>0, LenProperties DEF TypeOK
<1>2. Len(iter) <= Len(pool) /\ iter[i] = pool[Len(pool) - Len(iter) + i]
  BY <1>1 DEF PoolInv, IteratorSafe, IterIsTail
<1>3. Len(pool) - Len(iter) + i \in 1..Len(pool)
  BY <1>1, <1>2
<1> QED BY <1>0, <1>1, <1>2, <1>3 DEF PoolInv, IteratorSafe, PoolIsLive, HandIsPast, InTurn

\* What is left when iterp moves on: nodes that were ahead, without the one it
\* hands out.
LEMMA RestIsAhead ==
  ASSUME TypeOK, PoolInv, NEW c, Visiting(c), NEW e, Ahead(e)'
  PROVE  Ahead(e) /\ e # c
<1>0. PICK i \in DOMAIN iter' : iter'[i] = e
  BY DEF Ahead
<1>1. /\ iter \in Seq(Conn) /\ iter # <<>> /\ pool \in Seq(Conn) /\ c = iter[1] /\ InPass
      /\ Len(iter) \in Nat /\ Len(pool) \in Nat /\ DOMAIN iter = 1..Len(iter)
  BY LenProperties DEF TypeOK, Visiting, InPass
<1>2. /\ iter' \in Seq(Conn) /\ Len(iter') = Len(iter) - 1 /\ Len(iter) > 0
      /\ \A k \in 1..(Len(iter) - 1) : iter'[k] = iter[k + 1]
  BY <1>1, HeadTailProperties, EmptySeq, LenProperties DEF Visiting
<1>3. DOMAIN iter' = 1..(Len(iter) - 1)
  BY <1>2, LenProperties
<1>4. i \in 1..(Len(iter) - 1) /\ i \in Nat /\ i + 1 \in 1..Len(iter) /\ 1 \in 1..Len(iter) /\ i + 1 # 1
  BY <1>0, <1>1, <1>2, <1>3
<1> DEFINE d == Len(pool) - Len(iter)
<1>5. Len(iter) <= Len(pool) /\ \A k \in 1..Len(iter) : iter[k] = pool[d + k]
  BY <1>1 DEF PoolInv, IteratorSafe, IterIsTail
<1>6. d + (i + 1) \in 1..Len(pool) /\ d + 1 \in 1..Len(pool) /\ d + (i + 1) # d + 1
  BY <1>1, <1>4, <1>5
<1>7. pool[d + (i + 1)] # pool[d + 1]
  BY <1>6 DEF PoolInv, IteratorSafe, PoolIsLive
<1>8. iter[i + 1] # iter[1]
  BY <1>4, <1>5, <1>7
<1> QED BY <1>0, <1>1, <1>2, <1>4, <1>8 DEF Ahead

\* The node iterp hands out was ahead.
LEMMA HeadIsAhead ==
  ASSUME TypeOK, NEW c, Visiting(c)
  PROVE  Ahead(c) /\ InPass /\ ~InTurn /\ cobjp' = c
<1>1. iter \in Seq(Conn) /\ iter # <<>>
  BY DEF TypeOK, Visiting
<1>2. 1 \in DOMAIN iter /\ iter[1] = c
  BY <1>1, HeadTailProperties, EmptySeq, LenProperties DEF Visiting
<1> QED BY <1>2 DEF Ahead, Visiting, InPass, InTurn

-----------------------------------------------------------------------------
(* Pipes and the wait set *)

Outside == pc \in {"loop", "select", "dispatch", "ssl_accept"}

\* Where select() has just found every descriptor open.
Settled == pc \in {"dispatch", "ssl_accept"}

\* A pipe belongs to the connection that reads it or to nobody; a connection
\* whose launch did not fail reads its own; only a connection without a CGI
\* child is ever refreshed.
PipesHeld ==
  /\ fdkind[DevNull] = "null" /\ \A f \in ListenFd : fdkind[f] \in {"listen", "free"}
  /\ \A f \in Fd : fdkind[f] \notin {"conn", "pipe"} => owner[f] = NoConn
  /\ \A f \in Fd : fdkind[f] = "pipe" /\ owner[f] # NoConn =>
       /\ owner[f] \in Live /\ is_pipe[owner[f]] /\ pipe_fd[owner[f]] = f
       /\ owner[f] \notin failed
  /\ \A c \in Live : is_pipe[c] /\ c \notin failed =>
       pipe_fd[c] \in Fd /\ fdkind[pipe_fd[c]] = "pipe" /\ owner[pipe_fd[c]] = c
  /\ \A c \in Conn : state[c] = "SENT" => ~is_pipe[c]

\* A failed launch makes a CGI connection all the same, to its end.
FailedHeld ==
  /\ \A c \in failed \cap Live : is_pipe[c]
  /\ Outside => failed \subseteq Live
  /\ pc = "cgi_read" => is_pipe[cobjp]

\* A connection whose launch failed and which has no turn left in this pass.
Behind(c) == c \in failed /\ c \in Live /\ (InPass => ~Ahead(c)) /\ (InTurn => c # cobjp)

\* A closed descriptor is in waitfds only between the turn that put it there
\* and the next select().
ClosedHeld ==
  /\ Settled => \A f \in waitfds : Kind(f) # "free"
  /\ \A f \in waitfds : Kind(f) = "free" =>
       f \in ListenFd \/ \E c \in Conn : Behind(c) /\ pipe_fd[c] = f

\* The listening sockets are watched for good, with everything else that is.
WatchHeld == ListenFd \subseteq waitfds /\ (\A f \in waitfds : f <= max_fd) /\ Watched

KeepInv == PipesHeld /\ FailedHeld /\ ClosedHeld /\ WatchHeld

\* A step that touches neither descriptors nor the wait set.
LEMMA SameWatch ==
  ASSUME KeepInv,
         UNCHANGED <<conn_fd, pipe_fd, is_pipe, failed, fdkind, owner, waitfds, max_fd>>,
         Live' = Live, pc = "dead" => pc' = "dead",
         \A c \in Conn : state'[c] = "SENT" => state[c] = "SENT" \/ ~is_pipe[c],
         pc' = "cgi_read" => is_pipe'[cobjp'],
         Outside' => Outside, Settled' => Settled,
         \A c \in Conn : Behind(c) => Behind(c)'
  PROVE  KeepInv'
<1>1. PipesHeld'
  BY DEF KeepInv, PipesHeld
<1>2. WatchHeld'
  BY DEF KeepInv, WatchHeld, Watched
<1>3. FailedHeld'
  BY DEF KeepInv, FailedHeld
<1>4. ClosedHeld'
  <2>1. \A f : Kind(f)' = Kind(f)
    BY DEF Kind
  <2>2. ASSUME NEW f \in waitfds', Kind(f)' = "free"
        PROVE  f \in ListenFd \/ \E c \in Conn : Behind(c)' /\ pipe_fd'[c] = f
    BY <2>1, <2>2 DEF KeepInv, ClosedHeld
  <2> QED BY <2>1, <2>2 DEF KeepInv, ClosedHeld
<1> QED BY <1>1, <1>2, <1>3, <1>4 DEF KeepInv

\* Such a step with the iterator where it is.
LEMMA TurnWatch ==
  ASSUME KeepInv,
         UNCHANGED <<conn_fd, pipe_fd, is_pipe, failed, fdkind, owner, waitfds, max_fd,
                     iter, cobjp>>,
         Live' = Live, pc = "dead" => pc' = "dead",
         \A c \in Conn : state'[c] = "SENT" => state[c] = "SENT" \/ ~is_pipe[c],
         pc' = "cgi_read" => pc = "cgi_read" \/ is_pipe[cobjp],
         Outside' => Outside, Settled' => Settled, InPass' => InPass, InTurn' => InTurn
  PROVE  KeepInv'
<1>1. \A c \in Conn : Behind(c) => Behind(c)'
  BY DEF Behind, Ahead
<1>2. pc' = "cgi_read" => is_pipe'[cobjp']
  BY DEF KeepInv, FailedHeld
<1> QED BY <1>1, <1>2, SameWatch

\* Such a step of which iterp's move to c is a part.
LEMMA VisitWatch ==
  ASSUME TypeOK, PoolInv, KeepInv, NEW c, Visiting(c),
         UNCHANGED <<conn_fd, pipe_fd, is_pipe, failed, fdkind, owner, waitfds, max_fd>>,
         Live' = Live, InPass' \/ pc' = "dead",
         \A e \in Conn : state'[e] = "SENT" => state[e] = "SENT" \/ ~is_pipe[e],
         pc' = "cgi_read" => is_pipe[c]
  PROVE  KeepInv'
<1>1. Ahead(c) /\ InPass /\ cobjp' = c /\ pc = "visit"
  BY HeadIsAhead DEF Visiting
<1>2. ASSUME NEW e \in Conn, Behind(e) PROVE Behind(e)'
  <2>1. e # c /\ ~Ahead(e)
    BY <1>1, <1>2 DEF Behind
  <2>2. ~Ahead(e)'
    BY <2>1, RestIsAhead
  <2> QED BY <1>1, <1>2, <2>1, <2>2 DEF Behind
<1>3. ~Outside' /\ ~Settled' /\ (pc = "dead" => pc' = "dead") /\ (pc' = "cgi_read" => is_pipe'[cobjp'])
  BY <1>1 DEF Outside, Settled, InPass
<1> QED BY <1>2, <1>3, SameWatch

\* The descriptors by their numbers.
LEMMA Descriptors ==
  /\ MaxFd \in Nat /\ MaxFd >= 2 /\ Fd = 0..MaxFd /\ ConnFd = 3..MaxFd
  /\ DevNull = 0 /\ ListenFd = {1, 2} /\ FD_SETSIZE \in Nat
  /\ FdSet = 0..FD_SETSIZE-1 /\ Fd \subseteq FdSet
BY LisoAssumption DEF Fd, FdSet, ConnFd, DevNull, ListenFd, HTTP_sock, HTTPS_sock

\* What is watched is a descriptor.
LEMMA WatchedNumbers ==
  ASSUME TypeOK, KeepInv, pc # "dead"
  PROVE  \A d \in Live : conn_fd[d] \in Nat /\ (is_pipe[d] /\ d \notin failed => pipe_fd[d] \in Nat)
<1>1. \A f \in waitfds : f \in Nat
  BY Descriptors DEF TypeOK
<1> QED BY <1>1 DEF KeepInv, WatchHeld, Watched

\* max_fd takes a new descriptor in and drops none.
LEMMA LargerBounds ==
  ASSUME NEW a \in Int, NEW b \in Nat
  PROVE  a <= Larger(a, b) /\ (\A x \in Int : x <= b => x <= Larger(a, b)) /\ Larger(a, b) \in Nat
BY DEF Larger

\* FD_SET keeps what was watched and watches what an fd_set can hold.
LEMMA WatchPipeHeld ==
  ASSUME TypeOK, NEW p \in Int, WatchPipe(p)
  PROVE  /\ waitfds \subseteq waitfds' /\ waitfds' \subseteq waitfds \cup {p}
         /\ \A x \in Int : x <= max_fd => x <= max_fd'
         /\ p \in FdSet => p \in waitfds' /\ p <= max_fd' /\ pc' = "visit"
         /\ pc' \in {"visit", "dead"}
<1>1. max_fd \in Nat
  BY DEF TypeOK
<1>2. CASE p \in FdSet
  BY <1>1, <1>2, LargerBounds DEF WatchPipe, SetOutOfBounds
<1>3. CASE p \notin FdSet
  BY <1>1, <1>3, LargerBounds DEF WatchPipe, SetOutOfBounds
<1> QED BY <1>2, <1>3

\* The FD_SET at the end of a CGI turn: what is put into waitfds is open, or
\* is the pipe_fd of a failed launch.
LEMMA PipeWatched ==
  ASSUME TypeOK, PoolInv, KeepInv, NEW c \in Conn, Processing(c), NEW p \in Int, WatchPipe(p),
         UNCHANGED <<iter, cobjp, conn_fd>>, Live' = Live,
         \A d \in Conn : d # c => is_pipe'[d] = is_pipe[d] /\ pipe_fd'[d] = pipe_fd[d],
         is_pipe'[c], pipe_fd'[c] = p, c \notin failed' => Kind(p)' # "free",
         failed \subseteq failed', failed' \subseteq failed \cup {c},
         \A f : Kind(f)' = "free" => Kind(f) = "free"
  PROVE  FailedHeld' /\ ClosedHeld' /\ WatchHeld'
<1>1. c = cobjp /\ pc = "process" /\ InTurn /\ InPass /\ c \in Live /\ ~Ahead(c)
  BY AheadIsLive DEF Processing, InTurn, InPass, PoolInv, HandIsPast
<1>2. /\ waitfds \subseteq waitfds' /\ waitfds' \subseteq waitfds \cup {p}
      /\ \A x \in Int : x <= max_fd => x <= max_fd'
      /\ p \in FdSet => p \in waitfds' /\ p <= max_fd' /\ pc' = "visit"
      /\ pc' \in {"visit", "dead"}
  BY WatchPipeHeld
<1>3. ~Outside' /\ ~Settled' /\ ~InTurn' /\ pc' # "cgi_read"
  BY <1>2 DEF Outside, Settled, InTurn
<1>4. \A d \in Conn : Ahead(d)' <=> Ahead(d)
  BY DEF Ahead
<1>5. FailedHeld'
  BY <1>1, <1>3 DEF KeepInv, FailedHeld, Live
<1>6. ClosedHeld'
  <2>1. ASSUME NEW f \in waitfds', Kind(f)' = "free", f \notin ListenFd
        PROVE  \E d \in Conn : Behind(d)' /\ pipe_fd'[d] = f
    <3>1. CASE f \in waitfds
      <4>1. PICK d \in Conn : Behind(d) /\ pipe_fd[d] = f
        BY <2>1, <3>1 DEF KeepInv, ClosedHeld
      <4>2. d # c /\ ~Ahead(d) /\ d \in failed /\ d \in Live
        BY <1>1, <4>1 DEF Behind
      <4> QED BY <1>3, <1>4, <4>1, <4>2 DEF Behind
    <3>2. CASE f \notin waitfds
      <4>1. f = p /\ c \in failed'
        BY <1>2, <2>1, <3>2
      <4> QED BY <1>1, <1>3, <1>4, <4>1 DEF Behind
    <3> QED BY <3>1, <3>2
  <2> QED BY <1>3, <2>1 DEF ClosedHeld
<1>7. WatchHeld'
  <2>1. \A f \in waitfds : f \in Int /\ f <= max_fd
    BY Descriptors DEF TypeOK, KeepInv, WatchHeld
  <2>2. \A f \in waitfds' : f <= max_fd'
    <3>1. waitfds' \subseteq FdSet
      BY WatchPipeTypes
    <3> QED BY <1>2, <2>1, <3>1
  <2>3. ASSUME pc' # "dead", NEW d \in Live
        PROVE  /\ conn_fd'[d] \in waitfds' /\ conn_fd'[d] <= max_fd'
               /\ is_pipe'[d] /\ d \notin failed' => pipe_fd'[d] \in waitfds' /\ pipe_fd'[d] <= max_fd'
    <3>1. conn_fd[d] \in waitfds
      BY <1>1 DEF KeepInv, WatchHeld, Watched
    <3>2. CASE d = c
      <4>1. c \notin failed' => p \in FdSet
        BY Descriptors DEF Kind
      <4> QED BY <1>2, <2>2, <3>1, <3>2, <4>1
    <3>3. CASE d # c
      <4>1. d \in Conn /\ (is_pipe[d] /\ d \notin failed => pipe_fd[d] \in waitfds)
        BY <1>1 DEF KeepInv, WatchHeld, Watched, Live
      <4> QED BY <1>2, <2>2, <3>1, <3>3, <4>1
    <3> QED BY <3>2, <3>3
  <2>4. ListenFd \subseteq waitfds'
    BY <1>2 DEF KeepInv, WatchHeld
  <2> QED BY <2>2, <2>3, <2>4 DEF WatchHeld, Watched
<1> QED BY <1>5, <1>6, <1>7

\* create_connection at a descriptor that is a socket by now.
LEMMA CreatedHeld ==
  ASSUME TypeOK, KeepInv, Settled, NEW c \in Conn, c \notin Live, NEW f \in ConnFd,
         Created(c, f), fdkind'[f] = "conn", owner'[f] = c,
         \A g \in Fd : g # f => fdkind'[g] = fdkind[g] /\ owner'[g] = owner[g],
         fdkind[f] \notin {"pipe", "null"}, UNCHANGED <<pipe_fd, failed>>
  PROVE  KeepInv'
<1> USE Descriptors
<1>1. /\ Live' = Live \cup {c} /\ is_pipe'[c] = FALSE /\ conn_fd'[c] = f
      /\ \A d \in Conn : d # c => conn_fd'[d] = conn_fd[d] /\ is_pipe'[d] = is_pipe[d]
                                  /\ state'[d] = state[d]
      /\ state'[c] = "VACANT"
      /\ waitfds' = waitfds \cup {f} /\ max_fd' = Larger(f, max_fd) /\ pc' = "loop"
  BY DEF Created, Live, TypeOK
<1>2. max_fd \in Nat /\ f \in Nat /\ f \in Fd /\ f \notin ListenFd /\ f # DevNull
  BY DEF TypeOK
<1>3. f <= max_fd' /\ \A x \in Int : x <= max_fd => x <= max_fd'
  BY <1>1, <1>2, LargerBounds
<1>4. c \notin failed /\ failed \subseteq Live
  BY DEF KeepInv, FailedHeld, Outside, Settled
<1>5. PipesHeld'
  <2>1. ASSUME NEW g \in Fd, fdkind'[g] = "pipe", owner'[g] # NoConn
        PROVE /\ owner'[g] \in Live' /\ is_pipe'[owner'[g]] /\ pipe_fd'[owner'[g]] = g
              /\ owner'[g] \notin failed'
    <3>1. g # f /\ fdkind[g] = "pipe" /\ owner'[g] = owner[g]
      BY <2>1
    <3>2. /\ owner[g] \in Live /\ is_pipe[owner[g]] /\ pipe_fd[owner[g]] = g
          /\ owner[g] \notin failed
      BY <3>1, <2>1 DEF KeepInv, PipesHeld
    <3> QED BY <1>1, <3>1, <3>2 DEF Live
  <2>2. ASSUME NEW d \in Live', is_pipe'[d], d \notin failed'
        PROVE  pipe_fd'[d] \in Fd /\ fdkind'[pipe_fd'[d]] = "pipe" /\ owner'[pipe_fd'[d]] = d
    <3>1. d # c /\ d \in Live /\ is_pipe[d] /\ d \notin failed
      BY <1>1, <2>2 DEF Live
    <3>2. pipe_fd[d] \in Fd /\ fdkind[pipe_fd[d]] = "pipe" /\ owner[pipe_fd[d]] = d
      BY <3>1 DEF KeepInv, PipesHeld
    <3>3. pipe_fd[d] # f
      BY <3>2
    <3> QED BY <3>2, <3>3
  <2>3. fdkind'[DevNull] = "null" /\ \A g \in ListenFd : fdkind'[g] \in {"listen", "free"}
    BY <1>2 DEF KeepInv, PipesHeld
  <2>4. \A g \in Fd : fdkind'[g] \notin {"conn", "pipe"} => owner'[g] = NoConn
    BY DEF KeepInv, PipesHeld
  <2>5. \A d \in Conn : state'[d] = "SENT" => ~is_pipe'[d]
    BY <1>1 DEF KeepInv, PipesHeld
  <2> QED BY <2>1, <2>2, <2>3, <2>4, <2>5 DEF PipesHeld
<1>6. WatchHeld'
  <2>1. \A g \in waitfds : g \in Int /\ g <= max_fd
    BY DEF TypeOK, KeepInv, WatchHeld
  <2>2. \A g \in waitfds' : g <= max_fd'
    BY <1>1, <1>3, <2>1
  <2>3. ASSUME NEW d \in Live'
        PROVE  /\ conn_fd'[d] \in waitfds'
               /\ is_pipe'[d] /\ d \notin failed' => pipe_fd'[d] \in waitfds'
    <3>1. CASE d = c
      BY <1>1, <3>1
    <3>2. CASE d # c
      <4>1. d \in Live /\ pc # "dead"
        BY <1>1, <3>2 DEF Live, Settled
      <4>2. conn_fd[d] \in waitfds /\ (is_pipe[d] /\ d \notin failed => pipe_fd[d] \in waitfds)
        BY <4>1 DEF KeepInv, WatchHeld, Watched
      <4> QED BY <1>1, <3>2, <4>1, <4>2 DEF Live
    <3> QED BY <3>1, <3>2
  <2>4. ListenFd \subseteq waitfds'
    BY <1>1 DEF KeepInv, WatchHeld
  <2> QED BY <2>2, <2>3, <2>4 DEF WatchHeld, Watched
<1>7. FailedHeld'
  BY <1>1, <1>4 DEF KeepInv, FailedHeld, Live
<1>8. ClosedHeld'
  <2>1. \A g \in waitfds : Kind(g) # "free"
    BY DEF KeepInv, ClosedHeld
  <2>2. \A g \in waitfds' : Kind(g)' # "free"
    BY <1>1, <1>2, <2>1 DEF Kind
  <2> QED BY <2>2 DEF ClosedHeld
<1> QED BY <1>5, <1>6, <1>7, <1>8 DEF KeepInv

\* Every step keeps pipes with their connections and everything watched.
LEMMA KeepNext == TypeInv /\ PoolInv /\ OwnInv /\ KeepInv /\ [Next]_vars => KeepInv'
<1> SUFFICES ASSUME TypeOK, InHand, PoolInv, OwnInv, KeepInv, [Next]_vars PROVE KeepInv'
  BY DEF TypeInv
<1> USE DEF connVars, kernVars, netVars, loopVars
<1>1. CASE Loop
  BY <1>1, TurnWatch DEF Loop, TypeOK, Live, Outside, Settled, InPass, InTurn
<1>2. CASE SelectFails
  BY <1>2, TurnWatch DEF SelectFails, TypeOK, Live, Outside, Settled, InPass, InTurn
<1>3. CASE SelectReturns
  <2>1. /\ pc = "select" /\ pc' = "dispatch" /\ BadFds = {} /\ Live' = Live
        /\ UNCHANGED <<conn_fd, pipe_fd, is_pipe, failed, fdkind, owner, waitfds, max_fd, state>>
    BY <1>3 DEF SelectReturns, Live
  <2>2. \A f \in waitfds : Kind(f) # "free"
    BY <2>1 DEF BadFds, KeepInv, WatchHeld
  <2>3. ClosedHeld'
    BY <2>1, <2>2 DEF ClosedHeld, Kind
  <2> QED BY <2>1, <2>3 DEF KeepInv, PipesHeld, FailedHeld, WatchHeld, Watched, Outside
<1>4. CASE StartPass
  <2>1. /\ pc = "dispatch" /\ pc' = "visit" /\ Live' = Live
        /\ UNCHANGED <<conn_fd, pipe_fd, is_pipe, failed, fdkind, owner, waitfds, max_fd, state>>
    BY <1>4 DEF StartPass, Live
  <2>2. \A f \in waitfds : Kind(f) # "free"
    BY <2>1 DEF KeepInv, ClosedHeld, Settled
  <2>3. ClosedHeld'
    BY <2>1, <2>2 DEF ClosedHeld, Kind
  <2> QED BY <2>1, <2>3 DEF KeepInv, PipesHeld, FailedHeld, WatchHeld, Watched, Outside
<1>5. CASE EndPass
  <2>1. /\ pc = "visit" /\ pc' = "loop" /\ Live' = Live /\ failed' = failed \cap Live
        /\ UNCHANGED <<conn_fd, pipe_fd, is_pipe, fdkind, owner, waitfds, max_fd, state>>
    BY <1>5 DEF EndPass, Live, TypeOK
  <2>2. PipesHeld'
    BY <2>1 DEF KeepInv, PipesHeld
  <2>3. FailedHeld'
    BY <2>1 DEF KeepInv, FailedHeld
  <2>4. WatchHeld'
    BY <2>1 DEF KeepInv, WatchHeld, Watched
  <2>5. ClosedHeld'
    <3>1. \A c \in Conn : Behind(c) => Behind(c)'
      BY <2>1 DEF Behind, InPass, InTurn
    <3>2. \A f : Kind(f)' = Kind(f)
      BY <2>1 DEF Kind
    <3>3. ASSUME NEW f \in waitfds, Kind(f) = "free", f \notin ListenFd
          PROVE  \E c \in Conn : Behind(c)' /\ pipe_fd[c] = f
      BY <3>1, <3>3 DEF KeepInv, ClosedHeld
    <3> QED BY <2>1, <3>2, <3>3 DEF ClosedHeld, Settled
  <2> QED BY <2>2, <2>3, <2>4, <2>5 DEF KeepInv
<1>6. ASSUME NEW c \in Conn, VisitUnready(c) PROVE KeepInv'
  <2>1. pc' \in {"process", "write", "finish", "visit", "cgi_read"} /\ (pc' = "cgi_read" => is_pipe[c])
    BY <1>6 DEF VisitUnready, NextStop, TurnEnds
  <2> QED BY <1>6, <2>1, VisitWatch DEF VisitUnready, InPass, Live
<1>7. ASSUME NEW c \in Conn, AwaitsRecord(c) PROVE KeepInv'
  BY <1>7, VisitWatch DEF AwaitsRecord, InPass, Live
<1>8. ASSUME NEW c \in Conn, ReadData(c) PROVE KeepInv'
  <2>1. c \in Live
    <3>1. Visiting(c) => c \in Live
      BY HeadIsAhead, AheadIsLive
    <3>2. Resuming(c) => c \in Live
      BY DEF Resuming, PoolInv, HandIsPast, InTurn
    <3> QED BY <1>8, <3>1, <3>2 DEF ReadData, Reading
  <2>2. /\ pc' = "process" /\ Live' = Live
        /\ UNCHANGED <<conn_fd, pipe_fd, is_pipe, failed, fdkind, owner, waitfds, max_fd>>
        /\ \A e \in Conn : state'[e] = "SENT" => state[e] = "SENT"
    BY <1>8, <2>1 DEF ReadData, TypeOK, Live
  <2>3. CASE Visiting(c)
    BY <2>2, <2>3, VisitWatch DEF InPass
  <2>4. CASE Resuming(c)
    BY <2>2, <2>4, TurnWatch DEF Resuming, Outside, Settled, InPass, InTurn
  <2> QED BY <1>8, <2>3, <2>4 DEF ReadData, Reading
<1>9. ASSUME NEW c \in Conn, ReadFails(c) PROVE KeepInv'
  <2>1. c \in Live
    <3>1. Visiting(c) => c \in Live
      BY HeadIsAhead, AheadIsLive
    <3>2. Resuming(c) => c \in Live
      BY DEF Resuming, PoolInv, HandIsPast, InTurn
    <3> QED BY <1>9, <3>1, <3>2 DEF ReadFails, Reading
  <2>2. /\ Live' = Live
        /\ UNCHANGED <<conn_fd, pipe_fd, is_pipe, failed, fdkind, owner, waitfds, max_fd>>
        /\ \A e \in Conn : state'[e] = "SENT" => state[e] = "SENT"
    BY <1>9, <2>1 DEF ReadFails, AfterFailedRead, TypeOK, Live
  <2>5. pc' \in {"process", "finish"}
    BY <1>9 DEF ReadFails, NextStop, TurnEnds, AfterFailedRead
  <2>3. CASE Visiting(c)
    BY <2>2, <2>3, <2>5, VisitWatch DEF InPass
  <2>4. CASE Resuming(c)
    BY <2>2, <2>4, <2>5, TurnWatch DEF Resuming, Outside, Settled, InPass, InTurn
  <2> QED BY <1>9, <2>3, <2>4 DEF ReadFails, Reading
<1>44. ASSUME NEW c \in Conn, DiesReading(c) PROVE KeepInv'
  <2>1. /\ pc' = "dead" /\ Live' = Live
        /\ UNCHANGED <<conn_fd, pipe_fd, is_pipe, failed, fdkind, owner, waitfds, max_fd>>
        /\ \A e \in Conn : state'[e] = "SENT" => state[e] = "SENT"
    BY <1>44 DEF DiesReading, Live
  <2>2. CASE Visiting(c)
    BY <2>1, <2>2, VisitWatch DEF InPass
  <2>3. CASE Resuming(c)
    BY <2>1, <2>3, TurnWatch DEF Resuming, Outside, Settled, InPass, InTurn
  <2> QED BY <1>44, <2>2, <2>3 DEF DiesReading, Reading
<1>10. ASSUME NEW c \in Conn, StaysParsing(c) PROVE KeepInv'
  BY <1>10, TurnWatch DEF StaysParsing, Processing, TurnEnds, TypeOK, Live,
     Outside, Settled, InPass, InTurn
<1>11. ASSUME NEW c \in Conn, Answers(c) PROVE KeepInv'
  BY <1>11, TurnWatch DEF Answers, Processing, TypeOK, Live, PoolInv, HandIsPast,
     Outside, Settled, InPass, InTurn
<1>12. ASSUME NEW c \in Conn, DiesProcessing(c) PROVE KeepInv'
  BY <1>12, TurnWatch DEF DiesProcessing, Processing, TypeOK, Live,
     Outside, Settled, InPass, InTurn
<1>13. ASSUME NEW c \in Conn, ReadCGIResponse(c) PROVE KeepInv'
  BY <1>13, TurnWatch DEF ReadCGIResponse, ReadToEnd, ReadingCGI, TurnEnds, TypeOK, Live,
     PoolInv, HandIsPast, Outside, Settled, InPass, InTurn
<1>14. ASSUME NEW c \in Conn, ReadNoCGI(c) PROVE KeepInv'
  <2>1. PICK n \in {0, 1} : ReadToEnd(c, n)
    BY <1>14 DEF ReadNoCGI
  <2> QED BY <1>14, <2>1, TurnWatch DEF ReadNoCGI, ReadToEnd, ReadingCGI, TurnEnds, TypeOK, Live,
     PoolInv, HandIsPast, Outside, Settled, InPass, InTurn
<1>15. ASSUME NEW c \in Conn, NEW d \in Conn, ReadSocketOf(c, d) PROVE KeepInv'
  BY <1>15, TurnWatch DEF ReadSocketOf, ReadToEnd, ReadingCGI, TurnEnds, TypeOK, Live,
     PoolInv, HandIsPast, Outside, Settled, InPass, InTurn
<1>16. ASSUME NEW c \in Conn, ReadCGIFails(c) PROVE KeepInv'
  BY <1>16, TurnWatch DEF ReadCGIFails, ReadingCGI, TurnEnds, TypeOK, Live,
     PoolInv, HandIsPast, Outside, Settled, InPass, InTurn
<1>17. ASSUME NEW c \in Conn, DiesReadingCGI(c) PROVE KeepInv'
  BY <1>17, TurnWatch DEF DiesReadingCGI, ReadingCGI, TypeOK, Live,
     Outside, Settled, InPass, InTurn
<1>18. ASSUME NEW c \in Conn, SendsAll(c) PROVE KeepInv'
  BY <1>18, TurnWatch DEF SendsAll, Writing, AfterSend, TurnEnds, TypeOK, Live, PoolInv, HandIsPast,
     Outside, Settled, InPass, InTurn
<1>19. ASSUME NEW c \in Conn, SendFails(c) PROVE KeepInv'
  BY <1>19, TurnWatch DEF SendFails, Writing, TurnEnds, TypeOK, Live, PoolInv, HandIsPast,
     Outside, Settled, InPass, InTurn
<1>20. ASSUME NEW c \in Conn, SendsNothing(c) PROVE KeepInv'
  BY <1>20, TurnWatch DEF SendsNothing, Writing, TurnEnds, TypeOK, Live,
     Outside, Settled, InPass, InTurn
<1>21. ASSUME NEW c \in Conn, DiesWriting(c) PROVE KeepInv'
  BY <1>21, TurnWatch DEF DiesWriting, Writing, TypeOK, Live,
     Outside, Settled, InPass, InTurn
<1>22. ASSUME NEW c \in Conn, Connect(c) PROVE KeepInv'
  BY <1>22, TurnWatch DEF Connect, TypeOK, Live, Outside, Settled, InPass, InTurn
<1>23. ASSUME NEW c \in Conn, Send(c) PROVE KeepInv'
  BY <1>23, TurnWatch DEF Send, TypeOK, Live, Outside, Settled, InPass, InTurn
<1>24. ASSUME NEW c \in Conn, Shut(c) PROVE KeepInv'
  BY <1>24, TurnWatch DEF Shut, TypeOK, Live, Outside, Settled, InPass, InTurn
<1>25. ASSUME NEW c \in Conn, Reset(c) PROVE KeepInv'
  BY <1>25, TurnWatch DEF Reset, TypeOK, Live, Outside, Settled, InPass, InTurn
<1>26. ASSUME NEW f \in Fd, ChildWrites(f) PROVE KeepInv'
  BY <1>26, TurnWatch DEF ChildWrites, TypeOK, Live, Outside, Settled, InPass, InTurn
<1>27. ASSUME NEW f \in Fd, ChildExits(f) PROVE KeepInv'
  BY <1>27, TurnWatch DEF ChildExits, TypeOK, Live, Outside, Settled, InPass, InTurn
<1>28. ASSUME NEW s \in Signals, Signal(s) PROVE KeepInv'
  <2>1. pc' = pc \/ (pc = "select" /\ pc' = "returned")
    BY <1>28 DEF Signal
  <2> QED BY <1>28, <2>1, TurnWatch DEF Signal, Live, Outside, Settled, InPass, InTurn
<1>29. CASE UNCHANGED vars
  BY <1>29, TurnWatch DEF vars, Live, Outside, Settled, InPass, InTurn
<1>30. ASSUME NEW c \in Conn, Refreshes(c) PROVE KeepInv'
  <2>1. c \in Live /\ ~is_pipe[c] /\ pc = "finish"
    BY <1>30 DEF Refreshes, Finishing, KeepInv, PipesHeld, PoolInv, HandIsPast, InTurn
  <2>2. is_pipe' = is_pipe
    BY <1>30, <2>1 DEF Refreshes, TypeOK
  <2> QED BY <1>30, <2>1, <2>2, TurnWatch DEF Refreshes, TypeOK, Live, Outside, Settled, InPass, InTurn
<1>31. ASSUME NEW sock \in ListenFd, AcceptFails(sock) PROVE KeepInv'
  <2>1. Live' = Live /\ \A g \in Fd : fdkind'[g] = IF g = sock THEN "free" ELSE fdkind[g]
    BY <1>31 DEF AcceptFails, TypeOK, Live
  <2>2. sock # DevNull /\ sock \in Fd /\ fdkind[sock] \in {"listen", "free"}
    BY Descriptors DEF KeepInv, PipesHeld
  <2>3. /\ UNCHANGED <<conn_fd, pipe_fd, is_pipe, failed, owner, waitfds, max_fd, state>>
        /\ pc = "dispatch" /\ pc' = "loop"
    BY <1>31 DEF AcceptFails, Accepting
  <2>4. PipesHeld'
    <3>1. \A g \in Fd : fdkind'[g] = "pipe" <=> fdkind[g] = "pipe"
      BY <2>1, <2>2
    <3>2. fdkind'[DevNull] = "null" /\ \A g \in ListenFd : fdkind'[g] \in {"listen", "free"}
      BY <2>1, <2>2, Descriptors DEF KeepInv, PipesHeld
    <3>3. \A g \in Fd : fdkind'[g] \notin {"conn", "pipe"} => owner[g] = NoConn
      BY <2>1, <2>2 DEF KeepInv, PipesHeld
    <3> QED BY <2>1, <2>3, <3>1, <3>2, <3>3 DEF KeepInv, PipesHeld
  <2>5. FailedHeld' /\ WatchHeld'
    BY <2>1, <2>3 DEF KeepInv, FailedHeld, Outside, WatchHeld, Watched
  <2>6. ClosedHeld'
    <3>1. \A g \in waitfds : Kind(g) # "free"
      BY <2>3 DEF KeepInv, ClosedHeld, Settled
    <3>2. \A g \in waitfds' : Kind(g)' = "free" => g \in ListenFd
      BY <2>1, <2>3, <3>1 DEF Kind
    <3> QED BY <2>3, <3>2 DEF ClosedHeld, Settled
  <2> QED BY <2>4, <2>5, <2>6 DEF KeepInv
<1>32. ASSUME NEW c \in Conn, NEW f \in Fd, AcceptHTTP(c, f) PROVE KeepInv'
  <2>1. c \notin Live /\ Settled /\ f \in ConnFd /\ fdkind[f] = "free"
    BY <1>32 DEF AcceptHTTP, Accepting, TakeClient, Lowest, FreeFds, PoolInv, NotYetLive, Settled
  <2>2. /\ fdkind'[f] = "conn" /\ owner'[f] = c
        /\ \A g \in Fd : g # f => fdkind'[g] = fdkind[g] /\ owner'[g] = owner[g]
    BY <1>32 DEF AcceptHTTP, TakeClient, TypeOK
  <2>3. fdkind[f] \notin {"pipe", "null"}
    BY <2>1
  <2> QED BY <1>32, <2>1, <2>2, <2>3, CreatedHeld DEF AcceptHTTP
<1>33. ASSUME NEW c \in Conn, NEW f \in Fd, AcceptHTTPS(c, f) PROVE KeepInv'
  <2>1. c \notin Live /\ pc = "dispatch" /\ pc' = "ssl_accept" /\ f \in ConnFd /\ fdkind[f] = "free"
    BY <1>33 DEF AcceptHTTPS, Accepting, TakeClient, Lowest, FreeFds, PoolInv, NotYetLive
  <2>2. /\ fdkind'[f] = "conn"
        /\ \A g \in Fd : g # f => fdkind'[g] = fdkind[g] /\ owner'[g] = owner[g]
    BY <1>33 DEF AcceptHTTPS, TakeClient, TypeOK
  <2>3. \A d \in Live : conn_fd'[d] = conn_fd[d]
    BY <1>33, <2>1 DEF AcceptHTTPS, TypeOK, Live
  <2>4. Live' = Live /\ UNCHANGED <<pipe_fd, is_pipe, failed, waitfds, max_fd, state>>
    BY <1>33 DEF AcceptHTTPS, Live
  <2>5. PipesHeld'
    BY <2>1, <2>2, <2>4, Descriptors DEF KeepInv, PipesHeld
  <2>6. FailedHeld' /\ WatchHeld'
    BY <2>1, <2>3, <2>4 DEF KeepInv, FailedHeld, Outside, WatchHeld, Watched
  <2>7. ClosedHeld'
    <3>1. \A g \in waitfds : Kind(g) # "free"
      BY <2>1 DEF KeepInv, ClosedHeld, Settled
    <3>2. \A g \in waitfds' : Kind(g)' # "free"
      BY <2>2, <2>4, <3>1 DEF Kind
    <3> QED BY <3>2 DEF ClosedHeld
  <2> QED BY <2>5, <2>6, <2>7 DEF KeepInv
<1>34. CASE SslAcceptOk
  <2>1. cobjp \in Conn /\ Handshaking = {cobjp} /\ cobjp \notin Live /\ Settled
    BY <1>34 DEF SslAcceptOk, InHand, Handshaking, PoolInv, NotYetLive, Settled
  <2> DEFINE f == conn_fd[cobjp]
  <2>2. f \in ConnFd /\ fdkind[f] = "conn" /\ owner[f] = cobjp
    BY <2>1 DEF OwnInv, SocketsHeld
  <2>3. fdkind' = fdkind /\ owner' = owner /\ UNCHANGED <<pipe_fd, failed>> /\ Created(cobjp, f)
    BY <1>34 DEF SslAcceptOk
  <2>4. fdkind[f] \notin {"pipe", "null"}
    BY <2>2
  <2> HIDE DEF f
  <2> QED BY <2>1, <2>2, <2>3, <2>4, CreatedHeld
<1>35. CASE SslAcceptFails
  <2>1. /\ cobjp \in Conn /\ Handshaking = {cobjp} /\ cobjp \notin Live
        /\ pc = "ssl_accept" /\ pc' = "loop"
    BY <1>35 DEF SslAcceptFails, InHand, Handshaking, PoolInv, NotYetLive
  <2> DEFINE g == conn_fd[cobjp]
  <2>2. g \in ConnFd /\ fdkind[g] = "conn" /\ owner[g] = cobjp /\ g \in Fd
    BY <2>1, Descriptors DEF OwnInv, SocketsHeld
  <2>3. /\ \A f \in Fd : f # g => fdkind'[f] = (IF f = HTTPS_sock THEN "free" ELSE fdkind[f])
                                  /\ owner'[f] = owner[f]
        /\ fdkind'[g] = "stray" /\ owner'[g] = NoConn
    BY <1>35, <2>2, Descriptors DEF SslAcceptFails, TypeOK, HTTPS_sock
  <2>4. \A d \in Live : conn_fd'[d] = conn_fd[d]
    BY <1>35, <2>1 DEF SslAcceptFails, TypeOK, Live
  <2>5. Live' = Live /\ UNCHANGED <<pipe_fd, is_pipe, failed, waitfds, max_fd, state>>
    BY <1>35 DEF SslAcceptFails, Live
  <2>6. HTTPS_sock \in ListenFd /\ HTTPS_sock \in Fd /\ fdkind[HTTPS_sock] \in {"listen", "free"}
    BY Descriptors DEF KeepInv, PipesHeld, ListenFd
  <2> HIDE DEF g
  <2>7. PipesHeld'
    <3>1. \A f \in Fd : fdkind[f] = "pipe" => fdkind'[f] = "pipe" /\ owner'[f] = owner[f]
      BY <2>2, <2>3, <2>6
    <3>2. \A f \in Fd : fdkind'[f] = "pipe" => fdkind[f] = "pipe" /\ owner'[f] = owner[f]
      BY <2>2, <2>3, <2>6
    <3>5. g \notin {0, 1, 2} /\ HTTPS_sock = 2 /\ {0, 1, 2} \subseteq Fd
      BY <2>2, Descriptors DEF HTTPS_sock
    <3>3. fdkind'[DevNull] = "null" /\ \A f \in ListenFd : fdkind'[f] \in {"listen", "free"}
      BY <2>3, <3>5, Descriptors DEF KeepInv, PipesHeld
    <3>4. \A f \in Fd : fdkind'[f] \notin {"conn", "pipe"} => owner'[f] = NoConn
      BY <2>3, <2>6 DEF KeepInv, PipesHeld
    <3> QED BY <2>5, <3>1, <3>2, <3>3, <3>4 DEF KeepInv, PipesHeld
  <2>8. FailedHeld' /\ WatchHeld'
    BY <2>1, <2>4, <2>5 DEF KeepInv, FailedHeld, Outside, WatchHeld, Watched
  <2>9. ClosedHeld'
    <3>1. \A f \in waitfds : Kind(f) # "free"
      BY <2>1 DEF KeepInv, ClosedHeld, Settled
    <3>2. \A f \in waitfds' : Kind(f)' = "free" => f \in ListenFd
      BY <2>2, <2>3, <2>5, <2>6, <3>1 DEF Kind
    <3> QED BY <2>1, <3>2 DEF ClosedHeld, Settled
  <2> QED BY <2>7, <2>8, <2>9 DEF KeepInv
<1>36. ASSUME NEW c \in Conn, AwaitsCGI(c) PROVE KeepInv'
  <2>1. c \in Live /\ Processing(c) /\ WatchPipe(pipe_fd[c]) /\ is_pipe[c]
    BY <1>36 DEF AwaitsCGI, Processing, PoolInv, HandIsPast, InTurn
  <2>2. /\ Live' = Live /\ UNCHANGED <<conn_fd, pipe_fd, is_pipe, failed, fdkind, owner>>
        /\ UNCHANGED <<iter, cobjp>>
    BY <1>36, <2>1 DEF AwaitsCGI, TypeOK, Live
  <2>3. \A d \in Conn : state'[d] = "SENT" => state[d] = "SENT"
    BY <1>36 DEF AwaitsCGI, TypeOK
  <2>4. PipesHeld'
    BY <2>2, <2>3 DEF KeepInv, PipesHeld
  <2>5. \A f : Kind(f)' = Kind(f)
    BY <2>2 DEF Kind
  <2>6. c \notin failed => Kind(pipe_fd[c]) # "free"
    BY <2>1 DEF KeepInv, PipesHeld, Kind
  <2>7. pipe_fd[c] \in Int
    BY DEF TypeOK
  <2>c. PICK p \in Int : p = pipe_fd[c]
    BY <2>7
  <2>8. p \in Int /\ WatchPipe(p) /\ pipe_fd'[c] = p /\ (c \notin failed' => Kind(p)' # "free")
    BY <2>1, <2>2, <2>5, <2>6, <2>c
  <2>9. is_pipe'[c] /\ failed \subseteq failed' /\ failed' \subseteq failed \cup {c}
    BY <2>1, <2>2
  <2>a. /\ \A d \in Conn : d # c => is_pipe'[d] = is_pipe[d] /\ pipe_fd'[d] = pipe_fd[d]
        /\ \A f : Kind(f)' = "free" => Kind(f) = "free"
    BY <2>2, <2>5
  <2>b. UNCHANGED <<iter, cobjp, conn_fd>> /\ Live' = Live
    BY <2>2
  <2>10. FailedHeld' /\ ClosedHeld' /\ WatchHeld'
    BY <2>1, <2>8, <2>9, <2>a, <2>b, PipeWatched
  <2> QED BY <2>4, <2>10 DEF KeepInv
<1>37. ASSUME NEW c \in Conn, NEW f \in Fd, LaunchesCGI(c, f) PROVE KeepInv'
  <2>1. c \in Live /\ Processing(c) /\ WatchPipe(f) /\ ~is_pipe[c] /\ f \in ConnFd /\ fdkind[f] = "free"
    BY <1>37 DEF LaunchesCGI, AsksForCGI, Processing, StdoutPipe, FreeFds, PoolInv, HandIsPast, InTurn
  <2>2. Live' = Live /\ UNCHANGED <<conn_fd, iter, cobjp, failed>> /\ c \notin failed
    BY <1>37, <2>1 DEF LaunchesCGI, TypeOK, Live, KeepInv, FailedHeld
  <2>3. /\ \A d \in Conn : state'[d] = "SENT" => state[d] = "SENT" /\ d # c
        /\ is_pipe'[c] /\ pipe_fd'[c] = f
        /\ \A d \in Conn : d # c => is_pipe'[d] = is_pipe[d] /\ pipe_fd'[d] = pipe_fd[d]
    BY <1>37 DEF LaunchesCGI, TypeOK
  <2>4. /\ fdkind'[f] = "pipe" /\ owner'[f] = c
        /\ \A g \in Fd : g # f => fdkind'[g] = fdkind[g] /\ owner'[g] = owner[g]
    BY <1>37 DEF LaunchesCGI, TypeOK
  <2>5. PipesHeld'
    <3>1. ASSUME NEW g \in Fd, fdkind'[g] = "pipe", owner'[g] # NoConn
          PROVE /\ owner'[g] \in Live' /\ is_pipe'[owner'[g]] /\ pipe_fd'[owner'[g]] = g
                /\ owner'[g] \notin failed'
      <4>1. CASE g = f
        BY <2>1, <2>2, <2>3, <2>4, <4>1
      <4>2. CASE g # f
        <5>1. owner'[g] = owner[g] /\ owner[g] \in Live /\ is_pipe[owner[g]]
              /\ pipe_fd[owner[g]] = g /\ owner[g] \notin failed
          BY <2>4, <3>1, <4>2 DEF KeepInv, PipesHeld
        <5> QED BY <2>1, <2>2, <2>3, <5>1 DEF Live
      <4> QED BY <4>1, <4>2
    <3>2. ASSUME NEW d \in Live, is_pipe'[d], d \notin failed
          PROVE  pipe_fd'[d] \in Fd /\ fdkind'[pipe_fd'[d]] = "pipe" /\ owner'[pipe_fd'[d]] = d
      <4>1. CASE d = c
        BY <2>3, <2>4, <4>1
      <4>2. CASE d # c
        <5>1. pipe_fd'[d] = pipe_fd[d] /\ is_pipe[d]
          BY <2>3, <3>2, <4>2 DEF Live
        <5>2. pipe_fd[d] \in Fd /\ fdkind[pipe_fd[d]] = "pipe" /\ owner[pipe_fd[d]] = d
          BY <3>2, <5>1 DEF KeepInv, PipesHeld
        <5>3. pipe_fd[d] # f
          BY <2>1, <5>2
        <5> QED BY <2>4, <5>1, <5>2, <5>3
      <4> QED BY <4>1, <4>2
    <3>3. fdkind'[DevNull] = "null" /\ \A g \in ListenFd : fdkind'[g] \in {"listen", "free"}
      BY <2>1, <2>4, Descriptors DEF KeepInv, PipesHeld
    <3>4. \A d \in Conn : state'[d] = "SENT" => ~is_pipe'[d]
      BY <2>3 DEF KeepInv, PipesHeld
    <3>5. \A g \in Fd : fdkind'[g] \notin {"conn", "pipe"} => owner'[g] = NoConn
      BY <2>4 DEF KeepInv, PipesHeld
    <3> QED BY <2>2, <3>1, <3>2, <3>3, <3>4, <3>5 DEF PipesHeld
  <2>6. Kind(f)' # "free" /\ \A g : Kind(g)' = "free" => Kind(g) = "free"
    BY <2>1, <2>4 DEF Kind
  <2>7. f \in Int
    BY Descriptors
  <2>8. FailedHeld' /\ ClosedHeld' /\ WatchHeld'
    BY <2>1, <2>2, <2>3, <2>6, <2>7, PipeWatched
  <2> QED BY <2>5, <2>8 DEF KeepInv
<1>38. ASSUME NEW c \in Conn, AsksForCGI(c), LaunchFailed(c),
              \A h \in Fd : \/ fdkind'[h] = fdkind[h]
                            \/ h \in ConnFd /\ fdkind[h] = "free" /\ fdkind'[h] \in {"stray", "pipe"}
       PROVE KeepInv'
  <2>1. c \in Live /\ Processing(c) /\ ~is_pipe[c]
    BY <1>38 DEF AsksForCGI, Processing, PoolInv, HandIsPast, InTurn
  <2>2. PICK j \in JunkFd : pipe_fd' = [pipe_fd EXCEPT ![c] = j] /\ WatchPipe(j)
    BY <1>38 DEF LaunchFailed
  <2>3. /\ Live' = Live /\ UNCHANGED <<conn_fd, iter, cobjp, owner>> /\ c \notin failed
        /\ failed' = failed \cup {c}
    BY <1>38, <2>1 DEF LaunchFailed, TypeOK, Live, KeepInv, FailedHeld
  <2>4. /\ \A d \in Conn : state'[d] = "SENT" => state[d] = "SENT" /\ d # c
        /\ is_pipe'[c] /\ pipe_fd'[c] = j /\ j \in Int
        /\ \A d \in Conn : d # c => is_pipe'[d] = is_pipe[d] /\ pipe_fd'[d] = pipe_fd[d]
    BY <1>38, <2>2, LisoAssumption DEF LaunchFailed, TypeOK
  <2>5. \A g : Kind(g)' = "free" => Kind(g) = "free"
    BY <1>38 DEF Kind
  <2>6. PipesHeld'
    <3>1. ASSUME NEW g \in Fd, fdkind'[g] = "pipe", owner'[g] # NoConn
          PROVE /\ owner'[g] \in Live' /\ is_pipe'[owner'[g]] /\ pipe_fd'[owner'[g]] = g
                /\ owner'[g] \notin failed'
      <4>1. owner'[g] = owner[g] /\ fdkind[g] # "free"
        BY <2>3, <3>1 DEF KeepInv, PipesHeld
      <4>2. fdkind[g] = "pipe"
        BY <1>38, <3>1, <4>1
      <4>3. owner[g] \in Live /\ is_pipe[owner[g]] /\ pipe_fd[owner[g]] = g /\ owner[g] \notin failed
        BY <3>1, <4>1, <4>2 DEF KeepInv, PipesHeld
      <4> QED BY <2>1, <2>3, <2>4, <4>1, <4>3 DEF Live
    <3>2. ASSUME NEW d \in Live, is_pipe'[d], d \notin failed'
          PROVE  pipe_fd'[d] \in Fd /\ fdkind'[pipe_fd'[d]] = "pipe" /\ owner'[pipe_fd'[d]] = d
      <4>1. d # c /\ pipe_fd'[d] = pipe_fd[d] /\ is_pipe[d] /\ d \notin failed
        BY <2>3, <2>4, <3>2 DEF Live
      <4>2. pipe_fd[d] \in Fd /\ fdkind[pipe_fd[d]] = "pipe" /\ owner[pipe_fd[d]] = d
        BY <4>1 DEF KeepInv, PipesHeld
      <4> QED BY <1>38, <2>3, <4>1, <4>2
    <3>3. fdkind'[DevNull] = "null" /\ \A g \in ListenFd : fdkind'[g] \in {"listen", "free"}
      BY <1>38, Descriptors DEF KeepInv, PipesHeld
    <3>4. \A d \in Conn : state'[d] = "SENT" => ~is_pipe'[d]
      BY <2>4 DEF KeepInv, PipesHeld
    <3>5. \A g \in Fd : fdkind'[g] \notin {"conn", "pipe"} => owner'[g] = NoConn
      BY <1>38, <2>3 DEF KeepInv, PipesHeld
    <3> QED BY <2>3, <3>1, <3>2, <3>3, <3>4, <3>5 DEF PipesHeld
  <2>7. FailedHeld' /\ ClosedHeld' /\ WatchHeld'
    BY <2>1, <2>2, <2>3, <2>4, <2>5, PipeWatched
  <2> QED BY <2>6, <2>7 DEF KeepInv
<1>39. ASSUME NEW c \in Conn, LaunchFails(c) PROVE KeepInv'
  <2>1. \A h \in Fd : \/ fdkind'[h] = fdkind[h]
                      \/ h \in ConnFd /\ fdkind[h] = "free" /\ fdkind'[h] \in {"stray", "pipe"}
    BY <1>39 DEF LaunchFails, LeftOpen, LowestFds, FreeFds
  <2> QED BY <1>38, <1>39, <2>1 DEF LaunchFails
<1>40. ASSUME NEW c \in Conn, NEW g \in Fd, NEW f \in Fd, BodyNotWritten(c, g, f) PROVE KeepInv'
  <2>1. \A h \in Fd : \/ fdkind'[h] = fdkind[h]
                      \/ h \in ConnFd /\ fdkind[h] = "free" /\ fdkind'[h] \in {"stray", "pipe"}
    BY <1>40 DEF BodyNotWritten, StdinPipe, StdoutPipe, FreeFds, TypeOK
  <2> QED BY <1>38, <1>40, <2>1 DEF BodyNotWritten
<1>41. ASSUME NEW c \in Conn, Closes(c) PROVE KeepInv'
  <2>1. /\ c \in Live /\ Live' = Live \ {c} /\ pc = "finish" /\ c = cobjp /\ ~Ahead(c)
        /\ pc' = "visit" /\ UNCHANGED <<iter, failed, cobjp, max_fd>> /\ InPass /\ InTurn
    BY <1>41, AheadIsLive DEF Closes, Finishing, PoolInv, HandIsPast, Live, TypeOK, InTurn, InPass
  <2> DEFINE g == conn_fd[c]
  <2>2. g \in Fd /\ g \in ConnFd /\ owner[g] = c /\ fdkind[g] = "conn"
    BY <2>1, Descriptors DEF OwnInv, SocketsHeld
  <2>3. fdkind'[g] = "free" /\ \A f \in Fd : f # g => fdkind'[f] = fdkind[f]
    BY <1>41, <2>2 DEF Closes, FdKindAfterClose, TypeOK
  <2>4. /\ waitfds' = waitfds \ {g}
        /\ \A f \in Fd : owner'[f] = IF owner[f] = c THEN NoConn ELSE owner[f]
    BY <1>41 DEF Closes, WaitSetAfterClose
  <2>5. \A d \in Conn : d # c => /\ conn_fd'[d] = conn_fd[d] /\ pipe_fd'[d] = pipe_fd[d]
                                 /\ is_pipe'[d] = is_pipe[d] /\ state'[d] = state[d]
    BY <1>41 DEF Closes, TypeOK
  <2>6. \A d \in Live' : d \in Live /\ d \in Conn /\ d # c /\ conn_fd[d] # g
    BY <2>1, <2>2 DEF OwnInv, SocketsHeld, Live
  <2>7. state'[c] = "FREE"
    BY <1>41 DEF Closes, TypeOK
  <2> HIDE DEF g
  <2>8. PipesHeld'
    <3>1. ASSUME NEW f \in Fd, fdkind'[f] = "pipe", owner'[f] # NoConn
          PROVE /\ owner'[f] \in Live' /\ is_pipe'[owner'[f]] /\ pipe_fd'[owner'[f]] = f
                /\ owner'[f] \notin failed'
      <4>1. f # g /\ fdkind[f] = "pipe" /\ owner[f] # c /\ owner'[f] = owner[f]
        BY <2>3, <2>4, <3>1
      <4>2. owner[f] \in Live /\ is_pipe[owner[f]] /\ pipe_fd[owner[f]] = f /\ owner[f] \notin failed
        BY <3>1, <4>1 DEF KeepInv, PipesHeld
      <4> QED BY <2>1, <2>5, <4>1, <4>2 DEF Live
    <3>2. ASSUME NEW d \in Live', is_pipe'[d], d \notin failed'
          PROVE  pipe_fd'[d] \in Fd /\ fdkind'[pipe_fd'[d]] = "pipe" /\ owner'[pipe_fd'[d]] = d
      <4>1. d # c /\ pipe_fd'[d] = pipe_fd[d] /\ is_pipe[d] /\ d \in Live /\ d \notin failed
        BY <2>1, <2>5, <2>6, <3>2
      <4>2. pipe_fd[d] \in Fd /\ fdkind[pipe_fd[d]] = "pipe" /\ owner[pipe_fd[d]] = d
        BY <4>1 DEF KeepInv, PipesHeld
      <4>3. pipe_fd[d] # g
        BY <2>2, <4>2
      <4> QED BY <2>3, <2>4, <4>1, <4>2, <4>3
    <3>3. fdkind'[DevNull] = "null" /\ \A f \in ListenFd : fdkind'[f] \in {"listen", "free"}
      BY <2>2, <2>3, Descriptors DEF KeepInv, PipesHeld
    <3>4. \A d \in Conn : state'[d] = "SENT" => ~is_pipe'[d]
      BY <2>5, <2>7 DEF KeepInv, PipesHeld
    <3>5. \A f \in Fd : fdkind'[f] \notin {"conn", "pipe"} => owner'[f] = NoConn
      BY <2>2, <2>3, <2>4 DEF KeepInv, PipesHeld
    <3> QED BY <3>1, <3>2, <3>3, <3>4, <3>5 DEF PipesHeld
  <2>9. WatchHeld'
    <3>1. ListenFd \subseteq waitfds' /\ \A f \in waitfds' : f <= max_fd'
      BY <2>1, <2>2, <2>4, Descriptors DEF KeepInv, WatchHeld
    <3>2. ASSUME NEW d \in Live'
          PROVE  /\ conn_fd'[d] \in waitfds'
                 /\ is_pipe'[d] /\ d \notin failed' => pipe_fd'[d] \in waitfds'
      <4>1. d \in Live /\ d # c /\ conn_fd'[d] = conn_fd[d] /\ conn_fd[d] # g
            /\ is_pipe'[d] = is_pipe[d] /\ pipe_fd'[d] = pipe_fd[d]
        BY <2>5, <2>6
      <4>2. conn_fd[d] \in waitfds /\ (is_pipe[d] /\ d \notin failed => pipe_fd[d] \in waitfds)
        BY <2>1, <4>1 DEF KeepInv, WatchHeld, Watched
      <4>3. is_pipe[d] /\ d \notin failed => pipe_fd[d] # g
        BY <2>2, <4>1 DEF KeepInv, PipesHeld
      <4> QED BY <2>1, <2>4, <4>1, <4>2, <4>3
    <3> QED BY <3>1, <3>2 DEF WatchHeld, Watched
  <2>10. FailedHeld'
    BY <2>1, <2>5, <2>6 DEF KeepInv, FailedHeld, Outside, Live
  <2>11. ClosedHeld'
    <3>1. ASSUME NEW f \in waitfds', Kind(f)' = "free", f \notin ListenFd
          PROVE  \E d \in Conn : Behind(d)' /\ pipe_fd'[d] = f
      <4>1. f \in waitfds /\ Kind(f) = "free"
        BY <2>3, <2>4, <3>1 DEF Kind
      <4>2. PICK d \in Conn : Behind(d) /\ pipe_fd[d] = f
        BY <3>1, <4>1 DEF KeepInv, ClosedHeld
      <4>3. d # c /\ d \in Live /\ ~Ahead(d) /\ d \in failed
        BY <2>1, <4>2 DEF Behind
      <4> QED BY <2>1, <2>5, <4>2, <4>3 DEF Behind, Ahead, InTurn
    <3> QED BY <2>1, <3>1 DEF ClosedHeld, Settled
  <2> QED BY <2>8, <2>9, <2>10, <2>11 DEF KeepInv
<1> QED
  BY <1>1, <1>2, <1>3, <1>4, <1>5, <1>6, <1>7, <1>8, <1>9, <1>10, <1>11,
     <1>12, <1>13, <1>14, <1>15, <1>16, <1>17, <1>18, <1>19, <1>20, <1>21,
     <1>22, <1>23, <1>24, <1>25, <1>26, <1>27, <1>28, <1>29, <1>30, <1>31,
     <1>32, <1>33, <1>34, <1>35, <1>36, <1>37, <1>39, <1>40, <1>41, <1>44
  DEF Next, Server, Dispatch, Handshake, Visit, Process, ReadCGI, Write, Finish,
      Environment, Client, Terminating

\* The wait set at the start names the listening sockets only.
LEMMA KeepInit == Init => KeepInv
<1> SUFFICES ASSUME Init PROVE KeepInv
  OBVIOUS
<1>1. Live = {}
  BY DEF Init, Live
<1>2. \A f \in ListenFd : f <= max_fd
  BY DEF Init, MaxListenFd, Larger, ListenFd, HTTP_sock, HTTPS_sock
<1>3. PipesHeld
  BY <1>1, Descriptors DEF Init, PipesHeld
<1>4. WatchHeld
  BY <1>1, <1>2 DEF Init, WatchHeld, Watched
<1>5. FailedHeld /\ ClosedHeld
  BY DEF Init, FailedHeld, ClosedHeld, Settled
<1> QED BY <1>3, <1>4, <1>5 DEF KeepInv

\* All that is known of sockets, pipes and the wait set.
ServerInv == TypeInv /\ PoolInv /\ OwnInv /\ KeepInv

\* All the invariants so far, at once.
LEMMA ServerInvariant == Spec => []ServerInv
<1>1. Init => OwnInv
  BY DEF Init, OwnInv, SocketsHeld, DescriptorOwnership, Live, Handshaking
<1>2. Init => ServerInv
  BY <1>1, TypeInit, PoolInit, KeepInit DEF ServerInv
<1>3. ServerInv /\ [Next]_vars => ServerInv'
  BY TypeNext, PoolNext, OwnNext, KeepNext DEF ServerInv
<1> QED BY <1>2, <1>3, PTL DEF Spec

\* A connection whose launch succeeded reads its own child's output to the end,
\* and no pipe of its own is in use by another connection, but for one whose own
\* launch failed.
THEOREM OutputAlwaysPrivate == Spec => []PrivateOutput
<1>1. ServerInv => PrivateOutput
  BY DEF ServerInv, KeepInv, PipesHeld, PrivateOutput, Kind
<1> QED BY <1>1, ServerInvariant, PTL

\* select() is asked about every socket, and every CGI pipe of a launch that
\* succeeded.
THEOREM AlwaysWatched == Spec => []Watched
<1>1. ServerInv => Watched
  BY DEF ServerInv, KeepInv, WatchHeld
<1> QED BY <1>1, ServerInvariant, PTL

\* waitfds names no closed descriptor but a listening socket and what a failed
\* launch has left in pipe_fd, which no select() survives.
THEOREM WaitSetAlwaysOpen == Spec => []WaitSetOpen
<1>1. ServerInv => WaitSetOpen
  <2> SUFFICES ASSUME TypeOK, KeepInv, NEW f \in waitfds, Kind(f) = "free", f \notin ListenFd
               PROVE  \E c \in failed : is_pipe[c] /\ pipe_fd[c] = f
    BY DEF ServerInv, TypeInv, WaitSetOpen
  <2>1. PICK c \in Conn : Behind(c) /\ pipe_fd[c] = f
    BY DEF KeepInv, ClosedHeld
  <2> QED BY <2>1 DEF Behind, KeepInv, FailedHeld
<1> QED BY <1>1, ServerInvariant, PTL

-----------------------------------------------------------------------------
(* The listening sockets *)

\* A step that closes nothing, outside the control points at which the call
\* has lost a listening socket.
LEMMA StillListening ==
  ASSUME NeverHalfDeaf, pc \notin {"loop", "select"} \cup Stopped,
         \A f \in ListenFd : fdkind'[f] = "free" => fdkind[f] = "free"
  PROVE  NeverHalfDeaf'
BY DEF NeverHalfDeaf

\* No step serves a connection with one listening socket closed.
LEMMA DeafNext == ServerInv /\ NeverHalfDeaf /\ [Next]_vars => NeverHalfDeaf'
<1> SUFFICES ASSUME TypeOK, InHand, PoolInv, OwnInv, KeepInv, NeverHalfDeaf, [Next]_vars
             PROVE NeverHalfDeaf'
  BY DEF ServerInv, TypeInv
<1> USE DEF connVars, kernVars, netVars, loopVars, Stopped
<1>1. CASE Loop
  BY <1>1 DEF Loop, NeverHalfDeaf
<1>2. CASE SelectFails
  BY <1>2 DEF SelectFails, NeverHalfDeaf
<1>3. CASE SelectReturns
  <2>1. \A f \in ListenFd : Kind(f) # "free" /\ f \in Fd
    BY <1>3, Descriptors DEF SelectReturns, BadFds, KeepInv, WatchHeld
  <2>2. \A f \in ListenFd : fdkind[f] # "free"
    BY <2>1 DEF Kind
  <2> QED BY <1>3, <2>2 DEF SelectReturns, NeverHalfDeaf
<1>4. CASE StartPass
  BY <1>4, StillListening DEF StartPass
<1>5. CASE EndPass
  BY <1>5, StillListening DEF EndPass
<1>6. ASSUME NEW c \in Conn, VisitUnready(c) PROVE NeverHalfDeaf'
  BY <1>6, StillListening DEF VisitUnready, Visiting
<1>7. ASSUME NEW c \in Conn, ReadData(c) PROVE NeverHalfDeaf'
  BY <1>7, StillListening DEF ReadData, Reading, Visiting, Resuming
<1>8. ASSUME NEW c \in Conn, ReadFails(c) PROVE NeverHalfDeaf'
  BY <1>8, StillListening DEF ReadFails, Reading, Visiting, Resuming
<1>9. ASSUME NEW c \in Conn, AwaitsCGI(c) PROVE NeverHalfDeaf'
  BY <1>9, StillListening DEF AwaitsCGI, Processing
<1>10. ASSUME NEW c \in Conn, StaysParsing(c) PROVE NeverHalfDeaf'
  BY <1>10, StillListening DEF StaysParsing, Processing
<1>11. ASSUME NEW c \in Conn, Answers(c) PROVE NeverHalfDeaf'
  BY <1>11, StillListening DEF Answers, Processing
<1>12. ASSUME NEW c \in Conn, DiesProcessing(c) PROVE NeverHalfDeaf'
  BY <1>12, StillListening DEF DiesProcessing, Processing
<1>13. ASSUME NEW c \in Conn, ReadCGIResponse(c) PROVE NeverHalfDeaf'
  BY <1>13, StillListening DEF ReadCGIResponse, ReadToEnd, ReadingCGI
<1>14. ASSUME NEW c \in Conn, ReadNoCGI(c) PROVE NeverHalfDeaf'
  BY <1>14, StillListening DEF ReadNoCGI, ReadToEnd, ReadingCGI
<1>15. ASSUME NEW c \in Conn, ReadCGIFails(c) PROVE NeverHalfDeaf'
  BY <1>15, StillListening DEF ReadCGIFails, ReadingCGI
<1>16. ASSUME NEW c \in Conn, DiesReadingCGI(c) PROVE NeverHalfDeaf'
  BY <1>16, StillListening DEF DiesReadingCGI, ReadingCGI
<1>17. ASSUME NEW c \in Conn, SendsAll(c) PROVE NeverHalfDeaf'
  BY <1>17, StillListening DEF SendsAll, Writing
<1>18. ASSUME NEW c \in Conn, SendFails(c) PROVE NeverHalfDeaf'
  BY <1>18, StillListening DEF SendFails, Writing
<1>19. ASSUME NEW c \in Conn, SendsNothing(c) PROVE NeverHalfDeaf'
  BY <1>19, StillListening DEF SendsNothing, Writing
<1>20. ASSUME NEW c \in Conn, DiesWriting(c) PROVE NeverHalfDeaf'
  BY <1>20, StillListening DEF DiesWriting, Writing
<1>21. ASSUME NEW c \in Conn, Refreshes(c) PROVE NeverHalfDeaf'
  BY <1>21, StillListening DEF Refreshes, Finishing
<1>22. ASSUME NEW c \in Conn, Connect(c) PROVE NeverHalfDeaf'
  BY <1>22 DEF Connect, NeverHalfDeaf
<1>23. ASSUME NEW c \in Conn, Send(c) PROVE NeverHalfDeaf'
  BY <1>23 DEF Send, NeverHalfDeaf
<1>24. ASSUME NEW c \in Conn, Shut(c) PROVE NeverHalfDeaf'
  BY <1>24 DEF Shut, NeverHalfDeaf
<1>25. ASSUME NEW c \in Conn, Reset(c) PROVE NeverHalfDeaf'
  BY <1>25 DEF Reset, NeverHalfDeaf
<1>26. ASSUME NEW f \in Fd, ChildWrites(f) PROVE NeverHalfDeaf'
  BY <1>26 DEF ChildWrites, NeverHalfDeaf
<1>27. ASSUME NEW f \in Fd, ChildExits(f) PROVE NeverHalfDeaf'
  BY <1>27 DEF ChildExits, NeverHalfDeaf
<1>28. ASSUME NEW s \in Signals, Signal(s) PROVE NeverHalfDeaf'
  BY <1>28 DEF Signal, NeverHalfDeaf
<1>29. CASE UNCHANGED vars
  BY <1>29 DEF vars, NeverHalfDeaf
<1>30. ASSUME NEW sock \in ListenFd, AcceptFails(sock) PROVE NeverHalfDeaf'
  BY <1>30 DEF AcceptFails, NeverHalfDeaf
<1>31. ASSUME NEW c \in Conn, NEW f \in Fd, AcceptHTTP(c, f) PROVE NeverHalfDeaf'
  BY <1>31, StillListening DEF AcceptHTTP, Accepting, TakeClient, TypeOK
<1>32. ASSUME NEW c \in Conn, NEW f \in Fd, AcceptHTTPS(c, f) PROVE NeverHalfDeaf'
  BY <1>32, StillListening DEF AcceptHTTPS, Accepting, TakeClient, TypeOK
<1>33. CASE SslAcceptOk
  BY <1>33, StillListening DEF SslAcceptOk
<1>34. CASE SslAcceptFails
  BY <1>34 DEF SslAcceptFails, NeverHalfDeaf
<1>35. ASSUME NEW c \in Conn, NEW f \in Fd, LaunchesCGI(c, f) PROVE NeverHalfDeaf'
  BY <1>35, StillListening DEF LaunchesCGI, AsksForCGI, Processing, TypeOK
<1>36. ASSUME NEW c \in Conn, LaunchFails(c) PROVE NeverHalfDeaf'
  <2>1. \A f \in ListenFd : f \in Fd /\ f \notin ConnFd
    BY Descriptors
  <2> QED BY <1>36, <2>1, StillListening DEF LaunchFails, AsksForCGI, Processing
<1>38. ASSUME NEW c \in Conn, NEW g \in Fd, NEW f \in Fd, BodyNotWritten(c, g, f)
       PROVE  NeverHalfDeaf'
  <2>1. \A h \in Fd : fdkind'[h] = "free" => fdkind[h] = "free"
    BY <1>38 DEF BodyNotWritten, TypeOK
  <2>2. ListenFd \subseteq Fd /\ pc = "process"
    BY <1>38, Descriptors DEF BodyNotWritten, AsksForCGI, Processing
  <2> QED BY <2>1, <2>2, StillListening
<1>39. ASSUME NEW c \in Conn, AwaitsRecord(c) PROVE NeverHalfDeaf'
  BY <1>39, StillListening DEF AwaitsRecord, Visiting
<1>41. ASSUME NEW c \in Conn, DiesReading(c) PROVE NeverHalfDeaf'
  BY <1>41, StillListening DEF DiesReading, Reading, Visiting, Resuming
<1>40. ASSUME NEW c \in Conn, NEW d \in Conn, ReadSocketOf(c, d) PROVE NeverHalfDeaf'
  BY <1>40, StillListening DEF ReadSocketOf, ReadToEnd, ReadingCGI
<1>37. ASSUME NEW c \in Conn, Closes(c) PROVE NeverHalfDeaf'
  <2>1. pc = "finish" /\ conn_fd[c] \in ConnFd
    BY <1>37 DEF Closes, Finishing, PoolInv, HandIsPast, InTurn, OwnInv, SocketsHeld
  <2>2. \A f \in ListenFd : f \in Fd /\ f # conn_fd[c]
    BY <2>1, Descriptors
  <2> QED BY <1>37, <2>1, <2>2, StillListening DEF Closes, FdKindAfterClose, TypeOK
<1> QED
  BY <1>1, <1>2, <1>3, <1>4, <1>5, <1>6, <1>7, <1>8, <1>9, <1>10, <1>11,
     <1>12, <1>13, <1>14, <1>15, <1>16, <1>17, <1>18, <1>19, <1>20, <1>21,
     <1>22, <1>23, <1>24, <1>25, <1>26, <1>27, <1>28, <1>29, <1>30, <1>31,
     <1>32, <1>33, <1>34, <1>35, <1>36, <1>37, <1>38, <1>39, <1>40, <1>41
  DEF Next, Server, Dispatch, Handshake, Visit, Process, ReadCGI, Write, Finish,
      Environment, Client, Terminating

\* Once a listening socket is closed nothing is served any more.
THEOREM ServesWithBothEars == Spec => []NeverHalfDeaf
<1>1. Init => NeverHalfDeaf
  BY DEF Init, NeverHalfDeaf
<1>2. ServerInv /\ NeverHalfDeaf /\ [Next]_vars => NeverHalfDeaf'
  BY DeafNext
<1> QED BY <1>1, <1>2, ServerInvariant, PTL DEF Spec

-----------------------------------------------------------------------------
(* What select() reported *)

\* Between select() and the pass, what it reported is still so.
StillReady ==
  pc = "dispatch" => \A f \in readfds \cap Fd : fdkind[f] # "stray" => Ready(f)

\* StillReadable, descriptor by descriptor.
NoBlock ==
  InPass /\ failed = {} =>
    \A c \in Conn, f \in Fd :
      Ahead(c) /\ f \in readfds =>
        /\ conn_fd[c] = f => Ready(f)
        /\ is_pipe[c] /\ pipe_fd[c] = f => Ready(f)

BlockInv == StillReady /\ NoBlock

\* What a live connection reads.
LEMMA LiveHolds ==
  ASSUME TypeOK, OwnInv, KeepInv, failed = {}, NEW c \in Live
  PROVE  /\ conn_fd[c] \in Fd /\ fdkind[conn_fd[c]] = "conn" /\ owner[conn_fd[c]] = c
         /\ is_pipe[c] => /\ pipe_fd[c] \in Fd /\ fdkind[pipe_fd[c]] = "pipe"
                          /\ owner[pipe_fd[c]] = c
BY Descriptors DEF OwnInv, SocketsHeld, KeepInv, PipesHeld

\* So does one ahead, which is not in hand.
LEMMA AheadHolds ==
  ASSUME TypeOK, PoolInv, OwnInv, KeepInv, InPass, failed = {}, NEW c \in Conn, Ahead(c)
  PROVE  /\ conn_fd[c] \in Fd /\ fdkind[conn_fd[c]] = "conn" /\ owner[conn_fd[c]] = c
         /\ is_pipe[c] => /\ pipe_fd[c] \in Fd /\ fdkind[pipe_fd[c]] = "pipe"
                          /\ owner[pipe_fd[c]] = c
         /\ InTurn => c # cobjp
BY AheadIsLive, LiveHolds

\* A step during the pass that spoils nothing for those ahead.
LEMMA AheadStaysReady ==
  ASSUME NoBlock, InPass, readfds' = readfds, pc' # "dispatch", failed' = failed,
         failed = {} =>
           \A c \in Conn : Ahead(c)' =>
             /\ Ahead(c) /\ conn_fd'[c] = conn_fd[c] /\ pipe_fd'[c] = pipe_fd[c]
             /\ is_pipe'[c] = is_pipe[c],
         failed = {} =>
           \A c \in Conn, f \in Fd :
             Ahead(c)' /\ (conn_fd[c] = f \/ (is_pipe[c] /\ pipe_fd[c] = f)) /\ Ready(f) => Ready(f)'
  PROVE  BlockInv'
<1>1. ASSUME failed = {}, NEW c \in Conn, NEW f \in Fd, Ahead(c)', f \in readfds,
             conn_fd'[c] = f \/ (is_pipe'[c] /\ pipe_fd'[c] = f)
      PROVE  Ready(f)'
  <2>1. Ahead(c) /\ (conn_fd[c] = f \/ (is_pipe[c] /\ pipe_fd[c] = f))
    BY <1>1
  <2>2. Ready(f)
    BY <1>1, <2>1 DEF NoBlock
  <2> QED BY <1>1, <2>1, <2>2
<1>2. NoBlock'
  <2> SUFFICES ASSUME InPass', failed = {}, NEW c \in Conn, NEW f \in Fd, Ahead(c)', f \in readfds
      PROVE  /\ conn_fd'[c] = f => Ready(f)'
             /\ is_pipe'[c] /\ pipe_fd'[c] = f => Ready(f)'
    BY DEF NoBlock
  <2>1. (conn_fd'[c] = f \/ (is_pipe'[c] /\ pipe_fd'[c] = f)) => Ready(f)'
    BY <1>1
  <2> QED BY <2>1
<1> QED BY <1>2 DEF BlockInv, StillReady

\* Readiness changes with descriptors, sockets and pipes only.
LEMMA SameReady ==
  ASSUME UNCHANGED <<fdkind, owner, child, out, link, inbox, backlog>>, NEW f
  PROVE  Ready(f)' <=> Ready(f)
BY DEF Ready

\* A turn of a connection that leaves the kernel and all others as they are.
LEMMA QuietTurn ==
  ASSUME TypeOK, PoolInv, NoBlock, InTurn, pc' # "dispatch",
         UNCHANGED <<readfds, iter, failed, fdkind, owner, child, out, link, inbox, backlog>>,
         \A c \in Conn : c # cobjp =>
           conn_fd'[c] = conn_fd[c] /\ pipe_fd'[c] = pipe_fd[c] /\ is_pipe'[c] = is_pipe[c]
  PROVE  BlockInv'
<1>1. InPass
  BY DEF InTurn, InPass
<1>2. \A c \in Conn : Ahead(c)' => Ahead(c) /\ c # cobjp
  BY <1>1, AheadIsLive DEF Ahead
<1>3. \A f : Ready(f)' <=> Ready(f)
  BY SameReady
<1> QED BY <1>1, <1>2, <1>3, AheadStaysReady

\* A read from the socket of the connection in hand.
LEMMA OwnRead ==
  ASSUME TypeOK, PoolInv, OwnInv, KeepInv, NoBlock, NEW c \in Conn, Reading(c), pc' # "dispatch",
         UNCHANGED <<readfds, conn_fd, pipe_fd, is_pipe, failed, fdkind, owner, child, out,
                     link, backlog>>,
         \A e \in Conn : e # c => inbox'[e] = inbox[e]
  PROVE  BlockInv'
<1>1. CASE Visiting(c)
  <2>1. InPass
    BY <1>1, HeadIsAhead
  <2>2. \A e \in Conn : Ahead(e)' => Ahead(e) /\ e # c
    BY <1>1, RestIsAhead
  <2>3. ASSUME failed = {}, NEW e \in Conn, Ahead(e)', NEW f \in Fd, Ready(f),
               conn_fd[e] = f \/ (is_pipe[e] /\ pipe_fd[e] = f)
        PROVE  Ready(f)'
    BY <2>1, <2>2, <2>3, AheadHolds DEF Ready
  <2> QED BY <2>1, <2>2, <2>3, AheadStaysReady
<1>2. CASE Resuming(c)
  <2>1. InPass /\ InTurn /\ c = cobjp /\ iter' = iter
    BY <1>2 DEF Resuming, InPass, InTurn
  <2>2. \A e \in Conn : Ahead(e)' => Ahead(e) /\ e # c
    BY <2>1, AheadIsLive DEF Ahead
  <2>3. ASSUME failed = {}, NEW e \in Conn, Ahead(e)', NEW f \in Fd, Ready(f),
               conn_fd[e] = f \/ (is_pipe[e] /\ pipe_fd[e] = f)
        PROVE  Ready(f)'
    BY <2>1, <2>2, <2>3, AheadHolds DEF Ready
  <2> QED BY <2>1, <2>2, <2>3, AheadStaysReady
<1> QED BY <1>1, <1>2 DEF Reading

\* Clients, children and signals take no readiness away.
LEMMA OutsideStaysReady ==
  ASSUME TypeOK, PoolInv, OwnInv, pc \in {"dispatch"} \/ InPass,
         \/ \E c \in Conn : Client(c)
         \/ \E f \in Fd : ChildWrites(f) \/ ChildExits(f)
         \/ \E s \in Signals : Signal(s),
         NEW f \in Fd, Ready(f)
  PROVE  Ready(f)'
<1> USE DEF kernVars, netVars
<1>1. Handshaking = {}
  BY DEF Handshaking, InPass
<1>2. fdkind[f] = "conn" => link[owner[f]] # "off"
  BY <1>1 DEF OwnInv, DescriptorOwnership, PoolInv, NotYetLive, Live
<1>3. ASSUME NEW c \in Conn, Connect(c) PROVE Ready(f)'
  BY <1>2, <1>3 DEF Connect, Ready, TypeOK
<1>4. ASSUME NEW c \in Conn, Send(c) PROVE Ready(f)'
  <2>1. inbox[c] \in Nat /\ \A d \in Conn : inbox[d] \in Nat /\ (inbox[d] > 0 => inbox'[d] > 0)
    BY <1>4, LisoAssumption DEF Send, TypeOK
  <2> QED BY <1>4, <2>1 DEF Send, Ready
<1>5. ASSUME NEW c \in Conn, Shut(c) PROVE Ready(f)'
  BY <1>5 DEF Shut, Ready, TypeOK
<1>6. ASSUME NEW c \in Conn, Reset(c) PROVE Ready(f)'
  BY <1>6 DEF Reset, Ready, TypeOK
<1>7. ASSUME NEW g \in Fd, ChildWrites(g) PROVE Ready(f)'
  BY <1>7 DEF ChildWrites, Ready, TypeOK
<1>8. ASSUME NEW g \in Fd, ChildExits(g) PROVE Ready(f)'
  BY <1>8 DEF ChildExits, Ready, TypeOK
<1>9. ASSUME NEW s \in Signals, Signal(s) PROVE Ready(f)'
  BY <1>9, SameReady DEF Signal
<1> QED BY <1>3, <1>4, <1>5, <1>6, <1>7, <1>8, <1>9 DEF Client

\* So they leave the pass as it is.
LEMMA OutsideKeeps ==
  ASSUME TypeOK, PoolInv, OwnInv, BlockInv,
         \/ \E c \in Conn : Client(c)
         \/ \E f \in Fd : ChildWrites(f) \/ ChildExits(f)
         \/ \E s \in Signals : Signal(s)
  PROVE  BlockInv'
<1> USE DEF kernVars, netVars, loopVars, connVars
<1>1. UNCHANGED <<readfds, iter, conn_fd, pipe_fd, is_pipe, failed, fdkind>>
  BY DEF Client, Connect, Send, Shut, Reset, ChildWrites, ChildExits, Signal
<1>2. pc' = pc \/ (pc = "select" /\ pc' = "returned")
  BY DEF Client, Connect, Send, Shut, Reset, ChildWrites, ChildExits, Signal
<1>3. StillReady'
  <2> SUFFICES ASSUME pc' = "dispatch", NEW f \in readfds \cap Fd, fdkind[f] # "stray" PROVE Ready(f)'
    BY <1>1 DEF StillReady
  <2>1. pc = "dispatch" /\ f \in Fd /\ Ready(f)
    BY <1>2 DEF BlockInv, StillReady
  <2> QED BY <2>1, OutsideStaysReady
<1>4. NoBlock'
  <2> SUFFICES ASSUME InPass', failed = {}, NEW c \in Conn, NEW f \in Fd, Ahead(c)', f \in readfds
      PROVE  /\ conn_fd[c] = f => Ready(f)'
             /\ is_pipe[c] /\ pipe_fd[c] = f => Ready(f)'
    BY <1>1 DEF NoBlock
  <2>1. InPass /\ Ahead(c)
    BY <1>1, <1>2 DEF InPass, Ahead
  <2>2. Ready(f) => Ready(f)'
    BY <2>1, OutsideStaysReady
  <2> QED BY <2>1, <2>2 DEF BlockInv, NoBlock
<1> QED BY <1>3, <1>4 DEF BlockInv

\* No step takes away what select() reported.
LEMMA BlockNext == ServerInv /\ BlockInv /\ [Next]_vars => BlockInv'
<1> SUFFICES ASSUME TypeOK, InHand, PoolInv, OwnInv, KeepInv, BlockInv, [Next]_vars
             PROVE BlockInv'
  BY DEF ServerInv, TypeInv
<1> USE DEF connVars, kernVars, netVars, loopVars
<1>a. NoBlock /\ StillReady
  BY DEF BlockInv
<1>1. CASE Loop
  BY <1>1 DEF Loop, BlockInv, StillReady, NoBlock, InPass
<1>2. CASE SelectFails
  BY <1>2 DEF SelectFails, BlockInv, StillReady, NoBlock, InPass
<1>3. ASSUME NEW sock \in ListenFd, AcceptFails(sock) PROVE BlockInv'
  BY <1>3 DEF AcceptFails, BlockInv, StillReady, NoBlock, InPass
<1>4. CASE SelectReturns
  <2>1. PICK strays \in SUBSET StrayFds : readfds' = ReadyFds \cup strays
    BY <1>4 DEF SelectReturns
  <2>2. /\ pc' = "dispatch"
        /\ UNCHANGED <<fdkind, owner, child, out, link, inbox, backlog>>
    BY <1>4 DEF SelectReturns
  <2>3. \A f \in readfds' \cap Fd : fdkind[f] # "stray" => Ready(f)
    BY <2>1 DEF ReadyFds, StrayFds, Kind
  <2>4. StillReady'
    BY <2>2, <2>3, SameReady DEF StillReady
  <2> QED BY <2>2, <2>4 DEF BlockInv, NoBlock, InPass
<1>5. CASE StartPass
  <2>1. /\ pc = "dispatch" /\ pc' = "visit" /\ iter' = pool
        /\ UNCHANGED <<readfds, conn_fd, pipe_fd, is_pipe, failed, fdkind, owner, child, out,
                       link, inbox, backlog>>
    BY <1>5 DEF StartPass
  <2>2. ASSUME failed = {}, NEW c \in Conn, NEW f \in Fd, Ahead(c)', f \in readfds,
               conn_fd[c] = f \/ (is_pipe[c] /\ pipe_fd[c] = f)
        PROVE  Ready(f)'
    <3>1. pool \in Seq(Conn) /\ DOMAIN pool = 1..Len(pool)
      BY DEF TypeOK
    <3>2. c \in Live
      BY <2>1, <2>2, <3>1 DEF Ahead, PoolInv, IteratorSafe, PoolIsLive
    <3>3. fdkind[f] # "stray"
      BY <2>2, <3>2, LiveHolds
    <3>4. Ready(f)
      BY <1>a, <2>1, <2>2, <3>3 DEF StillReady
    <3> QED BY <2>1, <3>4, SameReady
  <2>3. NoBlock'
    <3> SUFFICES ASSUME failed = {}, NEW c \in Conn, NEW f \in Fd, Ahead(c)', f \in readfds
        PROVE  /\ conn_fd[c] = f => Ready(f)'
               /\ is_pipe[c] /\ pipe_fd[c] = f => Ready(f)'
      BY <2>1 DEF NoBlock
    <3>1. (conn_fd[c] = f \/ (is_pipe[c] /\ pipe_fd[c] = f)) => Ready(f)'
      BY <2>2
    <3> QED BY <3>1
  <2> QED BY <2>1, <2>3 DEF BlockInv, StillReady
<1>6. CASE EndPass
  BY <1>6 DEF EndPass, BlockInv, StillReady, NoBlock, InPass
<1>7. ASSUME NEW c \in Conn, NEW f \in Fd, AcceptHTTP(c, f) PROVE BlockInv'
  BY <1>7 DEF AcceptHTTP, Created, BlockInv, StillReady, NoBlock, InPass
<1>8. ASSUME NEW c \in Conn, NEW f \in Fd, AcceptHTTPS(c, f) PROVE BlockInv'
  BY <1>8 DEF AcceptHTTPS, Created, BlockInv, StillReady, NoBlock, InPass
<1>9. CASE SslAcceptOk
  BY <1>9 DEF SslAcceptOk, Created, BlockInv, StillReady, NoBlock, InPass
<1>10. CASE SslAcceptFails
  BY <1>10 DEF SslAcceptFails, BlockInv, StillReady, NoBlock, InPass
<1>11. ASSUME NEW c \in Conn, VisitUnready(c) PROVE BlockInv'
  <2>1. InPass /\ pc' # "dispatch"
    BY <1>11 DEF VisitUnready, Visiting, InPass, NextStop, TurnEnds
  <2>2. UNCHANGED <<readfds, conn_fd, pipe_fd, is_pipe, failed>> /\ \A f : Ready(f)' <=> Ready(f)
    BY <1>11, SameReady DEF VisitUnready
  <2>3. \A e \in Conn : Ahead(e)' => Ahead(e)
    BY <1>11, RestIsAhead DEF VisitUnready
  <2> QED BY <1>a, <2>1, <2>2, <2>3, AheadStaysReady
<1>12. ASSUME NEW c \in Conn, AwaitsRecord(c) PROVE BlockInv'
  <2>1. Reading(c) /\ pc' # "dispatch"
    BY <1>12 DEF AwaitsRecord, Reading
  <2>2. \A e \in Conn : e # c => inbox'[e] = inbox[e]
    BY <1>12 DEF AwaitsRecord, TypeOK
  <2>3. UNCHANGED <<readfds, conn_fd, pipe_fd, is_pipe, failed, fdkind, owner, child, out,
                    link, backlog>>
    BY <1>12 DEF AwaitsRecord
  <2> QED BY <1>a, <2>1, <2>2, <2>3, OwnRead
<1>13. ASSUME NEW c \in Conn, ReadData(c) PROVE BlockInv'
  <2>1. Reading(c) /\ pc' # "dispatch"
    BY <1>13 DEF ReadData
  <2>2. \A e \in Conn : e # c => inbox'[e] = inbox[e]
    BY <1>13 DEF ReadData, TypeOK
  <2>3. UNCHANGED <<readfds, conn_fd, pipe_fd, is_pipe, failed, fdkind, owner, child, out,
                    link, backlog>>
    BY <1>13 DEF ReadData
  <2> QED BY <1>a, <2>1, <2>2, <2>3, OwnRead
<1>38. ASSUME NEW c \in Conn, ReadFails(c) PROVE BlockInv'
  <2>1. Reading(c) /\ pc' # "dispatch"
    BY <1>38 DEF ReadFails, NextStop, AfterFailedRead, TurnEnds
  <2>2. \A e \in Conn : e # c => inbox'[e] = inbox[e]
    BY <1>38 DEF ReadFails, TypeOK
  <2>3. UNCHANGED <<readfds, conn_fd, pipe_fd, is_pipe, failed, fdkind, owner, child, out,
                    link, backlog>>
    BY <1>38 DEF ReadFails
  <2> QED BY <1>a, <2>1, <2>2, <2>3, OwnRead
<1>14. ASSUME NEW c \in Conn, StaysParsing(c) PROVE BlockInv'
  BY <1>a, <1>14, QuietTurn DEF StaysParsing, Processing, TurnEnds, InTurn, TypeOK
<1>15. ASSUME NEW c \in Conn, Answers(c) PROVE BlockInv'
  BY <1>a, <1>15, QuietTurn DEF Answers, Processing, InTurn, TypeOK
<1>16. ASSUME NEW c \in Conn, AwaitsCGI(c) PROVE BlockInv'
  BY <1>a, <1>16, QuietTurn DEF AwaitsCGI, Processing, WatchPipe, SetOutOfBounds, InTurn, TypeOK
<1>17. ASSUME NEW c \in Conn, ReadNoCGI(c) PROVE BlockInv'
  <2>1. PICK n \in {0, 1} : ReadToEnd(c, n)
    BY <1>17 DEF ReadNoCGI
  <2> QED BY <1>a, <1>17, <2>1, QuietTurn DEF ReadNoCGI, ReadToEnd, ReadingCGI, TurnEnds, InTurn, TypeOK
<1>18. ASSUME NEW c \in Conn, SendsAll(c) PROVE BlockInv'
  BY <1>a, <1>18, QuietTurn DEF SendsAll, Writing, TurnEnds, InTurn, TypeOK
<1>19. ASSUME NEW c \in Conn, SendFails(c) PROVE BlockInv'
  BY <1>a, <1>19, QuietTurn DEF SendFails, Writing, TurnEnds, InTurn, TypeOK
<1>20. ASSUME NEW c \in Conn, SendsNothing(c) PROVE BlockInv'
  BY <1>a, <1>20, QuietTurn DEF SendsNothing, Writing, TurnEnds, InTurn, TypeOK
<1>21. ASSUME NEW c \in Conn, Refreshes(c) PROVE BlockInv'
  BY <1>a, <1>21, QuietTurn DEF Refreshes, Finishing, InTurn, TypeOK
<1>22. ASSUME NEW c \in Conn, DiesProcessing(c) PROVE BlockInv'
  BY <1>22 DEF DiesProcessing, BlockInv, StillReady, NoBlock, InPass
<1>44. ASSUME NEW c \in Conn, DiesReading(c) PROVE BlockInv'
  BY <1>44 DEF DiesReading, BlockInv, StillReady, NoBlock, InPass
<1>23. ASSUME NEW c \in Conn, DiesReadingCGI(c) PROVE BlockInv'
  BY <1>23 DEF DiesReadingCGI, BlockInv, StillReady, NoBlock, InPass
<1>24. ASSUME NEW c \in Conn, DiesWriting(c) PROVE BlockInv'
  BY <1>24 DEF DiesWriting, BlockInv, StillReady, NoBlock, InPass
<1>39. ASSUME failed = {}, pc = "cgi_read"
       PROVE  /\ cobjp \in Live /\ Kind(pipe_fd[cobjp]) = "pipe" /\ pipe_fd[cobjp] \in Fd
              /\ owner[pipe_fd[cobjp]] = cobjp
  <2>1. cobjp \in Live /\ is_pipe[cobjp]
    BY <1>39 DEF PoolInv, HandIsPast, InTurn, KeepInv, FailedHeld
  <2> QED BY <1>39, <2>1, LiveHolds DEF Kind
<1>40. ASSUME NEW c \in Conn, ReadingCGI(c), pc' # "dispatch",
              UNCHANGED <<readfds, iter, conn_fd, pipe_fd, is_pipe, failed, fdkind, owner, child,
                          link, backlog>>,
              failed = {} => inbox' = inbox /\ \A f \in Fd : f # pipe_fd[c] => out'[f] = out[f]
       PROVE  BlockInv'
  <2>1. InPass /\ InTurn /\ c = cobjp /\ pc = "cgi_read"
    BY <1>40 DEF ReadingCGI, InPass, InTurn
  <2>2. \A e \in Conn : Ahead(e)' => Ahead(e) /\ e # c
    BY <1>40, <2>1, AheadIsLive DEF Ahead
  <2>3. ASSUME failed = {}, NEW e \in Conn, Ahead(e)', NEW f \in Fd, Ready(f),
               conn_fd[e] = f \/ (is_pipe[e] /\ pipe_fd[e] = f)
        PROVE  Ready(f)'
    <3>1. owner[f] = e /\ Ahead(e) /\ e # c
      BY <2>1, <2>2, <2>3, AheadHolds
    <3>2. f # pipe_fd[c]
      BY <1>39, <2>1, <2>3, <3>1
    <3> QED BY <1>40, <2>3, <3>2 DEF Ready
  <2> QED BY <1>40, <1>a, <2>1, <2>2, <2>3, AheadStaysReady
<1>25. ASSUME NEW c \in Conn, ReadCGIResponse(c) PROVE BlockInv'
  <2>1. ReadToEnd(c, out[pipe_fd[c]]) /\ ReadingCGI(c) /\ inbox' = inbox
        /\ out' = [out EXCEPT ![pipe_fd[c]] = 0]
    BY <1>25 DEF ReadCGIResponse
  <2>2. \A f \in Fd : f # pipe_fd[c] => out'[f] = out[f]
    BY <2>1 DEF TypeOK
  <2> QED BY <1>40, <2>1, <2>2 DEF ReadToEnd, TurnEnds
<1>26. ASSUME NEW c \in Conn, ReadCGIFails(c) PROVE BlockInv'
  <2>1. ReadingCGI(c) /\ FailsReading(pipe_fd[c])
    BY <1>26 DEF ReadCGIFails
  <2>2. ASSUME failed = {}
        PROVE  inbox' = inbox /\ \A f \in Fd : f # pipe_fd[c] => out'[f] = out[f]
    <3>1. Kind(pipe_fd[c]) = "pipe"
      BY <1>39, <2>1, <2>2 DEF ReadingCGI
    <3>2. inbox' = inbox /\ out' = [out EXCEPT ![pipe_fd[c]] = 0]
      BY <2>1, <3>1 DEF FailsReading
    <3> QED BY <3>2 DEF TypeOK
  <2>3. /\ pc' # "dispatch"
        /\ UNCHANGED <<readfds, iter, conn_fd, pipe_fd, is_pipe, failed, fdkind, owner, child,
                       link, backlog>>
    BY <1>26 DEF ReadCGIFails, TurnEnds
  <2> QED BY <1>40, <2>1, <2>2, <2>3
<1>41. ASSUME NEW c \in Conn, NEW d \in Conn, ReadSocketOf(c, d) PROVE BlockInv'
  <2>1. ReadingCGI(c) /\ Kind(pipe_fd[c]) = "conn"
        /\ ReadToEnd(c, IF inbox[d] > 0 THEN 1 ELSE 0)
    BY <1>41 DEF ReadSocketOf
  <2>2. failed # {}
    BY <1>39, <2>1 DEF ReadingCGI
  <2> QED BY <1>40, <2>1, <2>2 DEF ReadToEnd, TurnEnds
<1>27. ASSUME NEW c \in Conn, NEW f \in Fd, LaunchesCGI(c, f) PROVE BlockInv'
  <2>1. InPass /\ InTurn /\ pc' # "dispatch" /\ c = cobjp
    BY <1>27 DEF LaunchesCGI, AsksForCGI, Processing, WatchPipe, SetOutOfBounds, InPass, InTurn
  <2>2. \A e \in Conn : Ahead(e)' => Ahead(e) /\ e # c
    BY <1>27, <2>1, AheadIsLive DEF LaunchesCGI, Ahead
  <2>3. UNCHANGED <<readfds, conn_fd, failed, out, link, inbox, backlog>> /\ fdkind[f] = "free"
    BY <1>27 DEF LaunchesCGI, StdoutPipe, FreeFds
  <2>4. /\ \A g \in Fd : g # f => /\ fdkind'[g] = fdkind[g] /\ owner'[g] = owner[g]
                                 /\ child'[g] = child[g]
        /\ \A e \in Conn : e # c => pipe_fd'[e] = pipe_fd[e] /\ is_pipe'[e] = is_pipe[e]
    BY <1>27 DEF LaunchesCGI, TypeOK
  <2>5. ASSUME failed = {}, NEW e \in Conn, Ahead(e)', NEW g \in Fd, Ready(g),
               conn_fd[e] = g \/ (is_pipe[e] /\ pipe_fd[e] = g)
        PROVE  Ready(g)'
    <3>1. fdkind[g] # "free"
      BY <2>1, <2>2, <2>5, AheadHolds
    <3> QED BY <2>3, <2>4, <2>5, <3>1 DEF Ready
  <2> QED BY <1>a, <2>1, <2>2, <2>3, <2>4, <2>5, AheadStaysReady
<1>28. ASSUME NEW c \in Conn, LaunchFailed(c) PROVE BlockInv'
  <2>1. failed' # {} /\ pc' # "dispatch"
    BY <1>28, FailedTypes DEF LaunchFailed
  <2> QED BY <2>1 DEF BlockInv, StillReady, NoBlock
<1>29. ASSUME NEW c \in Conn, Closes(c) PROVE BlockInv'
  <2>1. InPass /\ InTurn /\ pc' # "dispatch" /\ c = cobjp
    BY <1>29 DEF Closes, Finishing, InPass, InTurn
  <2>2. \A e \in Conn : Ahead(e)' => Ahead(e) /\ e # c
    BY <1>29, <2>1, AheadIsLive DEF Closes, Ahead
  <2>3. conn_fd[c] \in Fd /\ owner[conn_fd[c]] = c
    BY <2>1, Descriptors DEF PoolInv, HandIsPast, OwnInv, SocketsHeld
  <2>4. /\ UNCHANGED <<readfds, failed, child, out, backlog>>
        /\ \A g \in Fd : g # conn_fd[c] => fdkind'[g] = fdkind[g]
        /\ \A g \in Fd : owner'[g] = IF owner[g] = c THEN NoConn ELSE owner[g]
        /\ \A e \in Conn : e # c => /\ conn_fd'[e] = conn_fd[e] /\ pipe_fd'[e] = pipe_fd[e]
                                   /\ is_pipe'[e] = is_pipe[e]
                                   /\ link'[e] = link[e] /\ inbox'[e] = inbox[e]
    BY <1>29 DEF Closes, FdKindAfterClose, TypeOK
  <2>5. ASSUME failed = {}, NEW e \in Conn, Ahead(e)', NEW f \in Fd, Ready(f),
               conn_fd[e] = f \/ (is_pipe[e] /\ pipe_fd[e] = f)
        PROVE  Ready(f)'
    <3>1. owner[f] = e /\ e # c /\ fdkind[f] \in {"conn", "pipe"}
      BY <2>1, <2>2, <2>5, AheadHolds
    <3>2. f # conn_fd[c] /\ fdkind'[f] = fdkind[f] /\ owner'[f] = e
      BY <2>3, <2>4, <3>1
    <3> QED BY <2>4, <2>5, <3>1, <3>2 DEF Ready
  <2> QED BY <1>a, <2>1, <2>2, <2>4, <2>5, AheadStaysReady
<1>42. ASSUME NEW c \in Conn, LaunchFails(c) PROVE BlockInv'
  BY <1>28, <1>42 DEF LaunchFails
<1>43. ASSUME NEW c \in Conn, NEW g \in Fd, NEW f \in Fd, BodyNotWritten(c, g, f) PROVE BlockInv'
  BY <1>28, <1>43 DEF BodyNotWritten
<1>30. ASSUME NEW c \in Conn, Connect(c) PROVE BlockInv'
  BY <1>30, OutsideKeeps DEF Client
<1>31. ASSUME NEW c \in Conn, Send(c) PROVE BlockInv'
  BY <1>31, OutsideKeeps DEF Client
<1>32. ASSUME NEW c \in Conn, Shut(c) PROVE BlockInv'
  BY <1>32, OutsideKeeps DEF Client
<1>33. ASSUME NEW c \in Conn, Reset(c) PROVE BlockInv'
  BY <1>33, OutsideKeeps DEF Client
<1>34. ASSUME NEW f \in Fd, ChildWrites(f) PROVE BlockInv'
  BY <1>34, OutsideKeeps
<1>35. ASSUME NEW f \in Fd, ChildExits(f) PROVE BlockInv'
  BY <1>35, OutsideKeeps
<1>36. ASSUME NEW s \in Signals, Signal(s) PROVE BlockInv'
  BY <1>36, OutsideKeeps
<1>37. CASE UNCHANGED vars
  <2>1. \A f : Ready(f)' <=> Ready(f)
    BY <1>37, SameReady DEF vars
  <2> QED BY <1>37, <2>1 DEF vars, BlockInv, StillReady, NoBlock, InPass, Ahead
<1> QED
  BY <1>1, <1>2, <1>3, <1>4, <1>5, <1>6, <1>7, <1>8, <1>9, <1>10, <1>11,
     <1>12, <1>13, <1>14, <1>15, <1>16, <1>17, <1>18, <1>19, <1>20, <1>21,
     <1>22, <1>23, <1>24, <1>25, <1>26, <1>27, <1>28, <1>29, <1>30, <1>31,
     <1>32, <1>33, <1>34, <1>35, <1>36, <1>37, <1>38, <1>41, <1>42, <1>43, <1>44
  DEF Next, Server, Dispatch, Handshake, Visit, Process, ReadCGI, Write, Finish,
      Environment, Client, Terminating

\* While no launch has failed, what select() reported of a connection's socket
\* and pipe is still so when the connection has its turn.
THEOREM AlwaysStillReadable == Spec => []StillReadable
<1>1. Init => BlockInv
  BY DEF Init, BlockInv, StillReady, NoBlock, InPass
<1>2. ServerInv /\ BlockInv /\ [Next]_vars => BlockInv'
  BY BlockNext
<1>3. ServerInv /\ BlockInv => StillReadable
  <2> SUFFICES ASSUME TypeOK, PoolInv, OwnInv, KeepInv, NoBlock, InPass, failed = {},
                      NEW i \in DOMAIN iter
      PROVE  LET c == iter[i]
             IN /\ conn_fd[c] \in readfds => Ready(conn_fd[c])
                /\ is_pipe[c] /\ pipe_fd[c] \in readfds => Ready(pipe_fd[c])
    BY DEF ServerInv, TypeInv, BlockInv, StillReadable
  <2>1. iter[i] \in Conn /\ Ahead(iter[i])
    BY DEF TypeOK, Ahead
  <2>2. PICK c \in Conn : c = iter[i] /\ Ahead(c)
    BY <2>1
  <2>3. conn_fd[c] \in Fd /\ (is_pipe[c] => pipe_fd[c] \in Fd)
    BY <2>2, AheadHolds
  <2> QED BY <2>2, <2>3 DEF NoBlock
<1> QED BY <1>1, <1>2, <1>3, ServerInvariant, PTL DEF Spec

=============================================================================
