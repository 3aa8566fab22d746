---------------------------- MODULE CgiPipes_proofs ----------------------------
(***************************************************************************)
(* Theorems about CgiPipes, for any connections, requests and scripts and  *)
(* for pipes of any size.                                                  *)
(***************************************************************************)
EXTENDS CgiPipes, TLAPS

\* No request has been announced, written or answered before its child is
\* forked; a child that runs was told of its own request.
Untouched(c) == sent[c] = 0 /\ got[c] = 0 /\ wrote[c] = 0 /\ response[c] = 0

Launched ==
  \A c \in Conn :
    IF phase[c] = "none" THEN Untouched(c)
    ELSE /\ environ[c] = Environ(req[c])
         /\ state[c] = "PARSING" => cur = c /\ pc \in {"write", "dead"}

\* The body of a child that the server does not write to is written.
WrittenToEnd ==
  \A c \in Conn :
    phase[c] # "none" /\ ~(cur = c /\ pc \in {"write", "dead"}) /\ liso_state = 0
      => sent[c] = ContentLength(c)

\* A child has not printed more than its script says so far.
PrintsNoMore == \A c \in Conn : wrote[c] <= Prints(c)

\* A child whose execve failed prints nothing, and nobody reads its pipe.
CopyIsSilent ==
  \A c \in Conn : phase[c] = "copy" => wrote[c] = 0 /\ ~(cur = c /\ pc = "read")

PipeInv == TypeOK /\ Launched /\ WrittenToEnd /\ PrintsNoMore /\ BodyReachesChild

-----------------------------------------------------------------------------

\* A body has a length.
LEMMA LengthNat ==
  ASSUME Typed, NEW c \in Conn
  PROVE  ContentLength(c) \in Nat
<1>1. req[c] \in Requests
  BY DEF Typed
<1>2. req[c].lengths \in Seq(Nat)
  BY <1>1, PipesAssumption
<1>3. CASE req[c].method = "POST" /\ ~req[c].error
  <2>1. req[c].lengths # <<>>
    BY <1>1, <1>3, PipesAssumption
  <2> QED BY <1>2, <1>3, <2>1 DEF ContentLength, Length
<1> QED BY <1>3 DEF ContentLength

\* A child is told what its request says, in the types of an environment.
LEMMA EnvironTypes ==
  ASSUME NEW q \in Requests
  PROVE  Environ(q) \in [CONTENT_LENGTH : Nat \cup {NoLength},
                         REQUEST_METHOD : {"", "GET", "POST", "HEAD"}]
<1>1. q.lengths \in Seq(Nat) /\ q.method \in {"GET", "POST", "HEAD"}
  BY PipesAssumption
<1>2. Length(q) \in Nat \cup {NoLength}
  BY <1>1 DEF Length
<1> QED BY <1>1, <1>2 DEF Environ

\* A script's counts are numbers.
LEMMA ScriptTypes ==
  ASSUME Typed, NEW c \in Conn
  PROVE  script[c].before \in Nat /\ script[c].after \in Nat /\ Prints(c) \in Nat
         /\ script[c].reads \in {"none", "length", "all"}
<1>1. script[c] \in Scripts
  BY DEF Typed
<1>2. script[c] \in [before : Nat, reads : {"none", "length", "all"}, after : Nat]
  BY <1>1, PipesAssumption
<1> QED BY <1>2 DEF Prints

-----------------------------------------------------------------------------

\* The invariant holds before any child is forked.
LEMMA PipeInit == Init => PipeInv
<1> SUFFICES ASSUME Init PROVE PipeInv
  OBVIOUS
<1>1. PipeSize \in Nat
  BY PipesAssumption
<1>2. Typed
  BY DEF Init, Typed, Stopped, Phases
<1>3. ASSUME NEW c \in Conn
      PROVE  /\ phase[c] = "none" /\ liso_state = 0 /\ cur = NoConn /\ pc = "select"
             /\ sent[c] = 0 /\ got[c] = 0 /\ wrote[c] = 0 /\ response[c] = 0
  BY <1>3 DEF Init
<1>4. Bounded
  <2> SUFFICES ASSUME NEW c \in Conn
               PROVE  /\ InStdin(c) \in 0..PipeSize /\ InStdout(c) \in 0..PipeSize
                      /\ sent[c] <= ContentLength(c)
    BY DEF Bounded
  <2>1. ContentLength(c) \in Nat
    BY <1>2, LengthNat
  <2> QED BY <1>1, <1>3, <2>1 DEF InStdin, InStdout
<1>5. PrintsNoMore
  <2> SUFFICES ASSUME NEW c \in Conn PROVE wrote[c] <= Prints(c)
    BY DEF PrintsNoMore
  <2>1. Prints(c) \in Nat
    BY <1>2, ScriptTypes
  <2> QED BY <1>3, <2>1
<1>6. Launched /\ WrittenToEnd /\ BodyReachesChild
  BY <1>3 DEF Launched, Untouched, WrittenToEnd, BodyReachesChild
<1> QED BY <1>2, <1>4, <1>5, <1>6 DEF PipeInv, TypeOK

\* What does not touch the pipes does not fill them.
LEMMA KeepsBounds ==
  ASSUME Bounded, pipeVars' = pipeVars, \A c \in Conn : ContentLength(c)' = ContentLength(c)
  PROVE  Bounded'
BY DEF Bounded, InStdin, InStdout, pipeVars

\* Every step keeps the invariant: one case for each action.
LEMMA PipeNext == PipeInv /\ [Next]_vars => PipeInv'
<1> SUFFICES ASSUME PipeInv, [Next]_vars PROVE PipeInv'
  OBVIOUS
<1> USE DEF serverVars, clientVars, launchVars, pipeVars, Stopped, Phases
<1>a. PipeSize \in Nat \ {0} /\ NoConn \notin Conn
  BY PipesAssumption
<1>b. Typed /\ Bounded /\ Launched /\ WrittenToEnd /\ PrintsNoMore /\ BodyReachesChild
  BY DEF PipeInv, TypeOK
<1>c. req' = req /\ script' = script
  BY DEF Next, vars, Server, Child, LaunchesCGI, WritesBody, FinishesWrite, DiesWriting,
     StartsRead, Reads, FinishesRead, TakesBytes, DiesTaking, ParsesAgain, Departs, Returns,
     Signal, Sends, Leaves, ChildWrites, ChildGoesOn, ChildReads, ChildHasRead, ChildDies
<1>d. \A c \in Conn : ContentLength(c)' = ContentLength(c)
  BY <1>c DEF ContentLength
<1>e. ASSUME NEW c \in Conn
      PROVE  /\ ContentLength(c) \in Nat /\ Prints(c) \in Nat
             /\ script[c].before \in Nat /\ script[c].after \in Nat
             /\ sent[c] \in Nat /\ got[c] \in Nat /\ wrote[c] \in Nat /\ response[c] \in Nat
  <2>1. /\ ContentLength(c) \in Nat /\ Prints(c) \in Nat
        /\ script[c].before \in Nat /\ script[c].after \in Nat
    BY <1>b, <1>e, LengthNat, ScriptTypes
  <2>2. /\ sent[c] \in Nat /\ got[c] \in Nat
        /\ wrote[c] \in Nat /\ response[c] \in Nat
    BY <1>b, <1>e DEF Typed
  <2> QED BY <2>1, <2>2
<1>f. ASSUME NEW c \in Conn
      PROVE  /\ InStdin(c) \in 0..PipeSize /\ InStdout(c) \in 0..PipeSize
             /\ sent[c] <= ContentLength(c)
  BY <1>b, <1>f DEF Bounded
<1>g. /\ sent \in [Conn -> Nat] /\ got \in [Conn -> Nat]
      /\ wrote \in [Conn -> Nat] /\ response \in [Conn -> Nat]
  BY <1>b DEF Typed
<1>1. ASSUME NEW c \in Conn, LaunchesCGI(c) PROVE PipeInv'
  <2>1. Typed'
    <3>1. req[c] \in Requests
      BY <1>b DEF Typed
    <3>2. environ' \in [Conn -> [CONTENT_LENGTH : Nat \cup {NoLength},
                               REQUEST_METHOD : {"", "GET", "POST", "HEAD"}]]
      BY <1>b, <1>1, <3>1, EnvironTypes DEF LaunchesCGI, Typed
    <3>3. phase' \in [Conn -> Phases] /\ held' \in [Conn -> SUBSET Conn]
      <4>1. PICK p \in Phases : phase' = [phase EXCEPT ![c] = p]
        BY <1>1 DEF LaunchesCGI
      <4> QED BY <1>b, <1>1, <4>1 DEF LaunchesCGI, Typed
    <3> QED BY <1>b, <1>1, <3>2, <3>3 DEF LaunchesCGI, Typed
  <2>2. Bounded'
    BY <1>d, <1>b, <1>1, KeepsBounds DEF LaunchesCGI
  <2>3. Launched'
    BY <1>a, <1>b, <1>c, <1>d, <1>1 DEF LaunchesCGI, Typed, Launched, Untouched
  <2>4. WrittenToEnd'
    BY <1>a, <1>b, <1>c, <1>d, <1>1 DEF LaunchesCGI, Typed, Launched, Untouched, WrittenToEnd
  <2>5. PrintsNoMore'
    <3> SUFFICES ASSUME NEW d \in Conn PROVE wrote'[d] <= Prints(d)'
      BY DEF PrintsNoMore
    <3>1. wrote[d] <= Prints(d) /\ (phase[d] = "none" => wrote[d] = 0)
      BY <1>b DEF PrintsNoMore, Launched, Untouched
    <3>3. CASE d = c
      <4>1. wrote'[c] = 0
        BY <1>b, <1>1 DEF LaunchesCGI, Launched, Untouched
      <4>2. Prints(c)' \in {script[c].before, script[c].before + script[c].after}
        BY <1>c DEF Prints
      <4> QED BY <1>e, <3>3, <4>1, <4>2
    <3>4. CASE d # c
      <4>1. wrote'[d] = wrote[d]
        BY <1>g, <1>1, <3>4 DEF LaunchesCGI
      <4>2. Prints(d)' = Prints(d)
        BY <1>b, <1>c, <1>1, <3>4 DEF LaunchesCGI, Prints, Typed
      <4> QED BY <3>1, <4>1, <4>2
    <3> QED BY <3>3, <3>4
  <2>6. BodyReachesChild'
    BY <1>a, <1>b, <1>c, <1>d, <1>1 DEF LaunchesCGI, Typed, Launched, BodyReachesChild
  <2> QED BY <2>1, <2>2, <2>3, <2>4, <2>5, <2>6 DEF PipeInv, TypeOK
<1>2. ASSUME NEW n \in 1..PipeSize, WritesBody(n) PROVE PipeInv'
  <2>a. cur \in Conn
    BY <1>b, <1>2 DEF WritesBody, Typed
  <2>b. n \in Nat
    BY <1>a
  <2>c. sent' = [sent EXCEPT ![cur] = @ + n] /\ sent' \in [Conn -> Nat]
    BY <2>a, <2>b, <1>g, <1>2 DEF WritesBody
  <2>1. Typed'
    BY <1>b, <1>2, <2>c DEF WritesBody, Typed
  <2>2. Bounded'
    <3> SUFFICES ASSUME NEW d \in Conn
                 PROVE  /\ InStdin(d)' \in 0..PipeSize /\ InStdout(d)' \in 0..PipeSize
                        /\ sent'[d] <= ContentLength(d)'
      BY DEF Bounded
    <3>1. CASE d = cur
      BY <1>a, <1>d, <1>e, <1>f, <1>g, <1>2, <2>a, <2>b, <2>c, <3>1 DEF WritesBody, ToWrite, InStdin, InStdout
    <3>2. CASE d # cur
      BY <1>a, <1>d, <1>f, <1>g, <1>2, <2>a, <2>b, <2>c, <3>2 DEF WritesBody, InStdin, InStdout
    <3> QED BY <3>1, <3>2
  <2>3. Launched'
    BY <1>a, <1>b, <1>c, <1>d, <1>2 DEF WritesBody, ToWrite, Runs, Typed, Launched, Untouched
  <2>4. WrittenToEnd'
    BY <1>a, <1>b, <1>c, <1>d, <1>2 DEF WritesBody, ToWrite, Runs, Typed, Launched, Untouched, WrittenToEnd
  <2>5. PrintsNoMore'
    BY <1>a, <1>b, <1>c, <1>d, <1>2 DEF WritesBody, ToWrite, Runs, Typed, Launched, Untouched, PrintsNoMore, Prints
  <2>6. BodyReachesChild'
    BY <1>a, <1>b, <1>c, <1>d, <1>2 DEF WritesBody, ToWrite, Runs, Typed, Launched, BodyReachesChild
  <2> QED BY <2>1, <2>2, <2>3, <2>4, <2>5, <2>6 DEF PipeInv, TypeOK
<1>3. CASE FinishesWrite
  <2>1. Typed'
    BY <1>a, <1>b, <1>c, <1>d, <1>3 DEF FinishesWrite, WriteReturns, ToWrite, Typed
  <2>2. Bounded'
    BY <1>d, <1>b, <1>3, KeepsBounds DEF FinishesWrite, WriteReturns, ToWrite
  <2>3. Launched'
    BY <1>a, <1>b, <1>c, <1>d, <1>3 DEF FinishesWrite, WriteReturns, ToWrite, Typed, Launched, Untouched
  <2>4. WrittenToEnd'
    <3> SUFFICES ASSUME NEW d \in Conn, phase'[d] # "none", liso_state' = 0,
                        ~(cur' = d /\ pc' \in {"write", "dead"})
                 PROVE  sent'[d] = ContentLength(d)'
      BY DEF WrittenToEnd
    <3>1. CASE d = cur
      BY <1>d, <1>e, <1>3, <3>1 DEF FinishesWrite, ToWrite
    <3>2. CASE d # cur
      BY <1>b, <1>d, <1>3, <3>2 DEF FinishesWrite, WriteReturns, WrittenToEnd
    <3> QED BY <3>1, <3>2
  <2>5. PrintsNoMore'
    BY <1>a, <1>b, <1>c, <1>d, <1>3 DEF FinishesWrite, WriteReturns, ToWrite, Typed, Launched, Untouched, PrintsNoMore, Prints
  <2>6. BodyReachesChild'
    BY <1>a, <1>b, <1>c, <1>d, <1>3 DEF FinishesWrite, WriteReturns, ToWrite, Typed, Launched, BodyReachesChild
  <2> QED BY <2>1, <2>2, <2>3, <2>4, <2>5, <2>6 DEF PipeInv, TypeOK
<1>4. CASE DiesWriting
  <2>1. Typed'
    BY <1>a, <1>b, <1>c, <1>d, <1>4 DEF DiesWriting, Typed
  <2>2. Bounded'
    BY <1>d, <1>b, <1>4, KeepsBounds DEF DiesWriting
  <2>3. Launched'
    BY <1>a, <1>b, <1>c, <1>d, <1>4 DEF DiesWriting, Typed, Launched, Untouched
  <2>4. WrittenToEnd'
    BY <1>a, <1>b, <1>c, <1>d, <1>4 DEF DiesWriting, Typed, Launched, Untouched, WrittenToEnd
  <2>5. PrintsNoMore'
    BY <1>a, <1>b, <1>c, <1>d, <1>4 DEF DiesWriting, Typed, Launched, Untouched, PrintsNoMore, Prints
  <2>6. BodyReachesChild'
    BY <1>a, <1>b, <1>c, <1>d, <1>4 DEF DiesWriting, Typed, Launched, BodyReachesChild
  <2> QED BY <2>1, <2>2, <2>3, <2>4, <2>5, <2>6 DEF PipeInv, TypeOK
<1>5. ASSUME NEW c \in Conn, StartsRead(c) PROVE PipeInv'
  <2>1. Typed'
    BY <1>a, <1>b, <1>c, <1>d, <1>5 DEF StartsRead, Typed
  <2>2. Bounded'
    BY <1>d, <1>b, <1>5, KeepsBounds DEF StartsRead
  <2>3. Launched'
    BY <1>a, <1>b, <1>c, <1>d, <1>5 DEF StartsRead, Typed, Launched, Untouched
  <2>4. WrittenToEnd'
    BY <1>a, <1>b, <1>c, <1>d, <1>5 DEF StartsRead, Typed, Launched, Untouched, WrittenToEnd
  <2>5. PrintsNoMore'
    BY <1>a, <1>b, <1>c, <1>d, <1>5 DEF StartsRead, Typed, Launched, Untouched, PrintsNoMore, Prints
  <2>6. BodyReachesChild'
    BY <1>a, <1>b, <1>c, <1>d, <1>5 DEF StartsRead, Typed, Launched, BodyReachesChild
  <2> QED BY <2>1, <2>2, <2>3, <2>4, <2>5, <2>6 DEF PipeInv, TypeOK
<1>6. ASSUME NEW n \in 1..PipeSize, Reads(n) PROVE PipeInv'
  <2>a. cur \in Conn
    BY <1>b, <1>6 DEF Reads, Typed
  <2>b. n \in Nat
    BY <1>a
  <2>c. response' = [response EXCEPT ![cur] = @ + n] /\ response' \in [Conn -> Nat]
    BY <2>a, <2>b, <1>g, <1>6 DEF Reads
  <2>1. Typed'
    BY <1>b, <1>6, <2>c DEF Reads, Typed
  <2>2. Bounded'
    <3> SUFFICES ASSUME NEW d \in Conn
                 PROVE  /\ InStdin(d)' \in 0..PipeSize /\ InStdout(d)' \in 0..PipeSize
                        /\ sent'[d] <= ContentLength(d)'
      BY DEF Bounded
    <3>1. CASE d = cur
      BY <1>a, <1>d, <1>e, <1>f, <1>g, <1>6, <2>a, <2>b, <2>c, <3>1 DEF Reads, InStdin, InStdout
    <3>2. CASE d # cur
      BY <1>a, <1>d, <1>f, <1>g, <1>6, <2>a, <2>b, <2>c, <3>2 DEF Reads, InStdin, InStdout
    <3> QED BY <3>1, <3>2
  <2>3. Launched'
    <3>1. InStdout(cur) \in Nat /\ n >= 1 /\ n <= InStdout(cur)
      BY <1>a, <1>f, <1>6, <2>a, <2>b DEF Reads
    <3>2. phase[cur] # "none"
      BY <1>b, <2>a, <3>1 DEF Launched, Untouched, InStdout
    <3> QED BY <1>b, <1>c, <1>6, <2>a, <2>c, <3>2, <1>g DEF Reads, Launched, Untouched
  <2>4. WrittenToEnd'
    BY <1>a, <1>b, <1>c, <1>d, <1>6 DEF Reads, Typed, Launched, Untouched, WrittenToEnd
  <2>5. PrintsNoMore'
    BY <1>a, <1>b, <1>c, <1>d, <1>6 DEF Reads, Typed, Launched, Untouched, PrintsNoMore, Prints
  <2>6. BodyReachesChild'
    BY <1>a, <1>b, <1>c, <1>d, <1>6 DEF Reads, Typed, Launched, BodyReachesChild
  <2> QED BY <2>1, <2>2, <2>3, <2>4, <2>5, <2>6 DEF PipeInv, TypeOK
<1>7. CASE FinishesRead
  <2>1. Typed'
    BY <1>a, <1>b, <1>c, <1>d, <1>7 DEF FinishesRead, Runs, Typed
  <2>2. Bounded'
    BY <1>d, <1>b, <1>7, KeepsBounds DEF FinishesRead, Runs
  <2>3. Launched'
    BY <1>a, <1>b, <1>c, <1>d, <1>7 DEF FinishesRead, Runs, Typed, Launched, Untouched
  <2>4. WrittenToEnd'
    BY <1>a, <1>b, <1>c, <1>d, <1>7 DEF FinishesRead, Runs, Typed, Launched, Untouched, WrittenToEnd
  <2>5. PrintsNoMore'
    BY <1>a, <1>b, <1>c, <1>d, <1>7 DEF FinishesRead, Runs, Typed, Launched, Untouched, PrintsNoMore, Prints
  <2>6. BodyReachesChild'
    BY <1>a, <1>b, <1>c, <1>d, <1>7 DEF FinishesRead, Runs, Typed, Launched, BodyReachesChild
  <2> QED BY <2>1, <2>2, <2>3, <2>4, <2>5, <2>6 DEF PipeInv, TypeOK
<1>8. ASSUME NEW c \in Conn, Departs(c) PROVE PipeInv'
  <2>1. Typed'
    BY <1>a, <1>b, <1>c, <1>d, <1>8 DEF Departs, Typed
  <2>2. Bounded'
    BY <1>d, <1>b, <1>8, KeepsBounds DEF Departs
  <2>3. Launched'
    BY <1>a, <1>b, <1>c, <1>d, <1>8 DEF Departs, Typed, Launched, Untouched
  <2>4. WrittenToEnd'
    BY <1>a, <1>b, <1>c, <1>d, <1>8 DEF Departs, Typed, Launched, Untouched, WrittenToEnd
  <2>5. PrintsNoMore'
    BY <1>a, <1>b, <1>c, <1>d, <1>8 DEF Departs, Typed, Launched, Untouched, PrintsNoMore, Prints
  <2>6. BodyReachesChild'
    BY <1>a, <1>b, <1>c, <1>d, <1>8 DEF Departs, Typed, Launched, BodyReachesChild
  <2> QED BY <2>1, <2>2, <2>3, <2>4, <2>5, <2>6 DEF PipeInv, TypeOK
<1>9. CASE Returns
  <2>1. Typed'
    BY <1>a, <1>b, <1>c, <1>d, <1>9 DEF Returns, Typed
  <2>2. Bounded'
    BY <1>d, <1>b, <1>9, KeepsBounds DEF Returns
  <2>3. Launched'
    BY <1>a, <1>b, <1>c, <1>d, <1>9 DEF Returns, Typed, Launched, Untouched
  <2>4. WrittenToEnd'
    BY <1>a, <1>b, <1>c, <1>d, <1>9 DEF Returns, Typed, Launched, Untouched, WrittenToEnd
  <2>5. PrintsNoMore'
    BY <1>a, <1>b, <1>c, <1>d, <1>9 DEF Returns, Typed, Launched, Untouched, PrintsNoMore, Prints
  <2>6. BodyReachesChild'
    BY <1>a, <1>b, <1>c, <1>d, <1>9 DEF Returns, Typed, Launched, BodyReachesChild
  <2> QED BY <2>1, <2>2, <2>3, <2>4, <2>5, <2>6 DEF PipeInv, TypeOK
<1>10. CASE Signal
  <2>1. Typed'
    BY <1>a, <1>b, <1>c, <1>d, <1>10 DEF Signal, WriteReturns, Typed
  <2>2. Bounded'
    BY <1>d, <1>b, <1>10, KeepsBounds DEF Signal, WriteReturns
  <2>3. Launched'
    BY <1>a, <1>b, <1>c, <1>d, <1>10 DEF Signal, WriteReturns, Typed, Launched, Untouched
  <2>4. WrittenToEnd'
    BY <1>10 DEF Signal, WrittenToEnd
  <2>5. PrintsNoMore'
    BY <1>a, <1>b, <1>c, <1>d, <1>10 DEF Signal, WriteReturns, Typed, Launched, Untouched, PrintsNoMore, Prints
  <2>6. BodyReachesChild'
    BY <1>a, <1>b, <1>c, <1>d, <1>10 DEF Signal, WriteReturns, Typed, Launched, BodyReachesChild
  <2> QED BY <2>1, <2>2, <2>3, <2>4, <2>5, <2>6 DEF PipeInv, TypeOK
<1>11. ASSUME NEW c \in Conn, ChildWrites(c) PROVE PipeInv'
  <2>c. wrote' = [wrote EXCEPT ![c] = @ + 1] /\ wrote' \in [Conn -> Nat]
    BY <1>g, <1>11 DEF ChildWrites
  <2>1. Typed'
    BY <1>b, <1>11, <2>c DEF ChildWrites, Typed
  <2>2. Bounded'
    <3> SUFFICES ASSUME NEW d \in Conn
                 PROVE  /\ InStdin(d)' \in 0..PipeSize /\ InStdout(d)' \in 0..PipeSize
                        /\ sent'[d] <= ContentLength(d)'
      BY DEF Bounded
    <3>1. CASE d = c
      BY <1>a, <1>d, <1>e, <1>f, <1>g, <1>11, <2>c, <3>1 DEF ChildWrites, InStdin, InStdout
    <3>2. CASE d # c
      BY <1>a, <1>d, <1>f, <1>g, <1>11, <2>c, <3>2 DEF ChildWrites, InStdin, InStdout
    <3> QED BY <3>1, <3>2
  <2>3. Launched'
    BY <1>a, <1>b, <1>c, <1>d, <1>11 DEF ChildWrites, Typed, Launched, Untouched
  <2>4. WrittenToEnd'
    BY <1>a, <1>b, <1>c, <1>d, <1>11 DEF ChildWrites, Typed, Launched, Untouched, WrittenToEnd
  <2>5. PrintsNoMore'
    <3> SUFFICES ASSUME NEW d \in Conn PROVE wrote'[d] <= Prints(d)'
      BY DEF PrintsNoMore
    <3>1. wrote[d] <= Prints(d) /\ (phase[d] = "none" => wrote[d] = 0)
      BY <1>b DEF PrintsNoMore, Launched, Untouched
    <3>3. CASE d = c
      <4>1. wrote'[c] = wrote[c] + 1 /\ wrote[c] < Prints(c)
        BY <1>g, <1>11, <2>c DEF ChildWrites
      <4>2. Prints(c)' = Prints(c)
        BY <1>c, <1>11 DEF ChildWrites, Prints
      <4> QED BY <1>e, <3>3, <4>1, <4>2
    <3>4. CASE d # c
      <4>1. wrote'[d] = wrote[d]
        BY <1>g, <1>11, <3>4, <2>c DEF ChildWrites
      <4>2. Prints(d)' = Prints(d)
        BY <1>b, <1>c, <1>11, <3>4 DEF ChildWrites, Prints, Typed
      <4> QED BY <3>1, <4>1, <4>2
    <3> QED BY <3>3, <3>4
  <2>6. BodyReachesChild'
    BY <1>a, <1>b, <1>c, <1>d, <1>11 DEF ChildWrites, Typed, Launched, BodyReachesChild
  <2> QED BY <2>1, <2>2, <2>3, <2>4, <2>5, <2>6 DEF PipeInv, TypeOK
<1>12. ASSUME NEW c \in Conn, ChildGoesOn(c) PROVE PipeInv'
  <2>1. Typed'
    BY <1>a, <1>b, <1>c, <1>d, <1>12 DEF ChildGoesOn, Typed
  <2>2. Bounded'
    BY <1>d, <1>b, <1>12, KeepsBounds DEF ChildGoesOn
  <2>3. Launched'
    BY <1>a, <1>b, <1>c, <1>d, <1>12 DEF ChildGoesOn, Typed, Launched, Untouched
  <2>4. WrittenToEnd'
    BY <1>a, <1>b, <1>c, <1>d, <1>12 DEF ChildGoesOn, Typed, Launched, Untouched, WrittenToEnd
  <2>5. PrintsNoMore'
    <3> SUFFICES ASSUME NEW d \in Conn PROVE wrote'[d] <= Prints(d)'
      BY DEF PrintsNoMore
    <3>1. wrote[d] <= Prints(d) /\ (phase[d] = "none" => wrote[d] = 0)
      BY <1>b DEF PrintsNoMore, Launched, Untouched
    <3>3. CASE d = c
      <4>1. wrote'[c] = wrote[c]
        BY <1>12 DEF ChildGoesOn
      <4>2. Prints(c)' = script[c].before + script[c].after
        BY <1>b, <1>c, <1>12 DEF ChildGoesOn, Prints, Typed
      <4>3. Prints(c) <= script[c].before + script[c].after
        BY <1>e DEF Prints
      <4> QED BY <1>e, <3>1, <3>3, <4>1, <4>2, <4>3
    <3>4. CASE d # c
      <4>1. wrote'[d] = wrote[d]
        BY <1>g, <1>12, <3>4 DEF ChildGoesOn
      <4>2. Prints(d)' = Prints(d)
        BY <1>b, <1>c, <1>12, <3>4 DEF ChildGoesOn, Prints, Typed
      <4> QED BY <3>1, <4>1, <4>2
    <3> QED BY <3>3, <3>4
  <2>6. BodyReachesChild'
    BY <1>a, <1>b, <1>c, <1>d, <1>12 DEF ChildGoesOn, Typed, Launched, BodyReachesChild
  <2> QED BY <2>1, <2>2, <2>3, <2>4, <2>5, <2>6 DEF PipeInv, TypeOK
<1>13. ASSUME NEW c \in Conn, ChildReads(c) PROVE PipeInv'
  <2>c. got' = [got EXCEPT ![c] = @ + 1] /\ got' \in [Conn -> Nat]
    BY <1>g, <1>13 DEF ChildReads
  <2>1. Typed'
    BY <1>b, <1>13, <2>c DEF ChildReads, Typed
  <2>2. Bounded'
    <3> SUFFICES ASSUME NEW d \in Conn
                 PROVE  /\ InStdin(d)' \in 0..PipeSize /\ InStdout(d)' \in 0..PipeSize
                        /\ sent'[d] <= ContentLength(d)'
      BY DEF Bounded
    <3>1. CASE d = c
      BY <1>a, <1>d, <1>e, <1>f, <1>g, <1>13, <2>c, <3>1 DEF ChildReads, InStdin, InStdout
    <3>2. CASE d # c
      BY <1>a, <1>d, <1>f, <1>g, <1>13, <2>c, <3>2 DEF ChildReads, InStdin, InStdout
    <3> QED BY <3>1, <3>2
  <2>3. Launched'
    BY <1>a, <1>b, <1>c, <1>d, <1>13 DEF ChildReads, WantsMore, Typed, Launched, Untouched
  <2>4. WrittenToEnd'
    BY <1>a, <1>b, <1>c, <1>d, <1>13 DEF ChildReads, WantsMore, Typed, Launched, Untouched, WrittenToEnd
  <2>5. PrintsNoMore'
    BY <1>a, <1>b, <1>c, <1>d, <1>13 DEF ChildReads, WantsMore, Typed, Launched, Untouched, PrintsNoMore, Prints
  <2>6. BodyReachesChild'
    BY <1>a, <1>b, <1>c, <1>d, <1>13 DEF ChildReads, WantsMore, Typed, Launched, BodyReachesChild
  <2> QED BY <2>1, <2>2, <2>3, <2>4, <2>5, <2>6 DEF PipeInv, TypeOK
<1>14. ASSUME NEW c \in Conn, ChildHasRead(c) PROVE PipeInv'
  <2>1. Typed'
    BY <1>a, <1>b, <1>c, <1>d, <1>14 DEF ChildHasRead, WantsMore, StdinOpen, Typed
  <2>2. Bounded'
    BY <1>d, <1>b, <1>14, KeepsBounds DEF ChildHasRead, WantsMore, StdinOpen
  <2>3. Launched'
    BY <1>a, <1>b, <1>c, <1>d, <1>14 DEF ChildHasRead, WantsMore, StdinOpen, Typed, Launched, Untouched
  <2>4. WrittenToEnd'
    BY <1>a, <1>b, <1>c, <1>d, <1>14 DEF ChildHasRead, WantsMore, StdinOpen, Typed, Launched, Untouched, WrittenToEnd
  <2>5. PrintsNoMore'
    BY <1>a, <1>b, <1>c, <1>d, <1>14 DEF ChildHasRead, WantsMore, StdinOpen, Typed, Launched, Untouched, PrintsNoMore, Prints
  <2>6. BodyReachesChild'
    <3> SUFFICES ASSUME phase'[c] = "after", script[c].reads # "none", liso_state = 0,
                        environ[c].REQUEST_METHOD = "POST", ~req[c].error
                 PROVE  got[c] = environ[c].CONTENT_LENGTH
      BY <1>b, <1>c, <1>14 DEF ChildHasRead, BodyReachesChild, Typed
    <3>1. phase[c] = "read" /\ pc \notin Stopped
      BY <1>14 DEF ChildHasRead
    <3>2. environ[c] = Environ(req[c])
      BY <1>b, <3>1 DEF Launched
    <3>6. req[c].method = "POST" /\ environ[c].CONTENT_LENGTH = Length(req[c])
      BY <3>2 DEF Environ
    <3>7. environ[c].CONTENT_LENGTH = ContentLength(c)
      BY <3>6 DEF ContentLength
    <3>3. got[c] <= sent[c] /\ sent[c] <= ContentLength(c)
      BY <1>a, <1>e, <1>f DEF InStdin
    <3>4. CASE ~WantsMore(c)
      <4>1. script[c].reads = "length"
        BY <1>b, <3>4, ScriptTypes DEF WantsMore
      <4> QED BY <1>e, <3>7, <3>3, <3>4, <4>1 DEF WantsMore
    <3>5. CASE InStdin(c) = 0 /\ ~StdinOpen(c)
      <4>1. sent[c] = ContentLength(c)
        BY <1>b, <3>1, <3>5 DEF StdinOpen, WrittenToEnd
      <4> QED BY <1>e, <3>7, <3>5, <4>1 DEF InStdin
    <3> QED BY <1>14, <3>4, <3>5 DEF ChildHasRead
  <2> QED BY <2>1, <2>2, <2>3, <2>4, <2>5, <2>6 DEF PipeInv, TypeOK
<1>15. ASSUME NEW c \in Conn, ChildDies(c) PROVE PipeInv'
  <2>1. Typed'
    BY <1>a, <1>b, <1>c, <1>d, <1>15 DEF ChildDies, Runs, Typed
  <2>2. Bounded'
    BY <1>d, <1>b, <1>15, KeepsBounds DEF ChildDies, Runs
  <2>3. Launched'
    BY <1>a, <1>b, <1>c, <1>d, <1>15 DEF ChildDies, Runs, Typed, Launched, Untouched
  <2>4. WrittenToEnd'
    BY <1>a, <1>b, <1>c, <1>d, <1>15 DEF ChildDies, Runs, Typed, Launched, Untouched, WrittenToEnd
  <2>5. PrintsNoMore'
    <3> SUFFICES ASSUME NEW d \in Conn PROVE wrote'[d] <= Prints(d)'
      BY DEF PrintsNoMore
    <3>1. wrote[d] <= Prints(d) /\ (phase[d] = "none" => wrote[d] = 0)
      BY <1>b DEF PrintsNoMore, Launched, Untouched
    <3>3. CASE d = c
      <4>1. wrote'[c] = wrote[c]
        BY <1>15 DEF ChildDies
      <4>2. Prints(c)' = script[c].before + script[c].after
        BY <1>b, <1>c, <1>15 DEF ChildDies, Prints, Typed
      <4>3. Prints(c) <= script[c].before + script[c].after
        BY <1>e DEF Prints
      <4> QED BY <1>e, <3>1, <3>3, <4>1, <4>2, <4>3
    <3>4. CASE d # c
      <4>1. wrote'[d] = wrote[d]
        BY <1>g, <1>15, <3>4 DEF ChildDies
      <4>2. Prints(d)' = Prints(d)
        BY <1>b, <1>c, <1>15, <3>4 DEF ChildDies, Prints, Typed
      <4> QED BY <3>1, <4>1, <4>2
    <3> QED BY <3>3, <3>4
  <2>6. BodyReachesChild'
    BY <1>a, <1>b, <1>c, <1>d, <1>15 DEF ChildDies, Runs, Typed, Launched, BodyReachesChild
  <2> QED BY <2>1, <2>2, <2>3, <2>4, <2>5, <2>6 DEF PipeInv, TypeOK
<1>17. ASSUME NEW c \in Conn, TakesBytes(c) PROVE PipeInv'
  <2>1. Typed'
    BY <1>b, <1>17 DEF TakesBytes, Typed
  <2>2. Bounded'
    BY <1>d, <1>b, <1>17, KeepsBounds DEF TakesBytes
  <2>3. Launched'
    BY <1>b, <1>c, <1>17 DEF TakesBytes, Launched, Untouched
  <2>4. WrittenToEnd'
    BY <1>b, <1>d, <1>17 DEF TakesBytes, WrittenToEnd
  <2>5. PrintsNoMore'
    BY <1>b, <1>c, <1>17 DEF TakesBytes, PrintsNoMore, Prints
  <2>6. BodyReachesChild'
    BY <1>b, <1>c, <1>17 DEF TakesBytes, BodyReachesChild
  <2> QED BY <2>1, <2>2, <2>3, <2>4, <2>5, <2>6 DEF PipeInv, TypeOK
<1>18. ASSUME NEW c \in Conn, DiesTaking(c) PROVE PipeInv'
  <2>1. Typed'
    BY <1>b, <1>18 DEF DiesTaking, Typed
  <2>2. Bounded'
    BY <1>d, <1>b, <1>18, KeepsBounds DEF DiesTaking
  <2>3. Launched'
    BY <1>b, <1>c, <1>18 DEF DiesTaking, Launched, Untouched
  <2>4. WrittenToEnd'
    BY <1>b, <1>d, <1>18 DEF DiesTaking, WrittenToEnd
  <2>5. PrintsNoMore'
    BY <1>b, <1>c, <1>18 DEF DiesTaking, PrintsNoMore, Prints
  <2>6. BodyReachesChild'
    BY <1>b, <1>c, <1>18 DEF DiesTaking, BodyReachesChild
  <2> QED BY <2>1, <2>2, <2>3, <2>4, <2>5, <2>6 DEF PipeInv, TypeOK
<1>19. ASSUME NEW c \in Conn, ParsesAgain(c) PROVE PipeInv'
  <2>1. Typed'
    BY <1>b, <1>19 DEF ParsesAgain, Typed
  <2>2. Bounded'
    BY <1>d, <1>b, <1>19, KeepsBounds DEF ParsesAgain
  <2>3. Launched'
    BY <1>b, <1>c, <1>19 DEF ParsesAgain, Launched, Untouched
  <2>4. WrittenToEnd'
    BY <1>b, <1>d, <1>19 DEF ParsesAgain, WrittenToEnd
  <2>5. PrintsNoMore'
    BY <1>b, <1>c, <1>19 DEF ParsesAgain, PrintsNoMore, Prints
  <2>6. BodyReachesChild'
    BY <1>b, <1>c, <1>19 DEF ParsesAgain, BodyReachesChild
  <2> QED BY <2>1, <2>2, <2>3, <2>4, <2>5, <2>6 DEF PipeInv, TypeOK
<1>20. ASSUME NEW c \in Conn, Sends(c) PROVE PipeInv'
  <2>1. Typed'
    BY <1>b, <1>20 DEF Sends, Typed
  <2>2. Bounded'
    BY <1>d, <1>b, <1>20, KeepsBounds DEF Sends
  <2>3. Launched'
    BY <1>b, <1>c, <1>20 DEF Sends, Launched, Untouched
  <2>4. WrittenToEnd'
    BY <1>b, <1>d, <1>20 DEF Sends, WrittenToEnd
  <2>5. PrintsNoMore'
    BY <1>b, <1>c, <1>20 DEF Sends, PrintsNoMore, Prints
  <2>6. BodyReachesChild'
    BY <1>b, <1>c, <1>20 DEF Sends, BodyReachesChild
  <2> QED BY <2>1, <2>2, <2>3, <2>4, <2>5, <2>6 DEF PipeInv, TypeOK
<1>21. ASSUME NEW c \in Conn, Leaves(c) PROVE PipeInv'
  <2>1. Typed'
    BY <1>b, <1>21 DEF Leaves, Typed
  <2>2. Bounded'
    BY <1>d, <1>b, <1>21, KeepsBounds DEF Leaves
  <2>3. Launched'
    BY <1>b, <1>c, <1>21 DEF Leaves, Launched, Untouched
  <2>4. WrittenToEnd'
    BY <1>b, <1>d, <1>21 DEF Leaves, WrittenToEnd
  <2>5. PrintsNoMore'
    BY <1>b, <1>c, <1>21 DEF Leaves, PrintsNoMore, Prints
  <2>6. BodyReachesChild'
    BY <1>b, <1>c, <1>21 DEF Leaves, BodyReachesChild
  <2> QED BY <2>1, <2>2, <2>3, <2>4, <2>5, <2>6 DEF PipeInv, TypeOK
<1>16. CASE UNCHANGED vars
  <2>1. Typed'
    BY <1>a, <1>b, <1>c, <1>d, <1>16 DEF vars, Typed
  <2>2. Bounded'
    BY <1>d, <1>b, <1>16, KeepsBounds DEF vars
  <2>3. Launched'
    BY <1>a, <1>b, <1>c, <1>d, <1>16 DEF vars, Typed, Launched, Untouched
  <2>4. WrittenToEnd'
    BY <1>a, <1>b, <1>c, <1>d, <1>16 DEF vars, Typed, Launched, Untouched, WrittenToEnd
  <2>5. PrintsNoMore'
    BY <1>a, <1>b, <1>c, <1>d, <1>16 DEF vars, Typed, Launched, Untouched, PrintsNoMore, Prints
  <2>6. BodyReachesChild'
    BY <1>a, <1>b, <1>c, <1>d, <1>16 DEF vars, Typed, Launched, BodyReachesChild
  <2> QED BY <2>1, <2>2, <2>3, <2>4, <2>5, <2>6 DEF PipeInv, TypeOK
<1> QED
  BY <1>1, <1>2, <1>3, <1>4, <1>5, <1>6, <1>7, <1>8, <1>9, <1>10, <1>11, <1>12,
     <1>13, <1>14, <1>15, <1>16, <1>17, <1>18, <1>19, <1>20, <1>21 DEF Next, Server, Child

\* Nobody takes a copy of the server for a script that has printed or ended.
LEMMA CopyNext == PipeInv /\ CopyIsSilent /\ [Next]_vars => CopyIsSilent'
<1> SUFFICES ASSUME PipeInv, CopyIsSilent, [Next]_vars, NEW c \in Conn, phase'[c] = "copy"
             PROVE  wrote'[c] = 0 /\ ~(cur' = c /\ pc' = "read")
  BY DEF CopyIsSilent
<1> USE DEF serverVars, clientVars, launchVars, pipeVars, Stopped
<1>a. /\ phase \in [Conn -> Phases] /\ wrote \in [Conn -> Nat] /\ response \in [Conn -> Nat]
      /\ InStdout(c) \in 0..PipeSize /\ Launched
  BY DEF PipeInv, TypeOK, Typed, Bounded
<1>b. NoConn \notin Conn /\ PipeSize \in Nat
  BY PipesAssumption
<1>1. ASSUME NEW d \in Conn, LaunchesCGI(d) PROVE wrote'[c] = 0 /\ ~(cur' = c /\ pc' = "read")
  <2>1. CASE d = c
    <3>1. wrote[c] = 0 /\ pc' = "write" /\ wrote' = wrote
      BY <1>1, <1>a, <2>1 DEF LaunchesCGI, Launched, Untouched
    <3> QED BY <3>1
  <2>2. CASE d # c
    BY <1>1, <1>a, <2>2 DEF LaunchesCGI, CopyIsSilent
  <2> QED BY <2>1, <2>2
<1>2. ASSUME NEW d \in Conn, StartsRead(d) PROVE wrote'[c] = 0 /\ ~(cur' = c /\ pc' = "read")
  <2>1. phase[c] = "copy" /\ wrote[c] = 0 /\ wrote' = wrote
    BY <1>2 DEF StartsRead, CopyIsSilent
  <2>2. Runs(c) /\ ~(InStdout(c) > 0)
    BY <1>a, <1>b, <2>1 DEF Runs, InStdout
  <2> QED BY <1>2, <2>1, <2>2 DEF StartsRead
<1>3. ASSUME NEW d \in Conn, ChildWrites(d) PROVE wrote'[c] = 0 /\ ~(cur' = c /\ pc' = "read")
  <2>1. phase[c] = "copy" /\ d # c
    BY <1>3 DEF ChildWrites
  <2> QED BY <1>3, <1>a, <2>1 DEF ChildWrites, CopyIsSilent
<1>4. ASSUME NEW d \in Conn, ChildGoesOn(d) \/ ChildHasRead(d) \/ ChildDies(d)
      PROVE  wrote'[c] = 0 /\ ~(cur' = c /\ pc' = "read")
  <2>1. phase[c] = "copy"
    BY <1>4, <1>a DEF ChildGoesOn, ChildHasRead, ChildDies
  <2> QED BY <1>4, <2>1 DEF ChildGoesOn, ChildHasRead, ChildDies, CopyIsSilent
<1>5. ASSUME NEW d \in Conn,
             \/ TakesBytes(d) \/ DiesTaking(d) \/ ParsesAgain(d) \/ Departs(d)
             \/ Sends(d) \/ Leaves(d) \/ ChildReads(d)
      PROVE  wrote'[c] = 0 /\ ~(cur' = c /\ pc' = "read")
  BY <1>5 DEF TakesBytes, DiesTaking, ParsesAgain, Departs, Sends, Leaves, ChildReads, CopyIsSilent
<1>6. ASSUME NEW n \in 1..PipeSize, WritesBody(n) \/ Reads(n)
      PROVE  wrote'[c] = 0 /\ ~(cur' = c /\ pc' = "read")
  BY <1>6 DEF WritesBody, Reads, CopyIsSilent
<1>7. CASE FinishesWrite \/ DiesWriting \/ FinishesRead \/ Returns
  BY <1>7 DEF FinishesWrite, WriteReturns, DiesWriting, FinishesRead, Returns, CopyIsSilent
<1>8. CASE Signal
  BY <1>8 DEF Signal, WriteReturns, CopyIsSilent
<1>9. CASE UNCHANGED vars
  BY <1>9 DEF vars, CopyIsSilent
<1> QED BY <1>1, <1>2, <1>3, <1>4, <1>5, <1>6, <1>7, <1>8, <1>9 DEF Next, Server, Child

\* The invariant holds in every reachable state.
THEOREM PipesInvariant == Spec => [](PipeInv /\ CopyIsSilent)
<1>1. Init => CopyIsSilent
  BY DEF Init, CopyIsSilent
<1> QED BY <1>1, PipeInit, PipeNext, CopyNext, PTL DEF Spec

\* Every variable keeps its type, no pipe holds more than it can, and no byte
\* behind a body is written.
THEOREM TypeCorrect == Spec => []TypeOK
<1>1. PipeInv => TypeOK
  BY DEF PipeInv
<1> QED BY <1>1, PipesInvariant, PTL

\* A script that reads its input gets as many bytes as CONTENT_LENGTH says.
THEOREM BodyAlwaysReaches == Spec => []BodyReachesChild
<1>1. PipeInv => BodyReachesChild
  BY DEF PipeInv
<1> QED BY <1>1, PipesInvariant, PTL

\* Server and child never wait for each other unless both the body and the
\* output are larger than a pipe, or the child is no script.
LEMMA StandoffCase == PipeInv /\ CopyIsSilent => StandoffNeedsBoth
<1> SUFFICES ASSUME PipeInv, CopyIsSilent, Standoff
             PROVE  /\ ContentLength(cur) > PipeSize
                    /\ phase[cur] # "copy" => script[cur].before + script[cur].after > PipeSize
  BY DEF StandoffNeedsBoth
<1>1. /\ cur \in Conn /\ ContentLength(cur) \in Nat
      /\ script[cur].before \in Nat /\ script[cur].after \in Nat
  BY LengthNat, ScriptTypes DEF Standoff, PipeInv, TypeOK
<1>2. /\ sent[cur] \in Nat /\ got[cur] \in Nat /\ wrote[cur] \in Nat /\ response[cur] \in Nat
  BY <1>1 DEF PipeInv, TypeOK, Typed
<1>3. PipeSize \in Nat \ {0}
  BY PipesAssumption
<1>4. pc = "write" /\ ToWrite(cur) > 0 /\ InStdin(cur) = PipeSize
  <2>1. phase[cur] = "copy" => pc # "read"
    BY <1>1 DEF CopyIsSilent
  <2> QED BY <1>2, <1>3, <2>1 DEF Standoff, ServerWaits, ChildWaits, StdinOpen
<1>5. phase[cur] # "copy" => wrote[cur] < Prints(cur) /\ InStdout(cur) = PipeSize
  BY <1>3, <1>4 DEF Standoff, ChildWaits
<1>6. ContentLength(cur) > PipeSize
  BY <1>1, <1>2, <1>3, <1>4 DEF ToWrite, InStdin
<1>7. phase[cur] # "copy" => script[cur].before + script[cur].after > PipeSize
  BY <1>1, <1>2, <1>3, <1>5 DEF Prints, InStdout
<1> QED BY <1>6, <1>7

\* Server and child wait for each other only when both the body and the
\* output are larger than a pipe, or a body larger than a pipe goes to a child
\* whose execve failed.
THEOREM StandoffAlwaysNeedsBoth == Spec => []StandoffNeedsBoth
BY StandoffCase, PipesInvariant, PTL

=============================================================================
