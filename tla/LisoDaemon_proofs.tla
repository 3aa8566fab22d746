--------------------------- MODULE LisoDaemon_proofs ---------------------------
(***************************************************************************)
(* Proofs about LisoDaemon, for any number of processes and signals.       *)
(***************************************************************************)
EXTENDS LisoDaemon, TLAPS

\* A started daemon past daemonize has the lock; a child descends from a
\* process that has been started.
LockHeld ==
  /\ \A p \in Proc :
       origin[p] = p /\ pc[p] \notin {"none", "daemonize", "gone"} => lock = p
  /\ \A p \in Proc : pc[origin[p]] = "none" => origin[p] = p
  /\ \A p \in Proc : pc[p] \in {"none", "daemonize", "locked"} => origin[p] = p

LockInv == TypeOK /\ LockHeld

\* Where in its life a process has which sockets, and with whom it may share
\* them.
PortsHeld ==
  /\ \A p \in Proc : pc[p] \in {"work", "exec"} => holds[p] = Port
  /\ \A p \in Proc : pc[p] \in {"loop", "select"} => holds[p] # {}
  /\ \A p \in Proc : pc[p] = "https" => "HTTP" \in holds[p]
  /\ \A p \in Proc : pc[p] \in {"none", "gone"} => holds[p] = {}
  /\ \A p, q \in Proc : holds[p] \cap holds[q] # {} => origin[p] = origin[q]

AloneInv == TypeOK /\ PortsHeld /\ ServesAlone

-----------------------------------------------------------------------------

\* The types hold before the first process is started.
LEMMA TypeInit == Init => TypeOK
BY DaemonAssumption DEF Init, TypeOK, PCs

\* Every step keeps the types of the variables.
LEMMA TypeNext == TypeOK /\ [Next]_vars => TypeOK'
<1> SUFFICES ASSUME TypeOK, [Next]_vars PROVE TypeOK'
  OBVIOUS
<1> USE DaemonAssumption
<1>1. ASSUME NEW p \in Proc, Main(p) PROVE TypeOK'
  <2>1. CASE TakesLock(p) \/ GivesUp(p) \/ InstallsHandlers(p) \/ EntersMain(p)
    BY <2>1 DEF TypeOK, PCs, TakesLock, GivesUp, InstallsHandlers, EntersMain,
                Goto, Ends
  <2>2. CASE TestsState(p) \/ CallsRunLiso(p)
    BY <2>2 DEF TypeOK, PCs, TestsState, CallsRunLiso, Goto, Ends
  <2>3. CASE \/ Binds(p, "HTTP", "http", "https")
             \/ Binds(p, "HTTPS", "https", "loop")
    BY <2>3 DEF TypeOK, PCs, Binds, Goto, Port
  <2>4. CASE CannotStart(p) \/ TestsLoop(p) \/ SelectFails(p) \/ EndsPass(p)
    BY <2>4 DEF TypeOK, PCs, CannotStart, StateOfFailedStart, TestsLoop,
                SelectFails, EndsPass, Goto
  <2>5. CASE \E port \in Port : ClosesListener(p, port)
    BY <2>5 DEF TypeOK, PCs, ClosesListener, Goto
  <2>6. CASE Execs(p) \/ ExecFails(p)
    BY <2>6 DEF TypeOK, PCs, Execs, ExecFails, Goto
  <2>7. QED BY <1>1, <2>1, <2>2, <2>3, <2>4, <2>5, <2>6 DEF Main
<1>2. ASSUME NEW p \in Proc, Outside(p) PROVE TypeOK'
  <2>1. CASE Start(p) \/ Wakes(p) \/ Dies(p) \/ ScriptEnds(p)
    BY <2>1 DEF TypeOK, PCs, Start, Wakes, Dies, ScriptEnds, Goto, Ends
  <2>2. CASE Kills(p)
    BY <2>2 DEF TypeOK, PCs, Kills, Sent, Ends
  <2>3. CASE \E q \in Proc : Forks(p, q)
    BY <2>3 DEF TypeOK, PCs, Forks
  <2>4. CASE \E s \in {1, 2} : Signal(p, s)
    BY <2>4 DEF TypeOK, PCs, Signal, Sent, Goto
  <2>5. QED BY <1>2, <2>1, <2>2, <2>3, <2>4 DEF Outside
<1>3. CASE AllGone \/ UNCHANGED vars
  BY <1>3 DEF AllGone, vars, TypeOK
<1>4. QED BY <1>1, <1>2, <1>3 DEF Next

\* The variables of every process keep their types.
THEOREM TypeCorrect == Spec => []TypeOK
BY TypeInit, TypeNext, PTL DEF Spec

-----------------------------------------------------------------------------
(* The lock file *)

\* Only the process that has the lock gets past daemonize.
LEMMA LockNext == LockInv /\ [Next]_vars => LockHeld'
<1> SUFFICES ASSUME LockInv, [Next]_vars PROVE LockHeld'
  OBVIOUS
<1> USE DaemonAssumption DEF LockInv
<1>1. ASSUME NEW p \in Proc, Main(p) PROVE LockHeld'
  <2>1. CASE TakesLock(p)
    BY <2>1 DEF TypeOK, LockHeld, TakesLock, LockAvailable, Goto
  <2>2. CASE GivesUp(p) \/ TestsState(p)
    BY <2>2 DEF TypeOK, LockHeld, GivesUp, TestsState, Ends
  <2>3. CASE InstallsHandlers(p) \/ EntersMain(p) \/ CallsRunLiso(p)
    BY <2>3 DEF TypeOK, LockHeld, InstallsHandlers, EntersMain, CallsRunLiso, Goto
  <2>4. CASE \/ Binds(p, "HTTP", "http", "https")
             \/ Binds(p, "HTTPS", "https", "loop")
    BY <2>4 DEF TypeOK, LockHeld, Binds, Goto
  <2>5. CASE CannotStart(p) \/ TestsLoop(p) \/ SelectFails(p) \/ EndsPass(p)
    BY <2>5 DEF TypeOK, LockHeld, CannotStart, TestsLoop, SelectFails, EndsPass,
                Goto
  <2>6. CASE \E port \in Port : ClosesListener(p, port)
    BY <2>6 DEF TypeOK, LockHeld, ClosesListener, Goto
  <2>7. CASE Execs(p) \/ ExecFails(p)
    BY <2>7 DEF TypeOK, LockHeld, Execs, ExecFails, Goto
  <2>8. QED BY <1>1, <2>1, <2>2, <2>3, <2>4, <2>5, <2>6, <2>7 DEF Main
<1>2. ASSUME NEW p \in Proc, Outside(p) PROVE LockHeld'
  <2>1. CASE Start(p) \/ Wakes(p)
    BY <2>1 DEF TypeOK, LockHeld, Start, Wakes, Goto
  <2>2. CASE Dies(p) \/ ScriptEnds(p) \/ Kills(p)
    BY <2>2 DEF TypeOK, LockHeld, Dies, ScriptEnds, Kills, Running, Ends
  <2>3. CASE \E q \in Proc : Forks(p, q)
    BY <2>3 DEF TypeOK, LockHeld, Forks
  <2>4. CASE \E s \in {1, 2} : Signal(p, s)
    BY <2>4 DEF TypeOK, LockHeld, Signal, Handles, Goto
  <2>5. QED BY <1>2, <2>1, <2>2, <2>3, <2>4 DEF Outside
<1>3. CASE AllGone \/ UNCHANGED vars
  BY <1>3 DEF AllGone, vars, LockHeld
<1>4. QED BY <1>1, <1>2, <1>3 DEF Next

\* Of the daemons started with one lock file at most one is past daemonize.
THEOREM OneInstanceAlways == Spec => []OneInstance
<1>1. Init => LockInv
  BY TypeInit, DaemonAssumption DEF Init, LockInv, LockHeld
<1>2. LockInv /\ [Next]_vars => LockInv'
  BY TypeNext, LockNext DEF LockInv
<1>3. LockInv => OneInstance
  BY DEF LockInv, LockHeld, OneInstance
<1>4. QED BY <1>1, <1>2, <1>3, PTL DEF Spec

-----------------------------------------------------------------------------
(* The listening sockets *)

\* Sockets pass from parent to child, and a port is bound only when nobody has it.
LEMMA PortsNext == AloneInv /\ [Next]_vars => PortsHeld' /\ ServesAlone'
<1> SUFFICES ASSUME AloneInv, [Next]_vars PROVE PortsHeld' /\ ServesAlone'
  OBVIOUS
<1> USE DaemonAssumption DEF AloneInv, PortsHeld, ServesAlone, Serving
<1>1. ASSUME NEW p \in Proc, Main(p) PROVE PortsHeld' /\ ServesAlone'
  <2>1. CASE TakesLock(p) \/ InstallsHandlers(p) \/ EntersMain(p) \/ CallsRunLiso(p)
    BY <2>1 DEF TypeOK, TakesLock, InstallsHandlers, EntersMain, CallsRunLiso, Goto
  <2>2. CASE GivesUp(p) \/ TestsState(p)
    BY <2>2 DEF TypeOK, GivesUp, TestsState, Ends
  <2>3. CASE Binds(p, "HTTP", "http", "https")
    BY <2>3 DEF TypeOK, Binds, PortFree, Goto
  <2>4. CASE Binds(p, "HTTPS", "https", "loop")
    <3>1. \A q \in Proc : holds[q] = {} \/ holds[q] = {"HTTP"}
      BY <2>4 DEF TypeOK, Binds, PortFree, Port
    <3>2. "HTTP" \in holds[p] /\ pc[p] = "https"
      BY <2>4 DEF Binds, Goto
    <3>3. \A q \in Proc : holds[q] # {} => origin[q] = origin[p]
      BY <3>1, <3>2
    <3>4. /\ \A q \in Proc : q # p => holds'[q] = holds[q] /\ pc'[q] = pc[q]
          /\ holds'[p] # {} /\ pc'[p] = "loop" /\ origin' = origin
      BY <2>4 DEF TypeOK, Binds, Goto
    <3>5. \A q \in Proc : holds'[q] # {} => origin[q] = origin[p]
      BY <3>3, <3>4
    <3>6. PortsHeld'
      BY <3>4, <3>5
    <3>7. ServesAlone'
      BY <3>4, <3>5, <3>1 DEF Port
    <3>8. QED BY <3>6, <3>7
  <2>5. CASE CannotStart(p) \/ TestsLoop(p) \/ SelectFails(p) \/ EndsPass(p)
    <3>1. /\ \A q \in Proc : q # p => pc'[q] = pc[q]
          /\ pc'[p] \in {"while", "select", "loop"}
          /\ pc'[p] \in {"select", "loop"} => pc[p] \in {"loop", "work"}
          /\ holds' = holds /\ origin' = origin
      BY <2>5 DEF TypeOK, CannotStart, TestsLoop, SelectFails, EndsPass, Goto
    <3>2. QED BY <3>1 DEF Port
  <2>6. CASE \E port \in Port : ClosesListener(p, port)
    <3>1. /\ \A q \in Proc : q # p => pc'[q] = pc[q] /\ holds'[q] = holds[q]
          /\ pc[p] = "work" /\ pc'[p] = "loop" /\ origin' = origin
          /\ holds'[p] \subseteq holds[p]
      BY <2>6 DEF TypeOK, ClosesListener, Goto
    <3>2. holds'[p] # {}
      BY <2>6 DEF TypeOK, ClosesListener, Goto, Port
    <3>3. QED BY <3>1, <3>2
  <2>7. CASE Execs(p) \/ ExecFails(p)
    <3>1. /\ \A q \in Proc : q # p => pc'[q] = pc[q]
          /\ pc[p] = "exec" /\ pc'[p] \in {"cgi", "work"}
          /\ holds' = holds /\ origin' = origin
      BY <2>7 DEF TypeOK, Execs, ExecFails, Goto
    <3>2. holds[p] = Port
      BY <3>1
    <3>3. \A q \in Serving : holds[q] \cap holds[p] # {}
      BY <3>2 DEF TypeOK, Port
    <3>4. \A q \in Serving : origin[q] = origin[p]
      BY <3>3
    <3>5. QED BY <3>1, <3>2, <3>4
  <2>8. QED BY <1>1, <2>1, <2>2, <2>3, <2>4, <2>5, <2>6, <2>7 DEF Main
<1>2. ASSUME NEW p \in Proc, Outside(p) PROVE PortsHeld' /\ ServesAlone'
  <2>1. CASE Start(p) \/ Wakes(p)
    BY <2>1 DEF TypeOK, Start, Wakes, Goto
  <2>2. CASE Dies(p) \/ ScriptEnds(p) \/ Kills(p)
    BY <2>2 DEF TypeOK, Dies, ScriptEnds, Kills, Running, Ends
  <2>3. CASE \E q \in Proc : Forks(p, q)
    BY <2>3 DEF TypeOK, Forks, Port
  <2>4. CASE \E s \in {1, 2} : Signal(p, s)
    BY <2>4 DEF TypeOK, Signal, Handles, Goto
  <2>5. QED BY <1>2, <2>1, <2>2, <2>3, <2>4 DEF Outside
<1>3. CASE AllGone \/ UNCHANGED vars
  BY <1>3 DEF AllGone, vars
<1>4. QED BY <1>1, <1>2, <1>3 DEF Next

\* Processes that serve at the same time descend from one daemon.
THEOREM ServesAloneAlways == Spec => []ServesAlone
<1>1. Init => AloneInv
  BY TypeInit, DaemonAssumption DEF Init, AloneInv, PortsHeld, ServesAlone, Serving
<1>2. AloneInv /\ [Next]_vars => AloneInv'
  BY TypeNext, PortsNext DEF AloneInv
<1>3. AloneInv => ServesAlone
  BY DEF AloneInv
<1>4. QED BY <1>1, <1>2, <1>3, PTL DEF Spec

=============================================================================
