------------------------------ MODULE LisoDaemon ------------------------------
(***************************************************************************)
(* The life of the liso processes (lisod.c), with the calls of run_liso    *)
(* they make seen from outside: the lock file, the signals, the listening  *)
(* sockets they open and inherit, the CGI children (cgi.c), and the        *)
(* restart loop of main.  What happens between select() and the end of a   *)
(* pass is one step here; LisoServer has the detail.                       *)
(***************************************************************************)
EXTENDS Naturals, FiniteSets

CONSTANTS
  Proc,         \* the processes: daemons that are started, children they fork
  Nobody,
  ExecMayFail,  \* whether execve of the CGI script may fail
  MaxSignals    \* bound: signals sent in all

ASSUME DaemonAssumption ==
  /\ Nobody \notin Proc
  /\ ExecMayFail \in BOOLEAN
  /\ MaxSignals \in Nat

Port == {"HTTP", "HTTPS"}

\* Control points: main up to its loop; the two lines of main's loop; run_liso
\* up to, in and below its loop; a CGI child before and after execve.
PCs == {"none", "daemonize", "locked", "main", "while", "again", "http", "https",
        "loop", "select", "work", "exec", "cgi", "gone"}

VARIABLES
  pc, liso_state,
  holds,   \* the ports a process has a listening socket for
  lock,    \* the process that has locked the lock file
  origin,  \* the started daemon a process is, or descends from
  signals  \* signals sent so far

vars == <<pc, liso_state, holds, lock, origin, signals>>

Running == {p \in Proc : pc[p] \notin {"none", "gone"}}
Handles == {"main", "while", "again", "http", "https", "loop", "select", "work",
            "exec"}
Serving == {p \in Proc : pc[p] \in {"loop", "select", "work"}}

Init ==
  /\ pc = [p \in Proc |-> "none"]
  /\ liso_state = [p \in Proc |-> 0]
  /\ holds = [p \in Proc |-> {}]
  /\ lock = Nobody
  /\ origin = [p \in Proc |-> p]
  /\ signals = 0

Goto(p, from, to) == pc[p] = from /\ pc' = [pc EXCEPT ![p] = to]

\* The end of a process: the kernel closes its sockets and drops its lock.
Ends(p) ==
  /\ pc' = [pc EXCEPT ![p] = "gone"]
  /\ holds' = [holds EXCEPT ![p] = {}]
  /\ lock' = IF lock = p THEN Nobody ELSE lock
  /\ UNCHANGED <<liso_state, origin>>

-----------------------------------------------------------------------------
(* daemonize and main *)

\* The child of daemonize's fork; its parent has exited.
Start(p) ==
  /\ Goto(p, "none", "daemonize")
  /\ UNCHANGED <<liso_state, holds, lock, origin, signals>>

\* Mutant: lockf is not tested.
LockAvailable_Always == TRUE

LockAvailable == lock = Nobody

TakesLock(p) ==
  /\ LockAvailable
  /\ Goto(p, "daemonize", "locked")
  /\ lock' = p
  /\ UNCHANGED <<liso_state, holds, origin, signals>>

\* The lock is taken, or dup() or open() of the lock file fails.
GivesUp(p) ==
  /\ pc[p] = "daemonize"
  /\ Ends(p)
  /\ UNCHANGED signals

InstallsHandlers(p) ==
  /\ Goto(p, "locked", "main")
  /\ UNCHANGED <<liso_state, holds, lock, origin, signals>>

\* liso_state=0, which forgets a signal that has already come.
EntersMain(p) ==
  /\ Goto(p, "main", "while")
  /\ liso_state' = [liso_state EXCEPT ![p] = 0]
  /\ UNCHANGED <<holds, lock, origin, signals>>

TestsState(p) ==
  /\ pc[p] = "while"
  /\ IF liso_state[p] # 2
     THEN /\ pc' = [pc EXCEPT ![p] = "again"]
          /\ UNCHANGED <<liso_state, holds, lock, origin>>
     ELSE Ends(p)
  /\ UNCHANGED signals

\* liso_state=0 once more, create_liso, and run_liso is called.
CallsRunLiso(p) ==
  /\ Goto(p, "again", "http")
  /\ liso_state' = [liso_state EXCEPT ![p] = 0]
  /\ UNCHANGED <<holds, lock, origin, signals>>

-----------------------------------------------------------------------------
(* run_liso *)

\* Mutant: a port can be bound while somebody listens on it.
PortFree_Shared(port) == TRUE

\* bind() fails as long as any process has a socket listening on the port.
PortFree(port) == \A q \in Proc : port \notin holds[q]

Binds(p, port, from, to) ==
  /\ PortFree(port)
  /\ Goto(p, from, to)
  /\ holds' = [holds EXCEPT ![p] = @ \cup {port}]
  /\ UNCHANGED <<liso_state, lock, origin, signals>>

\* Mutant: run_liso reports the failure and leaves liso_state as it is.
StateOfFailedStart_Unset(p) == liso_state[p]

\* Mutant: the bit is set beside that of a SIGHUP.
StateOfFailedStart_Or(p) == IF liso_state[p] = 1 THEN 3 ELSE 2

\* liso_state=2 in run_liso
StateOfFailedStart(p) == 2

\* The TLS context or one of the two sockets cannot be had, because the port
\* is taken here or for a reason of its own.
CannotStart(p) ==
  /\ pc[p] \in {"http", "https"}
  /\ pc' = [pc EXCEPT ![p] = "while"]
  /\ liso_state' = [liso_state EXCEPT ![p] = StateOfFailedStart(p)]
  /\ UNCHANGED <<holds, lock, origin, signals>>

\* Mutant: the loop is left for a SIGTERM only.
LoopGoesOn_NotTerm(p) == liso_state[p] # 2

\* while(liso_state==0)
LoopGoesOn(p) == liso_state[p] = 0

TestsLoop(p) ==
  /\ Goto(p, "loop", IF LoopGoesOn(p) THEN "select" ELSE "while")
  /\ UNCHANGED <<liso_state, holds, lock, origin, signals>>

\* Clients, pipes: whatever select() reports.
Wakes(p) ==
  /\ holds[p] = Port
  /\ Goto(p, "select", "work")
  /\ UNCHANGED <<liso_state, holds, lock, origin, signals>>

\* A listening socket that was closed is still in waitfds.
SelectFails(p) ==
  /\ holds[p] # Port
  /\ Goto(p, "select", "while")
  /\ UNCHANGED <<liso_state, holds, lock, origin, signals>>

EndsPass(p) ==
  /\ Goto(p, "work", "loop")
  /\ UNCHANGED <<liso_state, holds, lock, origin, signals>>

\* create_connection returned NULL.
ClosesListener(p, port) ==
  /\ Goto(p, "work", "loop")
  /\ holds' = [holds EXCEPT ![p] = @ \ {port}]
  /\ UNCHANGED <<liso_state, lock, origin, signals>>

\* SIGPIPE, or a damaged heap.
Dies(p) ==
  /\ pc[p] = "work"
  /\ Ends(p)
  /\ UNCHANGED signals

-----------------------------------------------------------------------------
(* CGI children *)

\* fork: the child has the sockets and liso_state of its parent, not its lock.
Forks(p, q) ==
  /\ pc[p] = "work" /\ pc[q] = "none"
  /\ pc' = [pc EXCEPT ![q] = "exec"]
  /\ holds' = [holds EXCEPT ![q] = holds[p]]
  /\ liso_state' = [liso_state EXCEPT ![q] = liso_state[p]]
  /\ origin' = [origin EXCEPT ![q] = origin[p]]
  /\ UNCHANGED <<lock, signals>>

\* No descriptor is closed by execve.
Execs(q) ==
  /\ Goto(q, "exec", "cgi")
  /\ UNCHANGED <<liso_state, holds, lock, origin, signals>>

\* build_CGI_pipe returns EXIT_FAILURE in the child, process_connection does
\* not look at it, and the child goes on with the pass of its parent.
ExecFails(q) ==
  /\ ExecMayFail
  /\ Goto(q, "exec", "work")
  /\ UNCHANGED <<liso_state, holds, lock, origin, signals>>

ScriptEnds(q) ==
  /\ pc[q] = "cgi"
  /\ Ends(q)
  /\ UNCHANGED signals

-----------------------------------------------------------------------------
(* Signals *)

Sent == signals < MaxSignals /\ signals' = signals + 1

\* Before the handlers are installed, and in a CGI script, a signal ends the
\* process.
Kills(p) ==
  /\ Sent
  /\ p \in Running /\ pc[p] \notin Handles
  /\ Ends(p)

\* signal_handler; select() returns if it is already waiting.
Signal(p, s) ==
  /\ Sent
  /\ pc[p] \in Handles
  /\ liso_state' = [liso_state EXCEPT ![p] = s]
  /\ \/ UNCHANGED pc
     \/ Goto(p, "select", "while")
  /\ UNCHANGED <<holds, lock, origin>>

-----------------------------------------------------------------------------

Main(p) ==
  \/ TakesLock(p) \/ GivesUp(p) \/ InstallsHandlers(p) \/ EntersMain(p)
  \/ TestsState(p) \/ CallsRunLiso(p)
  \/ Binds(p, "HTTP", "http", "https") \/ Binds(p, "HTTPS", "https", "loop")
  \/ CannotStart(p)
  \/ TestsLoop(p) \/ SelectFails(p) \/ EndsPass(p)
  \/ \E port \in Port : ClosesListener(p, port)
  \/ Execs(p) \/ ExecFails(p)

Outside(p) ==
  \/ Start(p) \/ Wakes(p) \/ Dies(p) \/ ScriptEnds(p) \/ Kills(p)
  \/ \E q \in Proc : Forks(p, q)
  \/ \E s \in {1, 2} : Signal(p, s)

AllGone == Running = {} /\ UNCHANGED vars

Next == (\E p \in Proc : Main(p) \/ Outside(p)) \/ AllGone

Spec == Init /\ [][Next]_vars

\* Every process is scheduled; nobody has to start one, to send a signal, to
\* connect, or to end a script.
FairSpec == Spec /\ \A p \in Proc : WF_vars(Main(p))

-----------------------------------------------------------------------------
(* Correctness *)

TypeOK ==
  /\ pc \in [Proc -> PCs]
  /\ liso_state \in [Proc -> 0..2]
  /\ holds \in [Proc -> SUBSET Port]
  /\ lock \in Proc \cup {Nobody}
  /\ origin \in [Proc -> Proc]
  /\ signals \in 0..MaxSignals

\* Of the daemons started with one lock file at most one is past daemonize at
\* any time, crashes and early signals included (lisod.c:49-52).
OneInstance ==
  \A p, q \in Proc :
    /\ origin[p] = p /\ pc[p] \notin {"none", "daemonize", "gone"}
    /\ origin[q] = q /\ pc[q] \notin {"none", "daemonize", "gone"}
    => p = q

\* Two processes serve at a time only if one is a child of the other that
\* failed to execve: a daemon that follows another never serves beside what
\* the first one left behind, lock or no lock.
ServesAlone == \A p, q \in Serving : origin[p] = origin[q]

\* lisod.c:52: "only first instance continues".
OnlyFirstInstance == \A p, q \in Serving : p = q

\* A signal that comes while the server handles what select() reported ends
\* the process, be it SIGTERM or SIGHUP: run_liso returns, and its second call
\* cannot bind the ports the first one never released.
SignalEnds ==
  \A p \in Proc : pc[p] = "work" /\ liso_state[p] # 0 ~> pc[p] = "gone"

\* A process whose run_liso has returned is gone before long, whatever made it
\* return; it never serves again.
ReturnEnds ==
  \A p \in Proc : pc[p] = "while" /\ holds[p] # {} ~> pc[p] = "gone"

=============================================================================
