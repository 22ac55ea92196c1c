------------------------------- MODULE Server -------------------------------
(***************************************************************************)
(* The life of a node: Server.run() of frappy/server.py with one thread    *)
(* per interface, the MultiEvent it waits on for the interfaces to start,  *)
(* and restart() and shutdown(), called by other threads or by the signal  *)
(* handler, which runs in the main thread.                                 *)
(*                                                                         *)
(* A generation is one turn of the loop in run(): modules and interfaces   *)
(* are created, the interfaces serve until they are shut down, the modules *)
(* are shut down.                                                          *)
(***************************************************************************)
EXTENDS Naturals, FiniteSets

CONSTANTS Ifaces,       \* the interfaces of the configuration
          Callers,      \* threads calling restart() or shutdown()
          Signal,       \* the signal handler: a caller within the main thread
          MaxGen,       \* bound on the generations
          MaxCalls,     \* bound on the requests of a caller
          MayFail,      \* BOOLEAN: an interface may fail, or start too late
          Early         \* BOOLEAN: requests may come before startup is done

VARIABLES
  main,         \* where run() is
  gen,          \* the generation
  restart,      \* Server._restart
  interfaces,   \* Server.interfaces: pairs <<generation, interface>>
  thread,       \* where the thread of each interface is
  stop,         \* interfaces asked to leave serve_forever
  events,       \* interfaces the MultiEvent waits for
  seen,         \* MultiEvent.deadline(): the set it iterates over
  late,         \* did the wait time out?
  call,         \* what a caller does: kind, interfaces left, size of the dict
  calls,        \* how many requests a caller has made
  asked,        \* the request which came last in this generation
  listening     \* generations whose discovery listener is open

vars == <<main, gen, restart, interfaces, thread, stop, events, seen, late, call, calls, asked, listening>>
serverVars == <<main, gen, restart, interfaces, thread, stop, events, seen, late, asked, listening>>
callVars == <<call, calls>>

Idle == [kind |-> "no", todo |-> {}, of |-> {}]
Ready == main = "join" /\ \A i \in Ifaces : thread[i] \in {"serving", "stopped", "ended", "failed"}

Init ==
  /\ main = "top" /\ gen = 0 /\ restart = TRUE /\ interfaces = {}
  /\ thread = [i \in Ifaces |-> "none"] /\ stop = {} /\ events = {} /\ seen = {} /\ late = FALSE
  /\ call = [c \in Callers |-> Idle] /\ calls = [c \in Callers |-> 0]
  /\ asked = "nothing" /\ listening = {}

-----------------------------------------------------------------------------
(* the main thread: run() *)

\* the signal handler interrupts the main thread
Main(from, to) ==
  /\ main = from /\ main' = to
  /\ Signal \in Callers => call[Signal] = Idle

\* while self._restart; _processCfg builds and starts all modules
Top ==
  /\ restart /\ gen < MaxGen
  /\ Main("top", "config")
  /\ restart' = FALSE /\ gen' = gen + 1 /\ asked' = "nothing"
  /\ UNCHANGED <<interfaces, thread, stop, events, seen, late, listening, callVars>>

Finish ==
  /\ ~restart /\ Main("top", "done")
  /\ UNCHANGED <<gen, restart, interfaces, thread, stop, events, seen, late, asked, listening, callVars>>

\* the interface threads are started; each waits for `lock' before it
\* registers, which is held until all triggers exist
Spawn ==
  /\ Main("config", "deadline")
  /\ interfaces' = {} /\ stop' = {} /\ late' = FALSE
  /\ thread' = [i \in Ifaces |-> "binding"]
  /\ events' = Ifaces
  /\ UNCHANGED <<gen, restart, seen, asked, listening, callVars>>

\* MultiEvent.wait(): nothing to wait for, or a look at the deadlines
NothingToWaitFor ==
  /\ events = {} /\ Main("deadline", "check")
  /\ UNCHANGED <<gen, restart, interfaces, thread, stop, events, seen, late, asked, listening, callVars>>
Deadline ==
  /\ events # {} /\ Main("deadline", "deadlines") /\ seen' = events
  /\ UNCHANGED <<gen, restart, interfaces, thread, stop, events, late, asked, listening, callVars>>
\* the loop over the events, without their lock, ends or is disturbed
Looked ==
  /\ \/ Main("deadlines", "wait")
     \/ events # seen /\ Main("deadlines", "crashed")
  /\ seen' = {}
  /\ UNCHANGED <<gen, restart, interfaces, thread, stop, events, late, asked, listening, callVars>>

Waited ==
  /\ events = {} /\ Main("wait", "check")
  /\ UNCHANGED <<gen, restart, interfaces, thread, stop, events, seen, late, asked, listening, callVars>>
TimedOut ==
  /\ MayFail /\ events # {} /\ Main("wait", "check") /\ late' = TRUE
  /\ UNCHANGED <<gen, restart, interfaces, thread, stop, events, seen, asked, listening, callVars>>

\* no interface at all: run() returns; else the node is announced
NoInterface ==
  /\ interfaces = {} /\ Main("check", "done")
  /\ UNCHANGED <<gen, restart, interfaces, thread, stop, events, seen, late, asked, listening, callVars>>
Announce ==
  /\ interfaces # {} /\ Main("check", "join")
  /\ listening' = listening \union {gen}
  /\ UNCHANGED <<gen, restart, interfaces, thread, stop, events, seen, late, asked, callVars>>

\* a slip: the thread of one interface is waited for
AnyEnded == \E i \in Ifaces : thread[i] \in {"ended", "failed"}

AllEnded == \A i \in Ifaces : thread[i] \in {"ended", "failed"}

Join ==
  /\ AllEnded /\ Main("join", "clean")
  /\ UNCHANGED <<gen, restart, interfaces, thread, stop, events, seen, late, asked, listening, callVars>>

\* shutdown_modules: the poll threads are stopped and joined
CleanUp ==
  /\ Main("clean", "top")
  /\ UNCHANGED <<gen, restart, interfaces, thread, stop, events, seen, late, asked, listening, callVars>>

Run == \/ Top \/ Finish \/ Spawn \/ NothingToWaitFor \/ Deadline \/ Looked \/ Waited \/ TimedOut
       \/ NoInterface \/ Announce \/ Join \/ CleanUp

-----------------------------------------------------------------------------
(* the thread of an interface *)

Goes(i, from, to) ==
  /\ thread[i] = from /\ thread' = [thread EXCEPT ![i] = to]
  /\ UNCHANGED <<main, gen, restart, seen, late, asked, listening, callVars>>

\* a slip of MultiEvent.set_: the first event sets it
TriggersAll(i) == events' = {}

Triggers(i) == events' = events \ {i}

\* the socket is bound; a moment later the interface is in the dict
Register(i) ==
  /\ Goes(i, "binding", "registered")
  /\ interfaces' = interfaces \union {<<gen, i>>}
  /\ UNCHANGED <<stop, events>>
Started(i) ==
  /\ Goes(i, "registered", "serving")
  /\ Triggers(i)
  /\ UNCHANGED <<interfaces, stop>>
BindFails(i) ==
  /\ MayFail
  /\ Goes(i, "binding", "failed")
  /\ Triggers(i)
  /\ UNCHANGED <<interfaces, stop>>

\* serve_forever returns after shutdown(), and sets the flag back
Stopped(i) ==
  /\ i \in stop
  /\ Goes(i, "serving", "stopped")
  /\ stop' = stop \ {i}
  /\ UNCHANGED <<interfaces, events>>
Exit(i) ==
  /\ Goes(i, "stopped", "ended")
  /\ UNCHANGED <<interfaces, stop, events>>

InterfaceThread(i) == Register(i) \/ Started(i) \/ BindFails(i) \/ Stopped(i) \/ Exit(i)

-----------------------------------------------------------------------------
(* restart() and shutdown() *)

Calling(c) ==
  /\ call[c] = Idle /\ calls[c] < MaxCalls
  /\ Early \/ Ready
  /\ main \notin {"done", "crashed", "killed"}
  /\ calls' = [calls EXCEPT ![c] = @ + 1]

AllInterfaces(c, kind) ==
  call' = [call EXCEPT ![c] = [kind |-> kind, todo |-> interfaces, of |-> interfaces]]

Restart(c) ==
  /\ c # Signal /\ Calling(c) /\ ~restart
  /\ restart' = TRUE /\ asked' = "restart"
  /\ AllInterfaces(c, "restart")
  /\ UNCHANGED <<main, gen, interfaces, thread, stop, events, seen, late, listening>>

\* a slip: a restart requested before remains
ShutdownLater(c) ==
  /\ c = Signal => interfaces # {}
  /\ Calling(c)
  /\ asked' = "shutdown"
  /\ listening' = listening \ {gen}
  /\ AllInterfaces(c, "shutdown")
  /\ UNCHANGED <<main, gen, restart, interfaces, thread, stop, events, seen, late>>

\* the discovery listener of this generation is closed, too
Shutdown(c) ==
  /\ c = Signal => interfaces # {}
  /\ Calling(c)
  /\ restart' = FALSE /\ asked' = "shutdown"
  /\ listening' = listening \ {gen}
  /\ AllInterfaces(c, "shutdown")
  /\ UNCHANGED <<main, gen, interfaces, thread, stop, events, seen, late>>

\* a signal without any interface: KeyboardInterrupt in the main thread
Interrupt ==
  /\ Signal \in Callers /\ Calling(Signal) /\ interfaces = {}
  /\ main' = "killed" /\ UNCHANGED call
  /\ UNCHANGED <<gen, restart, interfaces, thread, stop, events, seen, late, asked, listening>>

\* RuntimeError: the dict has got a further interface under the loop
Grown(c) == call[c].of # {} /\ call[c].of \subseteq interfaces /\ call[c].of # interfaces

\* iface.shutdown() asks the interface to stop ...
AskToStop(c) ==
  /\ call[c].kind \in {"restart", "shutdown"} /\ ~Grown(c)
  /\ \E x \in call[c].todo :
       /\ call' = [call EXCEPT ![c].todo = @ \ {x}, ![c].kind = x[2]]
       /\ stop' = IF x[1] = gen /\ thread[x[2]] \notin {"stopped", "ended", "failed"}
                    THEN stop \union {x[2]} ELSE stop
  /\ UNCHANGED <<main, gen, restart, interfaces, thread, events, seen, late, asked, listening, calls>>
\* ... and waits until it has
HasStopped(c) ==
  /\ call[c].kind \in Ifaces
  /\ \A x \in call[c].of : x[2] = call[c].kind /\ x[1] = gen =>
       thread[x[2]] \notin {"registered", "serving"}
  /\ call' = [call EXCEPT ![c].kind = "restart"]
  /\ UNCHANGED <<serverVars, calls>>

\* the call returns, or raises
Return(c) ==
  /\ call[c].kind \in {"restart", "shutdown"}
  /\ call[c].todo = {} \/ Grown(c)
  /\ call' = [call EXCEPT ![c] = Idle]
  /\ UNCHANGED <<serverVars, calls>>

Caller(c) == AskToStop(c) \/ HasStopped(c) \/ Return(c)

Next ==
  \/ Run \/ Interrupt
  \/ \E i \in Ifaces : InterfaceThread(i)
  \/ \E c \in Callers : Restart(c) \/ Shutdown(c) \/ Caller(c)

Spec == Init /\ [][Next]_vars
FairSpec ==
  /\ Spec /\ WF_vars(Run) /\ \A i \in Ifaces : WF_vars(InterfaceThread(i))
  /\ \A c \in Callers : WF_vars(Caller(c))
-----------------------------------------------------------------------------
TypeOK ==
  /\ gen \in 0..MaxGen /\ restart \in BOOLEAN /\ late \in BOOLEAN
  /\ interfaces \subseteq (1..MaxGen) \X Ifaces
  /\ thread \in [Ifaces -> {"none", "binding", "registered", "serving", "stopped", "ended", "failed"}]
  /\ {stop, events, seen} \subseteq SUBSET Ifaces
  /\ asked \in {"nothing", "restart", "shutdown"} /\ listening \subseteq 1..MaxGen

\* When the wait for the interfaces is over without a time-out, each of them
\* is listed or has failed: the node announces itself with all its interfaces.
AllDecided ==
  main \in {"check", "join"} /\ ~late =>
    \A i \in Ifaces : <<gen, i>> \in interfaces \/ thread[i] = "failed"

\* The modules are shut down only when no interface serves any more.
CleanupLast == main = "clean" => \A i \in Ifaces : thread[i] \notin {"registered", "serving"}

\* A request to restart or to shut down is carried out, unless a later one
\* replaces it: two callers meeting in the middle, and an interface which has
\* just failed, do not leave the node half alive.
CarriedOut ==
  /\ asked = "shutdown" ~> main = "done" \/ asked # "shutdown"
  /\ asked = "restart" ~> asked # "restart" \/ gen = MaxGen

\* At most the discovery listener of the present generation is open.
OneListener == Cardinality(listening) <= 1
=============================================================================
