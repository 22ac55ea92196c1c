---------------------------- MODULE StateMachine ----------------------------
(***************************************************************************)
(* The state machine engine of frappy/lib/statemachine.py.                 *)
(*                                                                         *)
(* One thread, the poll thread of the module owning the machine, calls     *)
(* cycle(); any thread may call start() and stop(), which only fill the    *)
(* one-place slot next_task.  The state functions and the cleanup function *)
(* are user code: what they return is left open.                           *)
(*                                                                         *)
(* A step of the model ends where another thread can see or change what    *)
(* the cycle does: at every access to next_task and statefunc, and around  *)
(* the transition callback.  Everything else in the machine (cleanup,      *)
(* cleanup_reason, init, the loop counters) belongs to the cycling thread. *)
(* A test of next_task that succeeds and the access that follows it form   *)
(* one step: only the cycling thread empties the slot, so the test stays   *)
(* true until then.                                                        *)
(*                                                                         *)
(* Definitions whose name ends in a slip (Kept, Unbounded, ...) and which  *)
(* Next does not use are wrong variants of the definition they precede;    *)
(* each of them breaks a property below.                                   *)
(***************************************************************************)
EXTENDS Integers

CONSTANTS
  StateFuncs,   \* the state functions of the module
  None,         \* Python's None: no state function
  MaxLoops,     \* StateMachine.maxloops, 10 in the code
  MaxRequests   \* bound on the calls of start() and stop()

ASSUME NoneAssumption == None \notin StateFuncs
ASSUME MaxLoopsAssumption == MaxLoops \in Nat \ {0}
ASSUME MaxRequestsAssumption == MaxRequests \in Nat

VARIABLES
  statefunc,  \* the state function to be called next, or None
  nextTask,   \* the request waiting in next_task
  cleanup,    \* number of the start() which gave the cleanup function, 0: None
  reason,     \* cleanup_reason, reduced to its class
  init,       \* the init flag shown to the state function
  pc,         \* where cycle() is
  pass,       \* passes begun of the outer loop (two per cycle)
  loops,      \* state functions called or cleaned up in this pass
  goal,       \* argument of the _new_state call in progress
  then,       \* where cycle() continues after _new_state
  action,     \* the request taken from next_task
  issued,     \* history: number of requests made
  served,     \* history: number of the last request taken
  run,        \* history: number of the start() the current run comes from
  cleanups    \* history: cleanup functions called since this run began

cycleVars == <<statefunc, cleanup, reason, init, pc, pass, loops, goal, then,
               action, served, run, cleanups>>
vars == <<cycleVars, nextTask, issued>>

NoTask == [kind |-> "none", id |-> 0, func |-> None, cleanup |-> FALSE]

Tasks == [kind : {"none", "Start", "Stop"}, id : 0 .. MaxRequests,
          func : StateFuncs \cup {None}, cleanup : BOOLEAN]

-----------------------------------------------------------------------------
(* Requests, from any thread.                                              *)

Init ==
  /\ statefunc = None /\ nextTask = NoTask /\ cleanup = 0 /\ reason = "none"
  /\ init = TRUE /\ pc = "idle" /\ pass = 0 /\ loops = 0 /\ goal = None
  /\ then = "task" /\ action = NoTask
  /\ issued = 0 /\ served = 0 /\ run = 0 /\ cleanups = 0

Request(task) ==
  /\ issued < MaxRequests
  /\ issued' = issued + 1
  /\ nextTask' = task
  /\ UNCHANGED cycleVars

\* The new request replaces the waiting one; the keyword arguments, cleanup
\* among them (None when not given), stay with the request until it is taken.
Start(f, withCleanup) ==
  Request([kind |-> "Start", id |-> issued + 1, func |-> f,
           cleanup |-> withCleanup])

Stop ==
  Request([kind |-> "Stop", id |-> issued + 1, func |-> None,
           cleanup |-> FALSE])

-----------------------------------------------------------------------------
(* cycle(), run by the poll thread.                                        *)

\* A call of _new_state(f): the transition callback comes first.
NewState(f, continuation) ==
  /\ pc' = "transition"
  /\ goal' = f
  /\ then' = continuation

\* Slip: the cleanup function stays in place after it was called.
CleanupKept(r, ret, continuation) ==
  /\ reason' = IF reason = "none" THEN r ELSE reason
  /\ cleanup' = cleanup
  /\ cleanups' = IF cleanup = 0 THEN cleanups ELSE cleanups + 1
  /\ cleanup = 0 => ret = None
  /\ NewState(ret, IF ret = None THEN "task" ELSE continuation)

\* _cleanup(r): the first reason of a run is kept, the cleanup function is
\* called once and taken away; ret is what it returns (None as well when it
\* raises or returns something not callable).
Cleanup(r, ret, continuation) ==
  /\ reason' = IF reason = "none" THEN r ELSE reason
  /\ cleanup' = 0
  /\ cleanups' = IF cleanup = 0 THEN cleanups ELSE cleanups + 1
  /\ cleanup = 0 => ret = None
  /\ NewState(ret, IF ret = None THEN "task" ELSE continuation)

Cycle ==
  /\ pc = "idle"
  /\ pc' = "pass"
  /\ pass' = 0
  /\ UNCHANGED <<statefunc, cleanup, reason, init, loops, goal, then, action,
                 served, run, cleanups, nextTask, issued>>

\* The head of the outer loop, and the test of statefunc below it.
NextPass ==
  /\ pc = "pass"
  /\ IF pass = 2
       THEN pc' = "idle" /\ UNCHANGED <<pass, loops>>
       ELSE /\ pass' = pass + 1
            /\ loops' = 0
            /\ pc' = IF statefunc = None THEN "task" ELSE "loop"
  /\ UNCHANGED <<statefunc, cleanup, reason, init, goal, then, action,
                 served, run, cleanups, nextTask, issued>>

\* Slip: a request interrupts a cleanup sequence as well.
InterruptedAlways == nextTask.kind # "none"

\* Slip: only a stop interrupts, a restart waits for the end of the run.
InterruptedByStop == nextTask.kind = "Stop" /\ reason = "none"

\* A waiting request interrupts, but not a machine that is cleaning up.
Interrupted == nextTask.kind # "none" /\ reason = "none"

Interrupt ==
  /\ pc = "loop" /\ loops < MaxLoops
  /\ Interrupted
  /\ loops' = loops + 1
  /\ \E ret \in StateFuncs \cup {None} : Cleanup(nextTask.kind, ret, "loop")
  /\ UNCHANGED <<statefunc, init, pass, action, served, run, nextTask, issued>>

\* Slip: the inner loop is one round too long.
EnterStateUnbounded ==
  /\ pc = "loop" /\ loops <= MaxLoops
  /\ ~Interrupted
  /\ loops' = loops + 1
  /\ pc' = "call"
  /\ UNCHANGED <<statefunc, cleanup, reason, init, pass, goal, then, action,
                 served, run, cleanups, nextTask, issued>>

\* Slip: states are not counted.
EnterStateUncounted ==
  /\ pc = "loop"
  /\ ~Interrupted
  /\ pc' = "call"
  /\ UNCHANGED <<statefunc, cleanup, reason, init, pass, loops, goal, then,
                 action, served, run, cleanups, nextTask, issued>>

EnterState ==
  /\ pc = "loop" /\ loops < MaxLoops
  /\ ~Interrupted
  /\ loops' = loops + 1
  /\ pc' = "call"
  /\ UNCHANGED <<statefunc, cleanup, reason, init, pass, goal, then, action,
                 served, run, cleanups, nextTask, issued>>

\* Slip: the `continue` is missing, next_task is looked at in a state.
TooManyStatesGoOn ==
  /\ pc = "loop" /\ loops = MaxLoops
  /\ \E ret \in StateFuncs \cup {None} : Cleanup("Error", ret, "task")
  /\ UNCHANGED <<statefunc, init, pass, loops, action, served, run, nextTask,
                 issued>>

\* The inner loop is exhausted: treated as an error of the state function,
\* and what the cleanup function returns waits for the next pass.
TooManyStates ==
  /\ pc = "loop" /\ loops = MaxLoops
  /\ \E ret \in StateFuncs \cup {None} : Cleanup("Error", ret, "pass")
  /\ UNCHANGED <<statefunc, init, pass, loops, action, served, run, nextTask,
                 issued>>

\* The state function returns Retry: the cycle is over.
CallRetry ==
  /\ pc = "call"
  /\ pc' = "idle"
  /\ init' = FALSE
  /\ UNCHANGED <<statefunc, cleanup, reason, pass, loops, goal, then, action,
                 served, run, cleanups, nextTask, issued>>

\* It returns Finish, after dropping the cleanup function or not.
CallFinish(drop) ==
  /\ pc = "call"
  /\ init' = FALSE
  /\ cleanup' = IF drop THEN 0 ELSE cleanup
  /\ NewState(None, "task")
  /\ UNCHANGED <<statefunc, reason, pass, loops, action, served, run,
                 cleanups, nextTask, issued>>

\* It returns the next state function.
CallNext(f) ==
  /\ pc = "call"
  /\ init' = FALSE
  /\ NewState(f, "loop")
  /\ UNCHANGED <<statefunc, cleanup, reason, pass, loops, action, served, run,
                 cleanups, nextTask, issued>>

\* It raises, or (returned) it returns something that is no state function.
CallFail(returned) ==
  /\ pc = "call"
  /\ init' = IF returned THEN FALSE ELSE init
  /\ \E ret \in StateFuncs \cup {None} : Cleanup("Error", ret, "loop")
  /\ UNCHANGED <<statefunc, pass, loops, action, served, run, nextTask, issued>>

\* _new_state: the transition callback has been called ...
Transition ==
  /\ pc = "transition"
  /\ pc' = "assign"
  /\ UNCHANGED <<statefunc, cleanup, reason, init, pass, loops, goal, then,
                 action, served, run, cleanups, nextTask, issued>>

\* ... and the new state function is set.
Assign ==
  /\ pc = "assign" /\ then # "begin"
  /\ statefunc' = goal
  /\ init' = TRUE
  /\ pc' = then
  /\ UNCHANGED <<cleanup, reason, pass, loops, goal, then, action, served,
                 run, cleanups, nextTask, issued>>

\* Slip: the slot is emptied when the run begins, not when it is taken.
BeginClearsSlot ==
  /\ pc = "assign" /\ then = "begin"
  /\ statefunc' = goal
  /\ init' = TRUE
  /\ run' = action.id
  /\ cleanup' = IF action.cleanup THEN action.id ELSE 0
  /\ cleanups' = 0
  /\ pc' = "pass"
  /\ nextTask' = NoTask
  /\ UNCHANGED <<reason, pass, loops, goal, then, action, served, issued>>

\* The same for the first state of a run; its keyword arguments, the cleanup
\* function among them, become attributes of the machine.
Begin ==
  /\ pc = "assign" /\ then = "begin"
  /\ statefunc' = goal
  /\ init' = TRUE
  /\ run' = action.id
  /\ cleanup' = IF action.cleanup THEN action.id ELSE 0
  /\ cleanups' = 0
  /\ pc' = "pass"
  /\ UNCHANGED <<reason, pass, loops, goal, then, action, served, nextTask,
                 issued>>

\* Nothing to be taken: on to the next pass.
NoRequest ==
  /\ pc = "task" /\ nextTask.kind = "none"
  /\ pc' = "pass"
  /\ UNCHANGED <<statefunc, cleanup, reason, init, pass, loops, goal, then,
                 action, served, run, cleanups, nextTask, issued>>

\* Slip: cleanup_reason is not reset.
TakeRequestReasonKept ==
  /\ pc = "task" /\ nextTask.kind # "none"
  /\ action' = nextTask
  /\ nextTask' = NoTask
  /\ served' = nextTask.id
  /\ IF nextTask.kind = "Start"
       THEN NewState(nextTask.func, "begin")
       ELSE pc' = "pass" /\ UNCHANGED <<goal, then>>
  /\ UNCHANGED <<statefunc, cleanup, reason, init, pass, loops, run, cleanups,
                 issued>>

\* The waiting request is taken under the lock; a stop needs nothing more.
TakeRequest ==
  /\ pc = "task" /\ nextTask.kind # "none"
  /\ action' = nextTask
  /\ nextTask' = NoTask
  /\ served' = nextTask.id
  /\ reason' = "none"
  /\ IF nextTask.kind = "Start"
       THEN NewState(nextTask.func, "begin")
       ELSE pc' = "pass" /\ UNCHANGED <<goal, then>>
  /\ UNCHANGED <<statefunc, cleanup, init, pass, loops, run, cleanups, issued>>

-----------------------------------------------------------------------------

Call ==
  \/ CallRetry
  \/ \E drop \in BOOLEAN : CallFinish(drop)
  \/ \E f \in StateFuncs : CallNext(f)
  \/ \E returned \in BOOLEAN : CallFail(returned)

CycleStep ==
  \/ NextPass \/ Interrupt \/ EnterState \/ TooManyStates
  \/ Call
  \/ Transition \/ Assign \/ Begin
  \/ NoRequest \/ TakeRequest

Next ==
  \/ \E f \in StateFuncs, c \in BOOLEAN : Start(f, c)
  \/ Stop
  \/ Cycle
  \/ CycleStep

\* The poll thread keeps calling cycle(), and user code returns.  The last
\* conjunct is what the module's author owes: a cleanup sequence comes to an
\* end (a state function of it, tried again and again, at last finishes).
CleaningFinishes == reason # "none" /\ \E drop \in BOOLEAN : CallFinish(drop)

Fairness ==
  /\ WF_vars(Cycle)
  /\ WF_vars(CycleStep)
  /\ SF_vars(CleaningFinishes)

SafetySpec == Init /\ [][Next]_vars
Spec == SafetySpec /\ Fairness

-----------------------------------------------------------------------------
(* Properties.                                                             *)

\* Every variable stays within its range.
TypeOK ==
  /\ statefunc \in StateFuncs \cup {None}
  /\ nextTask \in Tasks
  /\ cleanup \in 0 .. MaxRequests
  /\ reason \in {"none", "Start", "Stop", "Error"}
  /\ init \in BOOLEAN
  /\ pc \in {"idle", "pass", "loop", "call", "transition", "assign", "task"}
  /\ pass \in 0 .. 2
  /\ loops \in 0 .. MaxLoops
  /\ goal \in StateFuncs \cup {None}
  /\ then \in {"loop", "pass", "task", "begin"}
  /\ action \in Tasks
  /\ issued \in 0 .. MaxRequests
  /\ served \in 0 .. MaxRequests
  /\ run \in 0 .. MaxRequests
  /\ cleanups \in Nat

\* No request is lost between start()/stop() in one thread and cycle() in the
\* other: the last request made is either waiting or has been taken.
NoRequestLost ==
  IF nextTask.kind = "none" THEN served = issued
  ELSE nextTask.id = issued /\ served < issued

\* The cleanup function called in a run is the one given with the start() of
\* that very run, and it is called at most once, however many errors, stops
\* and restarts hit the run.
CleanupOncePerRun ==
  /\ cleanup # 0 => cleanup = run
  /\ cleanups <= 1
  /\ cleanups = 1 => cleanup = 0

\* A run that ended by an error, a stop or a restart has been cleaned up: no
\* cleanup function is left behind, to be called by a later run or never.
InterruptedRunIsCleaned ==
  statefunc = None /\ reason # "none" => cleanup = 0

\* The state functions of a run start only after the run before has left its
\* last state: a restart never goes from state to state directly.
RestartPassesThroughIdle ==
  [][run' # run => statefunc = None]_vars

\* A cleanup sequence is not interrupted: while the machine cleans up, a
\* request neither changes the reason nor starts a second cleanup.
CleanupNotInterrupted ==
  [][reason # "none" /\ statefunc # None =>
       reason' = reason /\ cleanups' = cleanups]_vars

\* However the state functions chain, cycle() returns: the poll thread is never
\* captured by a machine going from state to state.
CycleReturns == pc # "idle" ~> pc = "idle"

\* Every request is eventually taken from its slot (or replaced by a later
\* one), whatever state functions do, if cleanup sequences end.
RequestsServed ==
  \A n \in 1 .. MaxRequests : issued >= n ~> served >= n

\* What the callers of start() and stop() see: a run is in its cleanup sequence
\* when its state functions go on after a cleanup reason was noted.
Promise == INSTANCE RunControl WITH
  phase <- IF statefunc = None THEN "idle"
           ELSE IF reason = "none" THEN "running" ELSE "cleaning",
  waiting <- nextTask.kind,
  starting <- pc \in {"transition", "assign"} /\ then = "begin"

\* The engine keeps the promise: requests are accepted by an idle machine only,
\* a cleanup sequence is never broken off for a request and never entered
\* twice, and a machine somebody wants to stop or restart becomes idle.
KeepsPromise == Promise!Spec
=============================================================================
