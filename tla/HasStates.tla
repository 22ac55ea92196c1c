----------------------------- MODULE HasStates ------------------------------
(***************************************************************************)
(* The mixin HasStates of frappy/states.py: a module driving a state       *)
(* machine (StateMachine.tla) from its poll thread, while other threads    *)
(* call start_machine and stop_machine, and clients read the status        *)
(* parameter from the updates announced by read_status.                    *)
(*                                                                         *)
(* The state machine object is shared without a lock (its own lock covers  *)
(* next_task only), so every access to its status, idle_status, statefunc, *)
(* next_task and reset_fast_poll attributes is a step.  read_status runs   *)
(* under the accessLock of the module; start_machine is called with        *)
(* (from write_target) or without that lock.                               *)
(*                                                                         *)
(* As in StateMachine, a definition which Next does not use is a wrong     *)
(* variant (a slip) of the definition it precedes.                         *)
(***************************************************************************)
EXTENDS Integers, FiniteSets

CONSTANTS
  StateFuncs, None, MaxLoops, MaxRequests,   \* see StateMachine
  WithStatus,        \* the state functions with an attached status code
  AllStatusChanges,  \* all_status_changes
  Callers,           \* the threads calling start_machine and stop_machine
  Poller,            \* the poll thread
  MaxStarts          \* bound on the requests before the last call of start_machine

ASSUME MachineAssumption ==
  None \notin StateFuncs /\ MaxLoops \in Nat \ {0} /\ MaxRequests \in Nat
ASSUME StatusAssumption == WithStatus \subseteq StateFuncs /\ AllStatusChanges \in BOOLEAN
ASSUME ThreadsAssumption == None \notin Callers \cup {Poller} /\ Poller \notin Callers

VARIABLES
  statefunc, nextTask, cleanup, reason, init, pc, pass, loops, goal, then,
  action, issued, served, run, cleanups,     \* see StateMachine
  status,        \* sm.status, a code and a text
  idleStatus,    \* sm.idle_status
  published,     \* the status parameter, as announced to the clients
  seen,          \* the status read by each thread, not yet announced
  lock,          \* who holds the accessLock, or None
  resetFastPoll, \* sm.reset_fast_poll
  fastPoll,      \* pollInfo.fast_flag
  poll,          \* where the poll thread is in cycle_machine
  callback,      \* where it is in state_transition
  newStatus,     \* its local variable status
  job            \* what each calling thread is doing

smVars == <<statefunc, nextTask, cleanup, reason, init, pc, pass, loops, goal,
            then, action, issued, served, run, cleanups>>
vars == <<smVars, status, idleStatus, published, seen, lock, resetFastPoll,
          fastPoll, poll, callback, newStatus, job>>

SM == INSTANCE StateMachine

Threads == Callers \cup {Poller}

-----------------------------------------------------------------------------
(* Status values.                                                          *)

NoStatus == <<"none", "none">>
Idle     == <<"IDLE", "">>
Stopped  == <<"IDLE", "stopped">>
Final    == <<"IDLE", "final">>
Given    == <<"BUSY", "given">>
Failed   == <<"ERROR", "error">>
Texts    == {"", "stopped", "final", "error", "stopping", "restarting",
              "given", "none"}
              \cup StateFuncs
Codes    == {"IDLE", "BUSY", "ERROR", "none"}
Statuses == Codes \X Texts

\* get_status: the status attached to a state function, the default code with
\* the name of the function, or the idle status.
GetStatus(f, default) ==
  CASE f = None -> idleStatus
    [] f \in WithStatus -> <<"BUSY", f>>
    [] OTHER -> IF default = "none" THEN NoStatus ELSE <<default, f>>

NoJob == [pc |-> "none", func |-> None, fast |-> FALSE, locked |-> FALSE,
          code |-> "none"]

Init ==
  /\ SM!Init
  /\ status = Idle /\ idleStatus = Idle /\ published = Idle
  /\ seen = [t \in Threads |-> Idle]
  /\ lock = None
  /\ resetFastPoll = FALSE /\ fastPoll = FALSE
  /\ poll = "wait" /\ callback = "none" /\ newStatus = NoStatus
  /\ job = [t \in Callers |-> NoJob]

-----------------------------------------------------------------------------
(* The accessLock, and read_status: the status is read and announced in    *)
(* one section of the lock.                                                *)

\* Slip: read_status without the accessLock.
ReadStatusUnlocked(t) ==
  /\ lock' = lock
  /\ seen' = [seen EXCEPT ![t] = status]

ReadStatus(t) ==
  /\ lock \in {None, t}
  /\ lock' = t
  /\ seen' = [seen EXCEPT ![t] = status]

Announce(t, keepLock) ==
  /\ published' = seen[t]
  /\ lock' = IF keepLock THEN lock ELSE None

-----------------------------------------------------------------------------
(* The poll thread.                                                        *)

pollerVars == <<poll, callback, newStatus>>
statusVars == <<status, idleStatus, published, seen, lock>>
fastVars == <<resetFastPoll, fastPoll>>

DoPoll ==
  /\ poll = "wait"
  /\ SM!Cycle
  /\ poll' = "cycle"
  /\ UNCHANGED <<callback, newStatus, statusVars, fastVars, job>>

\* Steps of the cycle which the mixin does not take part in.
PlainStep ==
  /\ \/ SM!NextPass \/ SM!EnterState \/ SM!CallRetry \/ SM!Assign \/ SM!Begin
     \/ SM!NoRequest \/ SM!TakeRequest
     \/ \E f \in StateFuncs : SM!CallNext(f)
  /\ UNCHANGED <<statusVars, fastVars, pollerVars, job>>

\* A state function returns Finish, or calls final_status, which sets
\* idle_status, drops the cleanup function and returns Finish.
Finish ==
  /\ \/ SM!CallFinish(FALSE) /\ UNCHANGED idleStatus
     \/ SM!CallFinish(TRUE) /\ idleStatus' = Final
  /\ UNCHANGED <<status, published, seen, lock, fastVars, pollerVars, job>>

\* The cleanup function is on_cleanup: an error becomes the final status.
CleanUp ==
  /\ \/ SM!Interrupt \/ SM!TooManyStates
     \/ \E returned \in BOOLEAN : SM!CallFail(returned)
  /\ idleStatus' = IF cleanup # 0 /\ reason' = "Error" THEN Failed ELSE idleStatus
  /\ UNCHANGED <<status, published, seen, lock, fastVars, pollerVars, job>>

\* state_transition: the status belonging to the new state, changed according
\* to the request waiting.
Chosen ==
  LET plain == GetStatus(goal, "none") IN
  CASE nextTask.kind = "none" -> plain
    [] nextTask.kind = "Stop" ->
         IF goal # None /\ plain # NoStatus THEN <<plain[1], "stopping">> ELSE plain
    [] OTHER ->
         IF plain = NoStatus THEN NoStatus
         ELSE IF status[2] = plain[2] THEN status
         ELSE <<status[1], "restarting">>

TransitionChoose ==
  /\ pc = "transition" /\ callback = "none"
  /\ IF nextTask.kind = "Start" /\ goal = None
       THEN callback' = "next" /\ UNCHANGED newStatus
       ELSE callback' = "write" /\ newStatus' = Chosen
  /\ UNCHANGED <<smVars, statusVars, fastVars, poll, job>>

\* The start case reads next_task once more ...
TransitionStart ==
  /\ callback = "next" /\ nextTask.kind = "Start"
  /\ newStatus' = GetStatus(nextTask.func, "BUSY")
  /\ callback' = "write"
  /\ UNCHANGED <<smVars, statusVars, fastVars, poll, job>>

\* ... and fails when a stop has come in between: a Stop has no newstate.  The
\* exception leaves cycle() and cycle_machine() and is logged by the poller.
TransitionRaises ==
  /\ callback = "next" /\ nextTask.kind = "Stop"
  /\ callback' = "none"
  /\ pc' = "idle"
  /\ poll' = "wait"
  /\ UNCHANGED <<statefunc, nextTask, cleanup, reason, init, pass, loops, goal,
                 then, action, issued, served, run, cleanups, statusVars,
                 fastVars, newStatus, job>>

TransitionWrite ==
  /\ callback = "write"
  /\ status' = IF newStatus = NoStatus THEN status ELSE newStatus
  /\ callback' = IF AllStatusChanges THEN "read" ELSE "done"
  /\ UNCHANGED <<smVars, idleStatus, published, seen, lock, fastVars, poll,
                 newStatus, job>>

TransitionRead ==
  /\ callback = "read"
  /\ ReadStatus(Poller)
  /\ callback' = "announce"
  /\ UNCHANGED <<smVars, status, idleStatus, published, fastVars, poll,
                 newStatus, job>>

TransitionAnnounce ==
  /\ callback = "announce"
  /\ Announce(Poller, FALSE)
  /\ callback' = "done"
  /\ UNCHANGED <<smVars, status, idleStatus, seen, fastVars, poll, newStatus,
                 job>>

TransitionReturn ==
  /\ callback = "done"
  /\ SM!Transition
  /\ callback' = "none"
  /\ newStatus' = NoStatus
  /\ UNCHANGED <<statusVars, fastVars, poll, job>>

\* cycle_machine, after the cycle.
CheckFastPoll ==
  /\ poll = "cycle" /\ pc = "idle"
  /\ resetFastPoll' = (resetFastPoll /\ statefunc # None)
  /\ poll' = IF resetFastPoll /\ statefunc = None THEN "slow" ELSE "read"
  /\ UNCHANGED <<smVars, statusVars, fastPoll, callback, newStatus, job>>

SlowPoll ==
  /\ poll = "slow"
  /\ fastPoll' = FALSE
  /\ poll' = "read"
  /\ UNCHANGED <<smVars, statusVars, resetFastPoll, callback, newStatus, job>>

PollRead ==
  /\ poll = "read"
  /\ ReadStatus(Poller)
  /\ poll' = "announce"
  /\ UNCHANGED <<smVars, status, idleStatus, published, fastVars, callback,
                 newStatus, job>>

\* Slip: the accessLock is kept.
PollAnnounceLocked ==
  /\ poll = "announce"
  /\ Announce(Poller, TRUE)
  /\ poll' = "wait"
  /\ UNCHANGED <<smVars, status, idleStatus, seen, fastVars, callback,
                 newStatus, job>>

PollAnnounce ==
  /\ poll = "announce"
  /\ Announce(Poller, FALSE)
  /\ poll' = "wait"
  /\ UNCHANGED <<smVars, status, idleStatus, seen, fastVars, callback,
                 newStatus, job>>

-----------------------------------------------------------------------------
(* start_machine and stop_machine.                                         *)

Goto(t, label) == job' = [job EXCEPT ![t].pc = label]

\* The requests made, and the calls which have yet to make theirs.
Made ==
  issued + Cardinality({t \in Callers : job[t].pc \in {"busy", "restarting",
                         "restatus", "start", "idleStatus", "stop"}})

\* Called from a write_<param> method, which holds the accessLock, or without.
CallStart(t, f, fast, locked) ==
  /\ job[t].pc = "none"
  /\ Made < MaxStarts
  /\ locked => lock = None
  /\ lock' = IF locked THEN t ELSE lock
  /\ job' = [job EXCEPT ![t] = [pc |-> "busy", func |-> f, fast |-> fast,
                               locked |-> locked, code |-> "none"]]
  /\ UNCHANGED <<smVars, status, idleStatus, published, seen, fastVars,
                 pollerVars>>

\* The status before the first state.
StartBusy(t) ==
  /\ job[t].pc = "busy"
  /\ status' = GetStatus(job[t].func, "BUSY")
  /\ Goto(t, "restarting")
  /\ UNCHANGED <<smVars, idleStatus, published, seen, lock, fastVars, pollerVars>>

\* ... or the one given with the call.
StartGiven(t) ==
  /\ job[t].pc = "busy"
  /\ status' = Given
  /\ Goto(t, "start")
  /\ UNCHANGED <<smVars, idleStatus, published, seen, lock, fastVars, pollerVars>>

\* if sm.statefunc: sm.status = sm.status[0], 'restarting'
StartCheckRestart(t) ==
  /\ job[t].pc = "restarting"
  /\ Goto(t, IF statefunc = None THEN "start" ELSE "restatus")
  /\ UNCHANGED <<smVars, statusVars, fastVars, pollerVars>>

StartRestarting(t) ==
  /\ job[t].pc = "restatus"
  /\ status' = <<status[1], "restarting">>
  /\ Goto(t, "start")
  /\ UNCHANGED <<smVars, idleStatus, published, seen, lock, fastVars, pollerVars>>

StartRequest(t) ==
  /\ job[t].pc = "start"
  /\ SM!Start(job[t].func, TRUE)
  /\ Goto(t, "read")
  /\ UNCHANGED <<statusVars, fastVars, pollerVars>>

\* read_status, for start_machine and stop_machine.
JobRead(t) ==
  /\ job[t].pc = "read"
  /\ ReadStatus(t)
  /\ Goto(t, "announce")
  /\ UNCHANGED <<smVars, status, idleStatus, published, fastVars, pollerVars>>

JobAnnounce(t) ==
  /\ job[t].pc = "announce"
  /\ Announce(t, job[t].locked)
  /\ Goto(t, IF job[t].fast THEN "flag" ELSE "return")
  /\ UNCHANGED <<smVars, status, idleStatus, seen, fastVars, pollerVars>>

StartFlag(t) ==
  /\ job[t].pc = "flag"
  /\ resetFastPoll' = TRUE
  /\ Goto(t, "fast")
  /\ UNCHANGED <<smVars, statusVars, fastPoll, pollerVars>>

StartFast(t) ==
  /\ job[t].pc = "fast"
  /\ fastPoll' = TRUE
  /\ Goto(t, "return")
  /\ UNCHANGED <<smVars, statusVars, resetFastPoll, pollerVars>>

\* The poller is triggered and the call returns.
Return(t) ==
  /\ job[t].pc = "return"
  /\ lock' = IF job[t].locked THEN None ELSE lock
  /\ job' = [job EXCEPT ![t] = NoJob]
  /\ UNCHANGED <<smVars, status, idleStatus, published, seen, fastVars,
                 pollerVars>>

\* The stop command: nothing is done when the machine is not active.
CallStop(t) ==
  /\ job[t].pc = "none"
  /\ Made < MaxRequests
  /\ statefunc # None
  /\ job' = [job EXCEPT ![t] = [NoJob EXCEPT !.pc = "idleStatus"]]
  /\ UNCHANGED <<smVars, statusVars, fastVars, pollerVars>>

StopSetIdleStatus(t) ==
  /\ job[t].pc = "idleStatus"
  /\ idleStatus' = Stopped
  /\ Goto(t, "stop")
  /\ UNCHANGED <<smVars, status, published, seen, lock, fastVars, pollerVars>>

StopRequest(t) ==
  /\ job[t].pc = "stop"
  /\ SM!Stop
  /\ Goto(t, "code")
  /\ UNCHANGED <<statusVars, fastVars, pollerVars>>

\* sm.status = self.get_status(sm.statefunc, sm.status[0])[0], 'stopping'
StopGetCode(t) ==
  /\ job[t].pc = "code"
  /\ job' = [job EXCEPT ![t].pc = "stopping",
                        ![t].code = GetStatus(statefunc, status[1])[1]]
  /\ UNCHANGED <<smVars, statusVars, fastVars, pollerVars>>

\* Slip: text and code in the wrong order.
StopStoppingSwapped(t) ==
  /\ job[t].pc = "stopping"
  /\ status' = <<"stopping", job[t].code>>
  /\ Goto(t, "read")
  /\ UNCHANGED <<smVars, idleStatus, published, seen, lock, fastVars, pollerVars>>

StopStopping(t) ==
  /\ job[t].pc = "stopping"
  /\ status' = <<job[t].code, "stopping">>
  /\ Goto(t, "read")
  /\ UNCHANGED <<smVars, idleStatus, published, seen, lock, fastVars, pollerVars>>

-----------------------------------------------------------------------------

PollerStep ==
  \/ DoPoll \/ PlainStep \/ Finish \/ CleanUp
  \/ TransitionChoose \/ TransitionStart \/ TransitionRaises
  \/ TransitionWrite \/ TransitionRead \/ TransitionAnnounce \/ TransitionReturn
  \/ CheckFastPoll \/ SlowPoll \/ PollRead \/ PollAnnounce

JobStep(t) ==
  \/ StartBusy(t) \/ StartGiven(t) \/ StartCheckRestart(t) \/ StartRestarting(t)
  \/ StartRequest(t) \/ StartFlag(t) \/ StartFast(t)
  \/ StopSetIdleStatus(t) \/ StopRequest(t) \/ StopGetCode(t) \/ StopStopping(t)
  \/ JobRead(t) \/ JobAnnounce(t) \/ Return(t)

Next ==
  \/ PollerStep
  \/ \E t \in Callers :
       \/ \E f \in StateFuncs, fast \in BOOLEAN, locked \in BOOLEAN :
            CallStart(t, f, fast, locked)
       \/ CallStop(t)
       \/ JobStep(t)

\* The poll thread keeps polling, and between two polls it waits for its
\* trigger with the accessLock free: who waits for the lock gets it at last.
\* Cleanup sequences come to an end (see StateMachine).
Fairness ==
  /\ WF_vars(PollerStep)
  /\ \A t \in Callers : SF_vars(JobStep(t))
  /\ SF_vars(reason # "none" /\ Finish)

SafetySpec == Init /\ [][Next]_vars
Spec == SafetySpec /\ Fairness

-----------------------------------------------------------------------------
(* Properties.                                                             *)

Places == {"none", "busy", "restarting", "restatus", "start", "read", "announce",
           "flag", "fast", "return", "idleStatus", "stop", "code", "stopping"}
Jobs == [pc : Places, func : StateFuncs \cup {None}, fast : BOOLEAN,
         locked : BOOLEAN, code : Codes]

\* Every variable stays within its range.
TypeOK ==
  /\ SM!TypeOK
  /\ status \in Statuses /\ idleStatus \in Statuses
  /\ published \in Statuses /\ newStatus \in Statuses
  /\ seen \in [Threads -> Statuses]
  /\ lock \in Threads \cup {None}
  /\ resetFastPoll \in BOOLEAN /\ fastPoll \in BOOLEAN
  /\ poll \in {"wait", "cycle", "slow", "read", "announce"}
  /\ callback \in {"none", "next", "write", "read", "announce", "done"}
  /\ job \in [Callers -> Jobs]

\* Some thread has changed the status and not yet read it for the clients, or
\* has read what it is now and is about to announce it.
WillAnnounce ==
  \/ callback = "read"
  \/ callback = "announce" /\ seen[Poller] = status
  \/ poll = "announce" /\ seen[Poller] = status
  \/ \E t \in Callers :
       \/ job[t].pc \in {"restarting", "restatus", "start", "read"}
       \/ job[t].pc = "announce" /\ seen[t] = status

\* No status change is lost on the way to the clients, in whatever order the
\* threads change it and announce it: as long as the announced status differs
\* from the one of the machine, some thread still has to read and announce it.
AnnouncedStatusCatchesUp ==
  published # status => WillAnnounce

\* See StateMachine; here with cycles broken off by the transition callback.
CleanupOncePerRun == SM!CleanupOncePerRun

\* Nobody is doing anything with the machine.
Quiet == poll = "wait" /\ \A t \in Callers : job[t].pc = "none"
Finished == Quiet /\ statefunc = None /\ nextTask.kind = "none"

\* stop_machine: "the predefined cleanup sequence is executed and then the
\* status is set to the value given in the sopped_status argument": a machine
\* at rest is shown neither as busy nor as stopping.
RestIsShown == Finished => status[1] # "BUSY" /\ status[2] # "stopping"

\* status_code: "a state function without attached status does not change the
\* status, or, if it is used as the start function, BUSY is taken as default":
\* here no state function has the status IDLE, so no running machine has.
RunningIsNotIdle == Quiet /\ statefunc # None => status[1] # "IDLE"

\* start_machine: "fast_poll: flag to indicate that polling has to switched to
\* fast": polling is fast until the machine has reset it.
FastPollHolds == Quiet /\ resetFastPoll => fastPoll

\* StateMachine: "The current task is interrupted, the cleanup sequence is
\* called, and the machine finishes": the state function called is always the
\* one _new_state was called with last.
StateIsCurrent == pc = "call" => statefunc = goal

\* Every call of start_machine and stop_machine returns.
CallsReturn == \A t \in Callers : job[t].pc # "none" ~> job[t].pc = "none"
=============================================================================
