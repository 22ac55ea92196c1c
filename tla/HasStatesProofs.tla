--------------------------- MODULE HasStatesProofs ---------------------------
(***************************************************************************)
(* The status announced by a module with HasStates (HasStates.tla), for    *)
(* any number of calling threads, state functions and requests.            *)
(*                                                                         *)
(* The argument: the accessLock belongs to who has read the status and not *)
(* yet announced it, so at most one thread has a status in its hands.  If  *)
(* this one is no longer the status of the machine, a thread changed it    *)
(* afterwards, and every thread which changes the status reads it again    *)
(* before it does anything else: its reading is still to come.  Without    *)
(* all_status_changes the last part fails for the poll thread.             *)
(***************************************************************************)
EXTENDS HasStates, TLAPS

\* The poll thread is within state_transition only in the transition step of
\* the cycle, and the cycle is run only by cycle_machine.
InCycle ==
  /\ pc # "idle" => poll = "cycle"
  /\ callback # "none" => pc = "transition"

\* Who has read the status and not announced it, or was called with the
\* accessLock, holds it.
LockHeld ==
  /\ callback = "announce" \/ poll = "announce" => lock = Poller
  /\ \A t \in Callers :
       job[t].pc # "none" /\ (job[t].locked \/ job[t].pc = "announce") => lock = t

\* Some thread is between its last change of the status and its reading.
Pending ==
  \/ callback = "read"
  \/ \E t \in Callers : job[t].pc \in {"restarting", "restatus", "start", "read"}

\* A status read and not yet announced is the one of the machine, or will be
\* followed by an other one.
ReadIsCurrent ==
  /\ (callback = "announce" \/ poll = "announce") /\ seen[Poller] # status => Pending
  /\ \A t \in Callers : job[t].pc = "announce" /\ seen[t] # status => Pending

Inv == TypeOK /\ InCycle /\ LockHeld /\ ReadIsCurrent /\ AnnouncedStatusCatchesUp

-----------------------------------------------------------------------------
(* Types.                                                                  *)

\* The transition callback raises and breaks off the cycle.
BrokenOff ==
  /\ pc' = "idle"
  /\ UNCHANGED <<statefunc, nextTask, cleanup, reason, init, pass, loops, goal, then,
                 action, issued, served, run, cleanups>>

\* What may happen to the machine.
MachineStep ==
  \/ SM!Cycle \/ SM!CycleStep \/ SM!Stop \/ BrokenOff \/ UNCHANGED smVars
  \/ \E f \in StateFuncs \cup {None} : SM!Start(f, TRUE)

\* The machine is driven by its own operations only; but a cycle may be broken
\* off.
LEMMA MachineIsDriven ==
  ASSUME TypeOK, [Next]_vars PROVE MachineStep
<1> USE DEF MachineStep
<1>1. CASE UNCHANGED vars
  BY <1>1 DEF vars
<1>2. ASSUME PollerStep PROVE MachineStep
  BY <1>2 DEF PollerStep, DoPoll, PlainStep, Finish, CleanUp, TransitionChoose,
              TransitionStart, TransitionRaises, TransitionWrite, TransitionRead,
              TransitionAnnounce, TransitionReturn, CheckFastPoll, SlowPoll, PollRead,
              PollAnnounce, BrokenOff, SM!CycleStep, SM!Call
<1>3. ASSUME NEW t \in Callers, JobStep(t) PROVE MachineStep
  <2>1. job[t].func \in StateFuncs \cup {None}
    BY DEF TypeOK, Jobs
  <2> QED
    BY <1>3, <2>1 DEF JobStep, StartBusy, StartGiven, StartCheckRestart, StartRestarting,
              StartRequest, StartFlag, StartFast, StopSetIdleStatus, StopRequest,
              StopGetCode, StopStopping, JobRead, JobAnnounce, Return
<1> QED
  BY <1>1, <1>2, <1>3 DEF Next, CallStart, CallStop

\* The number of cleanup functions called depends only on the steps which call one
\* and on those which begin a run.
LEMMA MachineKeeps ==
  ASSUME SM!TypeOK, MachineStep
  PROVE  SM!TypeOK' /\ (CleanupOncePerRun => CleanupOncePerRun')
<1> DEFINE Goal == SM!TypeOK' /\ (CleanupOncePerRun => CleanupOncePerRun')
<1> USE MachineAssumption DEF CleanupOncePerRun, SM!CleanupOncePerRun
<1>1. CASE UNCHANGED smVars
  BY <1>1 DEF smVars, SM!TypeOK
<1>2. CASE BrokenOff
  BY <1>2 DEF BrokenOff, SM!TypeOK
<1>3. ASSUME NEW task, SM!Request(task),
             task \in [kind : {"Start", "Stop"}, id : {issued + 1},
                       func : StateFuncs \cup {None}, cleanup : BOOLEAN]
      PROVE  Goal
  BY <1>3 DEF SM!Request, SM!TypeOK, SM!Tasks, SM!cycleVars
<1>4. CASE SM!Cycle
  BY <1>4 DEF SM!Cycle, SM!TypeOK
<1>5. CASE SM!NextPass
  BY <1>5 DEF SM!NextPass, SM!TypeOK
<1>6. ASSUME NEW why \in {"Start", "Stop", "Error"}, NEW ret \in StateFuncs \cup {None},
             NEW next \in {"loop", "pass"}, SM!Cleanup(why, ret, next),
             init' \in BOOLEAN, loops' \in 0 .. MaxLoops,
             UNCHANGED <<statefunc, pass, action, served, run, nextTask, issued>>
      PROVE  Goal
  BY <1>6 DEF SM!Cleanup, SM!NewState, SM!TypeOK
<1>7. CASE SM!Interrupt
  <2>1. nextTask.kind \in {"Start", "Stop"} /\ loops + 1 \in 0 .. MaxLoops
    BY <1>7 DEF SM!Interrupt, SM!Interrupted, SM!TypeOK, SM!Tasks
  <2> QED
    BY <1>6, <1>7, <2>1 DEF SM!Interrupt, SM!TypeOK
<1>8. CASE SM!EnterState
  BY <1>8 DEF SM!EnterState, SM!TypeOK
<1>9. CASE SM!TooManyStates
  BY <1>6, <1>9 DEF SM!TooManyStates, SM!TypeOK
<1>10. CASE SM!Call
  <2>1. ASSUME NEW returned \in BOOLEAN, SM!CallFail(returned) PROVE Goal
    BY <1>6, <2>1 DEF SM!CallFail, SM!TypeOK
  <2>2. CASE SM!CallRetry
    BY <2>2 DEF SM!CallRetry, SM!TypeOK
  <2>3. ASSUME NEW drop \in BOOLEAN, SM!CallFinish(drop) PROVE Goal
    <3>1. CASE drop
      <4>1. /\ cleanup' = 0 /\ init' = FALSE
            /\ pc' = "transition" /\ goal' = None /\ then' = "task"
            /\ UNCHANGED <<statefunc, reason, pass, loops, action, served, run, cleanups,
                           nextTask, issued>>
        BY <2>3, <3>1 DEF SM!CallFinish, SM!NewState
      <4>2. 0 \in 0 .. MaxRequests
        OBVIOUS
      <4>3. cleanup' \in 0 .. MaxRequests /\ init' \in BOOLEAN
        BY <4>1, <4>2
      <4>4. cleanups' \in Nat /\ run' \in 0 .. MaxRequests /\ goal' \in StateFuncs \cup {None}
        BY <4>1 DEF SM!TypeOK
      <4>5. SM!TypeOK'
        BY <4>1, <4>3, <4>4 DEF SM!TypeOK
      <4> QED
        BY <4>1, <4>5 DEF SM!TypeOK
    <3>2. CASE ~drop
      BY <2>3, <3>2 DEF SM!CallFinish, SM!NewState, SM!TypeOK
    <3> QED
      BY <3>1, <3>2
  <2>4. ASSUME NEW f \in StateFuncs, SM!CallNext(f) PROVE Goal
    BY <2>4 DEF SM!CallNext, SM!NewState, SM!TypeOK
  <2> QED
    BY <1>10, <2>1, <2>2, <2>3, <2>4 DEF SM!Call
<1>11. CASE SM!Transition
  BY <1>11 DEF SM!Transition, SM!TypeOK
<1>12. CASE SM!Assign
  BY <1>12 DEF SM!Assign, SM!TypeOK
<1>13. CASE SM!Begin
  BY <1>13 DEF SM!Begin, SM!TypeOK, SM!Tasks
<1>14. CASE SM!NoRequest
  BY <1>14 DEF SM!NoRequest, SM!TypeOK
<1>15. CASE SM!TakeRequest
  BY <1>15 DEF SM!TakeRequest, SM!NewState, SM!TypeOK, SM!Tasks, SM!NoTask
<1>16. ASSUME NEW f \in StateFuncs \cup {None}, SM!Start(f, TRUE) PROVE Goal
  BY <1>3, <1>16 DEF SM!Start
<1>17. CASE SM!Stop
  BY <1>3, <1>17 DEF SM!Stop
<1> QED
  BY <1>1, <1>2, <1>4, <1>5, <1>7, <1>8, <1>9, <1>10, <1>11, <1>12, <1>13, <1>14,
     <1>15, <1>16, <1>17 DEF MachineStep, SM!CycleStep

LEMMA StatusTypes ==
  /\ {NoStatus, Idle, Stopped, Final, Given, Failed} \subseteq Statuses
  /\ \A code \in Codes, text \in Texts : <<code, text>> \in Statuses
  /\ \A s \in Statuses : s[1] \in Codes /\ s[2] \in Texts
  /\ StateFuncs \subseteq Texts
<1>1. \A code \in Codes, text \in Texts : <<code, text>> \in Statuses
  BY DEF Statuses
<1>2. \A s \in Statuses : s[1] \in Codes /\ s[2] \in Texts
  BY DEF Statuses
<1>3. {"IDLE", "BUSY", "ERROR", "none"} \subseteq Codes
      /\ {"", "stopped", "final", "error", "given", "none"} \subseteq Texts
      /\ StateFuncs \subseteq Texts
  BY DEF Codes, Texts
<1>4. {NoStatus, Idle, Stopped, Final, Given, Failed} \subseteq Statuses
  BY <1>1, <1>3 DEF NoStatus, Idle, Stopped, Final, Given, Failed
<1> QED
  BY <1>1, <1>2, <1>3, <1>4

LEMMA GetStatusType ==
  ASSUME idleStatus \in Statuses, NEW f \in StateFuncs \cup {None}, NEW default \in Codes
  PROVE  GetStatus(f, default) \in Statuses
<1>1. CASE f = None
  BY <1>1, MachineAssumption, StatusAssumption DEF GetStatus
<1>2. CASE f # None /\ f \in WithStatus
  BY <1>2, StatusTypes DEF GetStatus, Codes
<1>3. CASE f # None /\ f \notin WithStatus
  BY <1>3, StatusTypes DEF GetStatus
<1> QED
  BY <1>1, <1>2, <1>3

LEMMA TypeStep ==
  ASSUME TypeOK, [Next]_vars PROVE TypeOK'
<1>0. SM!TypeOK' /\ goal \in StateFuncs \cup {None} /\ statefunc \in StateFuncs \cup {None}
      /\ nextTask.func \in StateFuncs \cup {None}
  BY MachineIsDriven, MachineKeeps DEF TypeOK, SM!TypeOK, SM!Tasks
<1> DEFINE Flags == /\ resetFastPoll' \in BOOLEAN /\ fastPoll' \in BOOLEAN
                    /\ poll' \in {"wait", "cycle", "slow", "read", "announce"}
                    /\ callback' \in {"none", "next", "write", "read", "announce", "done"}
           Shown == /\ status' \in Statuses /\ idleStatus' \in Statuses
                    /\ published' \in Statuses /\ newStatus' \in Statuses
                    /\ seen' \in [Threads -> Statuses]
                    /\ lock' \in Threads \cup {None}
           Asked == job' \in [Callers -> Jobs]
           Goal == Flags /\ Shown /\ Asked
<1> USE StatusAssumption DEF pollerVars, statusVars, fastVars
<1>1. ASSUME UNCHANGED vars PROVE Goal
  BY <1>1 DEF vars, TypeOK
<1>2. ASSUME PollerStep PROVE Goal
  <2>1. CASE DoPoll \/ PlainStep
    BY <2>1 DEF DoPoll, PlainStep, TypeOK
  <2>2. CASE Finish \/ CleanUp
    <3>1. idleStatus' \in Statuses
      BY <2>2, StatusTypes DEF Finish, CleanUp, TypeOK
    <3> QED
      BY <2>2, <3>1 DEF Finish, CleanUp, TypeOK
  <2>3. CASE TransitionChoose
    <3>1. Chosen \in Statuses
      <4> DEFINE plain == GetStatus(goal, "none")
      <4>1. plain \in Statuses /\ status \in Statuses
        BY <1>0, GetStatusType DEF TypeOK, Codes
      <4>2. <<plain[1], "stopping">> \in Statuses /\ <<status[1], "restarting">> \in Statuses
        BY <4>1, StatusTypes DEF Texts
      <4>3. NoStatus \in Statuses
        BY StatusTypes
      <4> HIDE DEF plain
      <4> QED
        BY <4>1, <4>2, <4>3 DEF Chosen, plain
    <3> QED
      BY <2>3, <3>1 DEF TransitionChoose, TypeOK
  <2>4. CASE TransitionStart
    <3>1. GetStatus(nextTask.func, "BUSY") \in Statuses
      BY <1>0, GetStatusType DEF TypeOK, Codes
    <3> QED
      BY <2>4, <3>1 DEF TransitionStart, TypeOK
  <2>5. CASE TransitionRaises
    BY <2>5 DEF TransitionRaises, TypeOK
  <2>6. CASE TransitionWrite
    BY <2>6 DEF TransitionWrite, TypeOK
  <2>7. CASE TransitionRead \/ PollRead
    BY <2>7 DEF TransitionRead, PollRead, ReadStatus, TypeOK, Threads
  <2>8. CASE TransitionAnnounce \/ PollAnnounce
    BY <2>8 DEF TransitionAnnounce, PollAnnounce, Announce, TypeOK, Threads
  <2>9. CASE TransitionReturn
    BY <2>9, StatusTypes DEF TransitionReturn, TypeOK
  <2>10. CASE CheckFastPoll \/ SlowPoll
    BY <2>10 DEF CheckFastPoll, SlowPoll, TypeOK
  <2> QED
    BY <1>2, <2>1, <2>2, <2>3, <2>4, <2>5, <2>6, <2>7, <2>8, <2>9, <2>10 DEF PollerStep
<1>3. ASSUME NEW t \in Callers, NEW f \in StateFuncs, NEW fast \in BOOLEAN,
             NEW locked \in BOOLEAN, CallStart(t, f, fast, locked)
      PROVE  Goal
  BY <1>3 DEF CallStart, TypeOK, Jobs, Places, Codes, Threads
<1>4. ASSUME NEW t \in Callers, CallStop(t) PROVE Goal
  BY <1>4 DEF CallStop, TypeOK, NoJob, Jobs, Places, Codes
<1>5. ASSUME NEW t \in Callers, JobStep(t) PROVE Goal
  <2>1. CASE StartBusy(t)
    <3>1. GetStatus(job[t].func, "BUSY") \in Statuses
      BY GetStatusType DEF TypeOK, Jobs, Codes
    <3> QED
      BY <2>1, <3>1 DEF StartBusy, Goto, TypeOK, Jobs, Places
  <2>2. CASE StartGiven(t) \/ StartRestarting(t) \/ StopSetIdleStatus(t)
    <3>1. {Given, Stopped, <<status[1], "restarting">>} \subseteq Statuses
      BY StatusTypes DEF TypeOK, Texts
    <3> QED
      BY <2>2, <3>1 DEF StartGiven, StartRestarting, StopSetIdleStatus, Goto, TypeOK,
                        Jobs, Places
  <2>3. CASE StartCheckRestart(t) \/ StartRequest(t) \/ StopRequest(t) \/ StartFlag(t)
             \/ StartFast(t)
    <3>1. \E place \in Places : Goto(t, place)
      BY <2>3 DEF StartCheckRestart, StartRequest, StopRequest, StartFlag, StartFast, Places
    <3>2. Asked
      BY <3>1 DEF Goto, TypeOK, Jobs
    <3>3. resetFastPoll' \in BOOLEAN /\ fastPoll' \in BOOLEAN
      BY <2>3 DEF StartCheckRestart, StartRequest, StopRequest, StartFlag, StartFast, TypeOK
    <3>4. UNCHANGED <<statusVars, pollerVars>>
      BY <2>3 DEF StartCheckRestart, StartRequest, StopRequest, StartFlag, StartFast
    <3> QED
      BY <3>2, <3>3, <3>4 DEF TypeOK
  <2>4. CASE StopGetCode(t)
    <3>1. GetStatus(statefunc, status[1])[1] \in Codes
      BY <1>0, GetStatusType, StatusTypes DEF TypeOK
    <3> QED
      BY <2>4, <3>1 DEF StopGetCode, TypeOK, Jobs, Places
  <2>5. CASE StopStopping(t)
    <3>1. <<job[t].code, "stopping">> \in Statuses
      BY StatusTypes DEF TypeOK, Jobs, Texts
    <3> QED
      BY <2>5, <3>1 DEF StopStopping, Goto, TypeOK, Jobs, Places
  <2>6. CASE JobRead(t)
    BY <2>6 DEF JobRead, ReadStatus, Goto, TypeOK, Jobs, Places, Threads
  <2>7. CASE JobAnnounce(t)
    BY <2>7 DEF JobAnnounce, Announce, Goto, TypeOK, Jobs, Places, Threads
  <2>8. CASE Return(t)
    BY <2>8 DEF Return, NoJob, TypeOK, Jobs, Places, Codes
  <2> QED
    BY <1>5, <2>1, <2>2, <2>3, <2>4, <2>5, <2>6, <2>7, <2>8 DEF JobStep
<1>6. Goal
  <2> HIDE DEF Goal
  <2> QED
    BY <1>1, <1>2, <1>3, <1>4, <1>5 DEF Next
<1> QED
  BY <1>0, <1>6 DEF TypeOK

-----------------------------------------------------------------------------
(* The announcements.                                                      *)

\* By kind of step: most of them touch neither the status, nor the lock, nor who is
\* about to announce it.
LEMMA InvStep ==
  ASSUME Inv, [Next]_vars, AllStatusChanges PROVE Inv'
<1> DEFINE Shared == LockHeld /\ ReadIsCurrent /\ AnnouncedStatusCatchesUp
           Goal == InCycle' /\ Shared'
<1>0. /\ TypeOK /\ InCycle /\ LockHeld /\ ReadIsCurrent /\ AnnouncedStatusCatchesUp
      /\ job \in [Callers -> Jobs] /\ seen \in [Threads -> Statuses]
  BY DEF Inv, TypeOK
<1>a. \A t \in Callers : t # Poller /\ t # None /\ t \in Threads
  BY ThreadsAssumption DEF Threads
<1>b. Poller # None /\ Poller \in Threads
  BY ThreadsAssumption DEF Threads
<1> USE DEF pollerVars, statusVars, fastVars
<1>1. ASSUME UNCHANGED vars PROVE Goal
  BY <1>0, <1>1 DEF vars, smVars, InCycle, LockHeld, ReadIsCurrent, Pending,
              AnnouncedStatusCatchesUp, WillAnnounce
<1>2. ASSUME UNCHANGED <<status, published, seen, lock, job>>,
             callback' = callback \/ {callback, callback'} \cap {"read", "announce"} = {},
             poll' = poll \/ {poll, poll'} \cap {"announce"} = {}
      PROVE  Shared'
  BY <1>0, <1>2 DEF LockHeld, ReadIsCurrent, Pending, AnnouncedStatusCatchesUp,
              WillAnnounce
<1>3. ASSUME PollerStep PROVE Goal
  <2>1. CASE PlainStep \/ Finish \/ CleanUp
    <3>1. pc \notin {"idle", "transition"}
          /\ UNCHANGED <<status, published, seen, lock, job, poll, callback>>
      BY <2>1 DEF PlainStep, Finish, CleanUp, SM!NextPass, SM!EnterState, SM!CallRetry,
                  SM!Assign, SM!Begin, SM!NoRequest, SM!TakeRequest, SM!CallNext,
                  SM!CallFinish, SM!Interrupt, SM!TooManyStates, SM!CallFail
    <3>2. InCycle'
      BY <1>0, <3>1 DEF InCycle
    <3> QED
      BY <1>2, <3>1, <3>2
  <2>2. CASE DoPoll
    <3>1. InCycle'
      BY <1>0, <2>2 DEF DoPoll, SM!Cycle, InCycle
    <3>2. Shared'
      BY <1>2, <2>2 DEF DoPoll
    <3> QED
      BY <3>1, <3>2
  <2>3. CASE TransitionChoose \/ TransitionStart \/ TransitionRaises \/ TransitionReturn
    <3>1. InCycle'
      BY <1>0, <2>3 DEF TransitionChoose, TransitionStart, TransitionRaises,
                        TransitionReturn, SM!Transition, InCycle, smVars
    <3>2. Shared'
      BY <1>2, <2>3 DEF TransitionChoose, TransitionStart, TransitionRaises,
                        TransitionReturn
    <3> QED
      BY <3>1, <3>2
  <2>4. CASE TransitionWrite
    BY <1>0, <2>4 DEF TransitionWrite, smVars, InCycle, LockHeld, ReadIsCurrent, Pending,
                      AnnouncedStatusCatchesUp, WillAnnounce
  <2>5. CASE TransitionRead
    BY <1>0, <1>a, <1>b, <2>5 DEF TransitionRead, ReadStatus, smVars, InCycle, LockHeld,
         ReadIsCurrent, Pending, AnnouncedStatusCatchesUp, WillAnnounce
  <2>6. CASE TransitionAnnounce
    BY <1>0, <1>a, <1>b, <2>6 DEF TransitionAnnounce, Announce, smVars, InCycle, LockHeld,
         ReadIsCurrent, Pending, AnnouncedStatusCatchesUp, WillAnnounce
  <2>7. CASE CheckFastPoll \/ SlowPoll
    <3>1. InCycle'
      BY <1>0, <2>7 DEF CheckFastPoll, SlowPoll, InCycle, smVars
    <3>2. Shared'
      BY <1>2, <2>7 DEF CheckFastPoll, SlowPoll
    <3> QED
      BY <3>1, <3>2
  <2>8. CASE PollRead
    BY <1>0, <1>a, <1>b, <2>8 DEF PollRead, ReadStatus, smVars, InCycle, LockHeld,
         ReadIsCurrent, Pending, AnnouncedStatusCatchesUp, WillAnnounce
  <2>9. CASE PollAnnounce
    BY <1>0, <1>a, <1>b, <2>9 DEF PollAnnounce, Announce, smVars, InCycle, LockHeld,
         ReadIsCurrent, Pending, AnnouncedStatusCatchesUp, WillAnnounce
  <2> QED
    BY <1>3, <2>1, <2>2, <2>3, <2>4, <2>5, <2>6, <2>7, <2>8, <2>9 DEF PollerStep
<1>4. ASSUME NEW t \in Callers, JobStep(t) \/ CallStop(t)
             \/ \E f \in StateFuncs, fast \in BOOLEAN, locked \in BOOLEAN :
                  CallStart(t, f, fast, locked)
      PROVE  Goal
  <2>0. InCycle'
    <3>1. UNCHANGED <<pc, poll, callback>>
      BY <1>4 DEF JobStep, CallStop, CallStart, StartBusy, StartGiven, StartCheckRestart,
           StartRestarting, StartRequest, StartFlag, StartFast, StopSetIdleStatus,
           StopRequest, StopGetCode, StopStopping, JobRead, JobAnnounce, Return,
           SM!Start, SM!Stop, SM!Request, SM!cycleVars, smVars
    <3> QED
      BY <1>0, <3>1 DEF InCycle
  <2> SUFFICES Shared'
    BY <2>0
  <2>1. ASSUME NEW f \in StateFuncs, NEW fast \in BOOLEAN, NEW locked \in BOOLEAN,
               CallStart(t, f, fast, locked)
        PROVE  Shared'
    BY <1>0, <1>a, <1>b, <2>1 DEF CallStart, LockHeld, ReadIsCurrent, Pending,
         AnnouncedStatusCatchesUp, WillAnnounce
  <2>2. ASSUME job' = [job EXCEPT ![t].pc = job'[t].pc],
               UNCHANGED <<published, seen, lock, poll, callback>>,
               job[t].pc # "none", job[t].pc # "announce", job'[t].pc # "announce",
               status' = status
                 \/ job'[t].pc \in {"restarting", "restatus", "start", "read"},
               job[t].pc \in {"restarting", "restatus", "start", "read"}
                 => job'[t].pc \in {"restarting", "restatus", "start", "read"}
        PROVE  Shared'
    BY <1>0, <2>2 DEF LockHeld, ReadIsCurrent, Pending, AnnouncedStatusCatchesUp,
         WillAnnounce, Jobs
  <2>3. CASE StartBusy(t) \/ StartGiven(t) \/ StartCheckRestart(t) \/ StartRestarting(t)
             \/ StartRequest(t) \/ StartFlag(t) \/ StartFast(t) \/ StopSetIdleStatus(t)
             \/ StopRequest(t) \/ StopStopping(t)
    BY <1>0, <2>2, <2>3 DEF StartBusy, StartGiven, StartCheckRestart, StartRestarting,
         StartRequest, StartFlag, StartFast, StopSetIdleStatus, StopRequest, StopStopping,
         Goto, Jobs
  <2>4. CASE StopGetCode(t)
    BY <1>0, <2>4 DEF StopGetCode, LockHeld, ReadIsCurrent, Pending,
         AnnouncedStatusCatchesUp, WillAnnounce, Jobs
  <2>5. CASE CallStop(t)
    BY <1>0, <2>5 DEF CallStop, NoJob, LockHeld, ReadIsCurrent, Pending,
         AnnouncedStatusCatchesUp, WillAnnounce, Jobs
  <2>6. CASE JobRead(t)
    BY <1>0, <1>a, <1>b, <2>6 DEF JobRead, ReadStatus, Goto, LockHeld, ReadIsCurrent,
         Pending, AnnouncedStatusCatchesUp, WillAnnounce, Jobs
  <2>7. CASE JobAnnounce(t)
    BY <1>0, <1>a, <1>b, <2>7 DEF JobAnnounce, Announce, Goto, LockHeld, ReadIsCurrent,
         Pending, AnnouncedStatusCatchesUp, WillAnnounce, Jobs
  <2>8. CASE Return(t)
    BY <1>0, <1>a, <1>b, <2>8 DEF Return, NoJob, LockHeld, ReadIsCurrent, Pending,
         AnnouncedStatusCatchesUp, WillAnnounce, Jobs
  <2> QED
    BY <1>4, <2>0, <2>1, <2>3, <2>4, <2>5, <2>6, <2>7, <2>8 DEF JobStep
<1>5. TypeOK'
  BY <1>0, TypeStep
<1>6. Goal
  <2> HIDE DEF Goal
  <2> QED
    BY <1>1, <1>3, <1>4 DEF Next
<1> QED
  BY <1>5, <1>6 DEF Inv

LEMMA InitInv == Init => Inv /\ CleanupOncePerRun
<1> SUFFICES ASSUME Init PROVE Inv /\ CleanupOncePerRun
  OBVIOUS
<1> USE DEF Init, SM!Init
<1>1. SM!TypeOK /\ CleanupOncePerRun
  BY MachineAssumption DEF SM!TypeOK, SM!Tasks, SM!NoTask, CleanupOncePerRun,
     SM!CleanupOncePerRun
<1>2. seen \in [Threads -> Statuses] /\ job \in [Callers -> Jobs]
  BY StatusTypes DEF NoJob, Jobs, Places, Codes
<1>3. TypeOK
  BY <1>1, <1>2, StatusTypes DEF TypeOK
<1>4. InCycle /\ LockHeld /\ ReadIsCurrent /\ AnnouncedStatusCatchesUp
  BY <1>2 DEF InCycle, LockHeld, ReadIsCurrent, AnnouncedStatusCatchesUp, NoJob
<1> QED
  BY <1>3, <1>4, <1>1 DEF Inv

\* Types: whatever order the threads change the status in, it is made of a code and
\* a text, and the state machine shared without a lock keeps its types.
THEOREM TypeCorrect == SafetySpec => []TypeOK
<1>1. Init => TypeOK
  BY InitInv DEF Inv
<1>2. TypeOK /\ [Next]_vars => TypeOK'
  BY TypeStep
<1> QED
  BY <1>1, <1>2, PTL DEF SafetySpec

\* No status change is lost on the way to the clients: with all_status_changes, as
\* the code has it unless a module says otherwise, an announced status which is not
\* the one of the machine will be followed by an other announcement, in whatever
\* order start_machine, stop_machine and the poll thread change and read it.
THEOREM StatusReachesClients ==
  ASSUME AllStatusChanges
  PROVE  SafetySpec => []AnnouncedStatusCatchesUp
<1>1. Init => Inv
  BY InitInv
<1>2. Inv /\ [Next]_vars => Inv'
  BY InvStep
<1>3. Inv => AnnouncedStatusCatchesUp
  BY DEF Inv
<1> QED
  BY <1>1, <1>2, <1>3, PTL DEF SafetySpec

\* Also with cycles broken off by an exception in the transition callback, and with
\* requests coming in at any point: the cleanup function called in a run is the one
\* given with its start, and is called at most once.
THEOREM CleanupAtMostOnce == SafetySpec => []CleanupOncePerRun
<1> DEFINE Both == TypeOK /\ CleanupOncePerRun
<1>1. Init => Both
  BY InitInv DEF Inv
<1>2. Both /\ [Next]_vars => Both'
  <2> SUFFICES ASSUME Both, [Next]_vars PROVE Both'
    OBVIOUS
  <2>1. TypeOK' /\ MachineStep /\ SM!TypeOK
    BY TypeStep, MachineIsDriven DEF TypeOK
  <2> QED
    BY <2>1, MachineKeeps
<1>3. Both => CleanupOncePerRun
  OBVIOUS
<1> HIDE DEF Both
<1> QED
  BY <1>1, <1>2, <1>3, PTL DEF SafetySpec
=============================================================================
