------------------------- MODULE StateMachineProofs -------------------------
(***************************************************************************)
(* Proofs about StateMachine: its type invariant, its safety invariants,   *)
(* its action properties, and that it implements RunControl (safety), for  *)
(* every set of state functions, every maxloops and every number of        *)
(* requests.                                                               *)
(***************************************************************************)
EXTENDS StateMachine, TLAPS

USE NoneAssumption, MaxLoopsAssumption, MaxRequestsAssumption

-----------------------------------------------------------------------------
(* The inductive invariant.                                                *)

\* A request in a slot is what start() or stop() put there.
TasksWellFormed ==
  /\ nextTask.kind = "Start" => nextTask.func \in StateFuncs
  /\ nextTask.kind # "none" => nextTask.id >= 1

\* Where cycle() is determines whether the machine is in a state: it is
\* in one in the inner loop, in none when it looks for a request.
Busy(p, t) == p \in {"loop", "call"} \/ (p \in {"transition", "assign"} /\ t # "begin")

ControlAgrees ==
  /\ Busy(pc, then) => statefunc # None
  /\ pc = "task" => statefunc = None
  /\ pc \in {"transition", "assign"} /\ then = "task" => goal = None
  /\ pc \in {"transition", "assign"} /\ then # "task" => goal # None

\* A request taken is about to begin only when all traces of the run before
\* are gone.
StartIsClean ==
  pc \in {"transition", "assign"} /\ then = "begin" =>
    /\ statefunc = None
    /\ reason = "none"
    /\ action.kind = "Start"

\* As soon as there is a cleanup reason, there is no cleanup function.
ReasonMeansCleaned == reason # "none" => cleanup = 0

IndInv ==
  /\ TypeOK
  /\ NoRequestLost
  /\ CleanupOncePerRun
  /\ TasksWellFormed
  /\ ControlAgrees
  /\ StartIsClean
  /\ ReasonMeansCleaned

LEMMA InitIndInv == Init => IndInv
BY DEF Init, IndInv, TypeOK, NoRequestLost, CleanupOncePerRun, TasksWellFormed,
       ControlAgrees, StartIsClean, ReasonMeansCleaned, Busy, NoTask, Tasks

\* The requesting threads.
LEMMA RequestKeepsIndInv ==
  ASSUME IndInv,
         (\E f \in StateFuncs, c \in BOOLEAN : Start(f, c)) \/ Stop
  PROVE  IndInv'
<1> USE DEF IndInv
<1> DEFINE Asked(task) == /\ Request(task)
                          /\ task.id = issued + 1
                          /\ task.kind # "none"
                          /\ task.kind = "Start" => task.func \in StateFuncs
<1>1. \E task \in Tasks : Asked(task)
  <2>0. issued + 1 \in 0 .. MaxRequests
    BY DEF Start, Stop, Request, TypeOK
  <2>1. ASSUME NEW f \in StateFuncs, NEW c \in BOOLEAN, Start(f, c)
        PROVE  \E task \in Tasks : Asked(task)
    <3> DEFINE t == [kind |-> "Start", id |-> issued + 1, func |-> f, cleanup |-> c]
    <3>1. t \in Tasks
      BY <2>0 DEF Tasks
    <3> QED BY <2>1, <3>1 DEF Start
  <2>2. ASSUME Stop
        PROVE  \E task \in Tasks : Asked(task)
    <3> DEFINE t == [kind |-> "Stop", id |-> issued + 1, func |-> None,
                     cleanup |-> FALSE]
    <3>1. t \in Tasks
      BY <2>0 DEF Tasks
    <3> QED BY <2>2, <3>1 DEF Stop
  <2> QED BY <2>1, <2>2
<1>1a. PICK task \in Tasks : Asked(task)
  BY <1>1
<1>2. TypeOK'
  BY <1>1a DEF TypeOK, Request, cycleVars
<1>3. NoRequestLost' /\ TasksWellFormed'
  BY <1>1a DEF NoRequestLost, TasksWellFormed, TypeOK, Request, cycleVars
<1>4. CleanupOncePerRun' /\ ControlAgrees' /\ StartIsClean' /\ ReasonMeansCleaned'
  BY <1>1a DEF CleanupOncePerRun, ControlAgrees, StartIsClean, Busy,
              ReasonMeansCleaned, Request, cycleVars
<1> QED BY <1>2, <1>3, <1>4

\* The parts of the invariant about what the runs were given and how they were
\* cleaned up, which only three kinds of steps can disturb.
RunParts == CleanupOncePerRun /\ ReasonMeansCleaned

\* A call of _cleanup, whatever state function it leads to.
LEMMA CleanupKeepsRunParts ==
  ASSUME IndInv, NEW r, NEW ret, NEW continuation,
         Cleanup(r, ret, continuation), run' = run
  PROVE  RunParts'
BY DEF IndInv, TypeOK, Cleanup, RunParts, CleanupOncePerRun, ReasonMeansCleaned

\* The cycling thread.
LEMMA CycleKeepsIndInv ==
  ASSUME IndInv, Cycle \/ CycleStep
  PROVE  IndInv'
<1> USE DEF IndInv
<1>1. CASE Cycle
  BY <1>1 DEF Cycle, TypeOK, NoRequestLost, CleanupOncePerRun, TasksWellFormed,
              ControlAgrees, StartIsClean, ReasonMeansCleaned, Busy
<1>2. CASE NextPass
  BY <1>2 DEF NextPass, TypeOK, NoRequestLost, CleanupOncePerRun,
              TasksWellFormed, ControlAgrees, StartIsClean, ReasonMeansCleaned,
              Busy
<1>3. CASE Interrupt
  <2>1. PICK ret \in StateFuncs \cup {None} : Cleanup(nextTask.kind, ret, "loop")
    BY <1>3 DEF Interrupt
  <2>2. TypeOK'
    BY <1>3, <2>1 DEF Interrupt, Cleanup, NewState, TypeOK, Tasks
  <2>3. RunParts'
    BY <1>3, <2>1, CleanupKeepsRunParts DEF Interrupt
  <2>4. ControlAgrees' /\ StartIsClean'
    BY <1>3, <2>1 DEF Interrupt, Cleanup, NewState, ControlAgrees,
                      StartIsClean, Busy
  <2>5. NoRequestLost' /\ TasksWellFormed'
    BY <1>3 DEF Interrupt, NoRequestLost, TasksWellFormed
  <2> QED BY <2>2, <2>3, <2>4, <2>5 DEF RunParts
<1>4. CASE EnterState
  BY <1>4 DEF EnterState, TypeOK, NoRequestLost, CleanupOncePerRun,
              TasksWellFormed, ControlAgrees, StartIsClean, ReasonMeansCleaned,
              Busy
<1>5. CASE TooManyStates
  <2>1. PICK ret \in StateFuncs \cup {None} : Cleanup("Error", ret, "pass")
    BY <1>5 DEF TooManyStates
  <2>2. TypeOK'
    BY <1>5, <2>1 DEF TooManyStates, Cleanup, NewState, TypeOK
  <2>3. RunParts'
    BY <1>5, <2>1, CleanupKeepsRunParts DEF TooManyStates
  <2>4. ControlAgrees' /\ StartIsClean'
    BY <1>5, <2>1 DEF TooManyStates, Cleanup, NewState, ControlAgrees,
                      StartIsClean, Busy
  <2>5. NoRequestLost' /\ TasksWellFormed'
    BY <1>5 DEF TooManyStates, NoRequestLost, TasksWellFormed
  <2> QED BY <2>2, <2>3, <2>4, <2>5 DEF RunParts
<1>6. CASE CallRetry
  BY <1>6 DEF CallRetry, TypeOK, NoRequestLost, CleanupOncePerRun,
              TasksWellFormed, ControlAgrees, StartIsClean, ReasonMeansCleaned,
              Busy
<1>7. ASSUME NEW drop \in BOOLEAN, CallFinish(drop)
      PROVE  IndInv'
  <2>1. cleanup' \in {0, cleanup}
    BY <1>7 DEF CallFinish
  <2>2. TypeOK'
    <3>1. /\ init' = FALSE
          /\ NewState(None, "task")
          /\ UNCHANGED <<statefunc, reason, pass, loops, action, served, run,
                         cleanups, nextTask, issued>>
      BY <1>7 DEF CallFinish
    <3>2. cleanup' \in 0 .. MaxRequests
      BY <2>1 DEF TypeOK
    <3> QED BY <3>1, <3>2 DEF NewState, TypeOK
  <2>3. RunParts'
    BY <1>7, <2>1 DEF CallFinish, RunParts, CleanupOncePerRun, ReasonMeansCleaned
  <2>4. ControlAgrees' /\ StartIsClean'
    BY <1>7 DEF CallFinish, NewState, ControlAgrees, StartIsClean, Busy
  <2>5. NoRequestLost' /\ TasksWellFormed'
    BY <1>7 DEF CallFinish, NoRequestLost, TasksWellFormed
  <2> QED BY <2>2, <2>3, <2>4, <2>5 DEF RunParts
<1>8. ASSUME NEW f \in StateFuncs, CallNext(f)
      PROVE  IndInv'
  BY <1>8 DEF CallNext, NewState, TypeOK, NoRequestLost, CleanupOncePerRun,
              TasksWellFormed, ControlAgrees, StartIsClean, ReasonMeansCleaned,
              Busy
<1>9. ASSUME NEW returned \in BOOLEAN, CallFail(returned)
      PROVE  IndInv'
  <2>1. PICK ret \in StateFuncs \cup {None} : Cleanup("Error", ret, "loop")
    BY <1>9 DEF CallFail
  <2>2. TypeOK'
    <3>1. init' \in BOOLEAN
      BY <1>9 DEF CallFail, TypeOK
    <3>2. UNCHANGED <<statefunc, pass, loops, action, served, run, nextTask,
                      issued>>
      BY <1>9 DEF CallFail
    <3> QED BY <2>1, <3>1, <3>2 DEF Cleanup, NewState, TypeOK
  <2>3. RunParts'
    BY <1>9, <2>1, CleanupKeepsRunParts DEF CallFail
  <2>4. ControlAgrees' /\ StartIsClean'
    BY <1>9, <2>1 DEF CallFail, Cleanup, NewState, ControlAgrees,
                      StartIsClean, Busy
  <2>5. NoRequestLost' /\ TasksWellFormed'
    BY <1>9 DEF CallFail, NoRequestLost, TasksWellFormed
  <2> QED BY <2>2, <2>3, <2>4, <2>5 DEF RunParts
<1>10. CASE Transition
  BY <1>10 DEF Transition, TypeOK, NoRequestLost, CleanupOncePerRun,
               TasksWellFormed, ControlAgrees, StartIsClean,
               ReasonMeansCleaned, Busy
<1>11. CASE Assign
  BY <1>11 DEF Assign, TypeOK, NoRequestLost, CleanupOncePerRun,
               TasksWellFormed, ControlAgrees, StartIsClean,
               ReasonMeansCleaned, Busy
<1>12. CASE Begin
  <2>1. TypeOK'
    BY <1>12 DEF Begin, TypeOK, Tasks
  <2>2. RunParts'
    BY <1>12 DEF Begin, RunParts, CleanupOncePerRun, ReasonMeansCleaned,
                 StartIsClean
  <2>3. ControlAgrees' /\ StartIsClean'
    BY <1>12 DEF Begin, ControlAgrees, StartIsClean, Busy
  <2>4. NoRequestLost' /\ TasksWellFormed'
    BY <1>12 DEF Begin, NoRequestLost, TasksWellFormed
  <2> QED BY <2>1, <2>2, <2>3, <2>4 DEF RunParts
<1>13. CASE NoRequest
  BY <1>13 DEF NoRequest, TypeOK, NoRequestLost, CleanupOncePerRun,
               TasksWellFormed, ControlAgrees, StartIsClean,
               ReasonMeansCleaned, Busy
<1>14. CASE TakeRequest
  <2>1. TypeOK'
    BY <1>14 DEF TakeRequest, NewState, NoTask, TypeOK, Tasks
  <2>2. NoRequestLost' /\ TasksWellFormed'
    BY <1>14 DEF TakeRequest, NoTask, NoRequestLost, TasksWellFormed
  <2>3. RunParts'
    BY <1>14 DEF TakeRequest, RunParts, CleanupOncePerRun, ReasonMeansCleaned
  <2>4. ControlAgrees' /\ StartIsClean'
    BY <1>14 DEF TakeRequest, NewState, ControlAgrees, StartIsClean, Busy,
                 TasksWellFormed
  <2> QED BY <2>1, <2>2, <2>3, <2>4 DEF RunParts
<1> QED BY <1>1, <1>2, <1>3, <1>4, <1>5, <1>6, <1>7, <1>8, <1>9, <1>10, <1>11,
           <1>12, <1>13, <1>14 DEF CycleStep, Call

LEMMA StutterKeepsIndInv ==
  ASSUME IndInv, UNCHANGED vars
  PROVE  IndInv'
BY DEF vars, cycleVars, IndInv, TypeOK, NoRequestLost, CleanupOncePerRun,
       TasksWellFormed, ControlAgrees, StartIsClean, ReasonMeansCleaned, Busy

LEMMA NextKeepsIndInv == IndInv /\ [Next]_vars => IndInv'
BY RequestKeepsIndInv, CycleKeepsIndInv, StutterKeepsIndInv DEF Next

THEOREM IndInvHolds == SafetySpec => []IndInv
<1>1. Init => IndInv
  BY InitIndInv
<1>2. IndInv /\ [Next]_vars => IndInv'
  BY NextKeepsIndInv
<1> QED BY <1>1, <1>2, PTL DEF SafetySpec

-----------------------------------------------------------------------------
(* The theorems.                                                           *)

\* The variables keep their types.
THEOREM TypeCorrect == SafetySpec => []TypeOK
BY IndInvHolds, PTL DEF IndInv

\* Between start()/stop() in any number of threads and cycle() in another no
\* request is lost.
THEOREM RequestsAreKept == SafetySpec => []NoRequestLost
BY IndInvHolds, PTL DEF IndInv

\* Each run calls the cleanup function it was started with, at most once.
THEOREM CleanupAtMostOnce == SafetySpec => []CleanupOncePerRun
BY IndInvHolds, PTL DEF IndInv

\* A run broken off leaves no cleanup function behind.
THEOREM BrokenRunsAreCleaned == SafetySpec => []InterruptedRunIsCleaned
<1>1. IndInv => InterruptedRunIsCleaned
  BY DEF IndInv, ReasonMeansCleaned, InterruptedRunIsCleaned
<1> QED BY <1>1, IndInvHolds, PTL

\* A new run begins only after the last one has left its last state.
THEOREM RestartsPassThroughIdle == SafetySpec => RestartPassesThroughIdle
<1>1. IndInv /\ [Next]_vars => (run' # run => statefunc = None)
  BY DEF IndInv, StartIsClean, Next, Start, Stop, Request, cycleVars, Cycle,
         CycleStep, NextPass, Interrupt, EnterState, TooManyStates, Call,
         CallRetry, CallFinish, CallNext, CallFail, Transition, Assign, Begin,
         NoRequest, TakeRequest, vars
<1>2. IndInv /\ [Next]_vars => [run' # run => statefunc = None]_vars
  BY <1>1
<1> QED BY <1>2, IndInvHolds, PTL DEF SafetySpec, RestartPassesThroughIdle

\* A cleanup sequence is not interrupted, and no second one is begun.
LEMMA StepDoesNotInterruptCleanup ==
  ASSUME IndInv, Next, reason # "none", statefunc # None
  PROVE  reason' = reason /\ cleanups' = cleanups
<1> USE DEF IndInv
<1>1. cleanup = 0
  BY DEF ReasonMeansCleaned
<1>2. ASSUME NEW r, NEW ret, NEW continuation, Cleanup(r, ret, continuation)
      PROVE  reason' = reason /\ cleanups' = cleanups
  BY <1>1, <1>2 DEF Cleanup
<1>3. CASE TooManyStates \/ \E returned \in BOOLEAN : CallFail(returned)
  BY <1>2, <1>3 DEF TooManyStates, CallFail
<1>4. CASE TakeRequest
  BY <1>4 DEF TakeRequest, ControlAgrees
<1>5. CASE Begin
  BY <1>5 DEF Begin, StartIsClean
<1>6. CASE Interrupt
  BY <1>6 DEF Interrupt, Interrupted
<1> QED BY <1>3, <1>4, <1>5, <1>6
        DEF Next, Start, Stop, Request, cycleVars, Cycle, CycleStep, NextPass,
            EnterState, Call, CallRetry, CallFinish, CallNext, Transition,
            Assign, NoRequest

THEOREM CleanupsAreNotInterrupted == SafetySpec => CleanupNotInterrupted
<1>1. IndInv /\ [Next]_vars =>
        [reason # "none" /\ statefunc # None =>
           reason' = reason /\ cleanups' = cleanups]_vars
  BY StepDoesNotInterruptCleanup
<1> QED BY <1>1, IndInvHolds, PTL DEF SafetySpec, CleanupNotInterrupted

-----------------------------------------------------------------------------
(* The engine implements RunControl.                                       *)

\* Steps which leave statefunc, cleanup_reason and next_task alone and do not
\* touch a start about to begin are invisible to the callers.
LEMMA InvisibleSteps ==
  ASSUME UNCHANGED <<statefunc, reason, nextTask>>,
         (pc' \in {"transition", "assign"} /\ then' = "begin")
           = (pc \in {"transition", "assign"} /\ then = "begin")
  PROVE  UNCHANGED Promise!vars
BY DEF Promise!vars

LEMMA StepKeepsPromise ==
  ASSUME IndInv, [Next]_vars
  PROVE  [Promise!Next]_Promise!vars
<1> USE DEF IndInv
<1>1. CASE UNCHANGED vars
  BY <1>1, InvisibleSteps DEF vars, cycleVars
<1>2. CASE (\E f \in StateFuncs, c \in BOOLEAN : Start(f, c)) \/ Stop
  BY <1>2 DEF Start, Stop, Request, cycleVars, Promise!Next, Promise!Ask
<1>3. CASE Cycle \/ NextPass \/ EnterState \/ NoRequest \/ CallRetry
  BY <1>3, InvisibleSteps DEF Cycle, NextPass, EnterState, NoRequest, CallRetry
<1>4. CASE \/ \E drop \in BOOLEAN : CallFinish(drop)
           \/ \E f \in StateFuncs : CallNext(f)
           \/ Transition
  BY <1>4, InvisibleSteps DEF CallFinish, CallNext, NewState, Transition
<1>5. ASSUME NEW r, r # "none", NEW ret, NEW c, c # "begin", Cleanup(r, ret, c),
             pc \in {"loop", "call"}, UNCHANGED <<statefunc, nextTask>>
      PROVE  [Promise!Next]_Promise!vars
  <2>1. statefunc # None
    BY <1>5 DEF ControlAgrees, Busy
  <2>2. then' # "begin"
    BY <1>5 DEF Cleanup, NewState
  <2>3. CASE reason = "none"
    <3>1. Promise!Break
      BY <1>5, <2>1, <2>2, <2>3 DEF Cleanup, Promise!Break
    <3> QED BY <3>1 DEF Promise!Next
  <2>4. CASE reason # "none"
    BY <1>5, <2>1, <2>2, <2>4, InvisibleSteps DEF Cleanup
  <2> QED BY <2>3, <2>4
<1>6. CASE Interrupt \/ TooManyStates \/ \E b \in BOOLEAN : CallFail(b)
  BY <1>5, <1>6 DEF Interrupt, Interrupted, TooManyStates, CallFail
<1>7. CASE Assign
  <2>1. statefunc # None
    BY <1>7 DEF Assign, ControlAgrees, Busy
  <2>2. CASE goal = None
    <3>1. Promise!End
      BY <1>7, <2>1, <2>2 DEF Assign, Promise!End
    <3> QED BY <3>1 DEF Promise!Next
  <2>3. CASE goal # None
    BY <1>7, <2>1, <2>3 DEF Assign, Promise!vars
  <2> QED BY <2>2, <2>3
<1>8. CASE Begin
  <2>1. Promise!Begin
    BY <1>8 DEF Begin, StartIsClean, ControlAgrees, Promise!Begin
  <2> QED BY <2>1 DEF Promise!Next
<1>9. CASE TakeRequest
  <2>1. Promise!Accept
    BY <1>9 DEF TakeRequest, NewState, NoTask, ControlAgrees, Promise!Accept
  <2> QED BY <2>1 DEF Promise!Next
<1> QED BY <1>1, <1>2, <1>3, <1>4, <1>6, <1>7, <1>8, <1>9
        DEF Next, CycleStep, Call

\* Safety of the promise: requests are accepted by an idle machine only, a
\* cleanup sequence is never left but to idle, and runs begin from accepted
\* starts only.
THEOREM ImplementsRunControl == SafetySpec => Promise!SafetySpec
<1>1. Init => Promise!Init
  BY DEF Init, NoTask, Promise!Init
<1>2. IndInv /\ [Next]_vars => [Promise!Next]_Promise!vars
  BY StepKeepsPromise
<1> QED BY <1>1, <1>2, IndInvHolds, PTL DEF SafetySpec, Promise!SafetySpec
=============================================================================
