------------------------------ MODULE Magfield ------------------------------
(***************************************************************************)
(* A superconducting magnet with a persistent switch: the state functions  *)
(* of frappy_psi/magfield.py with the communication of                     *)
(* frappy_psi/ips_mercury.py (class Field).                                *)
(*                                                                         *)
(* The machine is in a state function `st`, or rests with a final status.  *)
(* One action is one call of a state function; functions follow each other *)
(* in a cycle until one returns Retry, then the poll thread reads the      *)
(* field again.  Requests come from an other thread at any time and take   *)
(* effect at the next call.                                                *)
(*                                                                         *)
(* Fields and currents are small numbers, in units far above the           *)
(* tolerance, and the leads do not move by a unit within a cycle.  Of the  *)
(* times only the order is kept.  The power supply, its leads and the      *)
(* switch are external: the switch follows its heater later, and a ramp is *)
(* refused in the meantime, as startModule says.                           *)
(***************************************************************************)
EXTENDS Integers

CONSTANTS
    MaxField,       \* targets and currents are 0 .. MaxField
    Limit,          \* persistent_limit
    MaxCalls,       \* bound: requests of clients
    MaxRestarts,    \* bound: restarts of the server
    Tries,          \* sm.try_cnt after start_ramp_to_target
    Stale           \* ramps go on between the last poll and the use of what it has read

VARIABLES
    st,         \* the state function, or the final status
    sm,         \* attributes of the state machine: target, mode, try_cnt, after_wait
    next,       \* the start not yet seen by the machine, or NoStart
    turn,       \* "cycle": state functions are called, "poll": between cycles
    mode, target, value, current, heater,   \* parameters of the module
    pf,         \* __persistent_field
    waited,     \* the switch time given by switch_on_time / switch_off_time is over
    initp,      \* init_persistency
    write,      \* a write_mode or write_target which has not returned yet
    sw, leads, setpoint, act, field,        \* the hardware
    calls, restarts

soft == <<st, sm, next, turn, mode, target, value, current, heater, pf, waited, initp>>
hard == <<sw, leads, setpoint, act, field>>
vars == <<soft, hard, write, calls, restarts>>

Fields == 0 .. MaxField
Modes == {"DISABLED", "PERSISTENT", "DRIVEN"}
Rest == {"IDLE", "PREPARED", "DISABLED", "ERROR"}
NoStart == [f |-> "none"]
NoWrite == [p |-> "none"]

Current == IF Stale THEN current ELSE leads

Init ==
    /\ st = "IDLE" /\ next = NoStart /\ turn = "poll" /\ write = NoWrite
    /\ sm = [target |-> 0, mode |-> "PERSISTENT", try |-> 0, after |-> "none"]
    /\ mode = "PERSISTENT" /\ initp = FALSE
    /\ field \in Fields /\ pf = field /\ value = field /\ target = field
    /\ leads = 0 /\ current = 0 /\ setpoint = 0 /\ act = "hold"
    /\ heater = "off" /\ sw = "closed" /\ waited = TRUE
    /\ calls = 0 /\ restarts = 0

(***************************************************************************)
(* Requests: the write method starts the machine, its wrapper sets the     *)
(* parameter after it has returned.                                        *)
(***************************************************************************)
StartMachine(f, t, m) == next' = [f |-> f, target |-> t, mode |-> m]

Called == /\ calls < MaxCalls /\ calls' = calls + 1 /\ write = NoWrite
          /\ initp' = FALSE
          /\ UNCHANGED <<hard, st, sm, turn, mode, value, current, heater, pf, waited, restarts>>

WriteMode(m) ==
    /\ Called
    /\ Stale \/ heater = "off" \/ value = leads
    /\ LET t == IF m = "DISABLED" THEN 0 ELSE value IN
       /\ target' = t
       /\ IF m = "PERSISTENT" \/ (m = "DISABLED" /\ value = 0)
          THEN StartMachine("start_switch_off", t, m)
          ELSE StartMachine("start_field_change", t, m)
    /\ write' = [p |-> "mode", mode |-> m]

WriteTarget(t) ==
    /\ mode # "DISABLED"
    /\ Called
    /\ StartMachine("start_field_change", t, mode)
    /\ write' = [p |-> "target", target |-> t]
    /\ UNCHANGED target

WriteReturns ==
    /\ write # NoWrite
    /\ IF write.p = "mode" THEN mode' = write.mode /\ UNCHANGED target
                           ELSE target' = write.target /\ UNCHANGED mode
    /\ write' = NoWrite
    /\ UNCHANGED <<hard, st, sm, next, turn, value, current, heater, pf, waited, initp, calls, restarts>>

(***************************************************************************)
(* The poll thread: doPoll reads the value, then cycles the machine.       *)
(* read_value takes the supply's field while the heater is on, else the    *)
(* field remembered.                                                       *)
(***************************************************************************)
Poll ==
    /\ turn = "poll"
    /\ initp \/ st \notin Rest \/ next # NoStart
    /\ IF heater = "on" THEN value' = leads /\ pf' = leads
                        ELSE value' = pf /\ UNCHANGED pf
    /\ IF initp /\ heater = "on" /\ mode # "DRIVEN"
       THEN StartMachine("go_persistent_soon", sm.target, mode)
       ELSE UNCHANGED next
    /\ initp' = FALSE
    /\ turn' = "cycle"
    /\ UNCHANGED <<hard, st, sm, mode, target, current, heater, waited, write, calls, restarts>>

\* the end of a cycle; read_current comes last in doPoll
EndOfCycle == turn' = "poll" /\ current' = leads

NothingToDo ==
    /\ turn = "cycle" /\ st \in Rest /\ next = NoStart
    /\ EndOfCycle
    /\ UNCHANGED <<hard, st, sm, next, mode, target, value, heater, pf, waited, initp, write, calls, restarts>>

\* a slip: on_restart does not hold the leads
RestartedMoving ==
    /\ turn = "cycle" /\ next # NoStart
    /\ st' = next.f
    /\ sm' = [sm EXCEPT !.target = next.target, !.mode = next.mode]
    /\ next' = NoStart
    /\ UNCHANGED <<turn, mode, target, value, current, heater, pf, waited, initp, write,
                   hard, calls, restarts>>

\* on_restart holds the leads, then the machine takes over target and mode
Restarted ==
    /\ turn = "cycle" /\ next # NoStart
    /\ act' = IF st \in Rest THEN act ELSE "hold"
    /\ st' = next.f
    /\ sm' = [sm EXCEPT !.target = next.target, !.mode = next.mode]
    /\ next' = NoStart
    /\ UNCHANGED <<turn, mode, target, value, current, heater, pf, waited, initp, write,
                   sw, leads, setpoint, field, calls, restarts>>

(***************************************************************************)
(* State functions                                                         *)
(***************************************************************************)
In(f) == /\ turn = "cycle" /\ next = NoStart /\ st = f
         /\ UNCHANGED <<next, mode, value, initp, pf, write, sw, leads, field, calls, restarts>>

Goto(f) == st' = f /\ UNCHANGED <<turn, current>>
Retry == UNCHANGED st /\ EndOfCycle
Quiet == UNCHANGED <<act, setpoint>>
SwitchLeft == UNCHANGED <<heater, waited>>
NotDone == UNCHANGED <<sm, target>>

SetHeater(v) == heater' = v /\ waited' = (waited /\ heater = v)

\* final_status holds the leads
Finish(status) == st' = status /\ EndOfCycle /\ act' = "hold" /\ UNCHANGED setpoint

\* on_error
Fail == /\ Finish("ERROR")
        /\ IF sm.mode # "DRIVEN" THEN SetHeater("off") ELSE SwitchLeft

\* the power supply refuses to ramp while the switch changes
Refused == sw # (IF heater = "on" THEN "open" ELSE "closed")
SetAndGo(v) == setpoint' = v /\ act' = IF Refused THEN "hold" ELSE "set"

CheckSwitchOff ==
    IF sm.mode = "DRIVEN" THEN Finish("PREPARED")
    ELSE Goto("start_switch_off") /\ Quiet

\* a slip: the target is announced only
GoWithOldTarget ==
    /\ In("go_persistent_soon")
    /\ target' = value /\ UNCHANGED sm
    /\ Goto("start_field_change") /\ Quiet /\ SwitchLeft

GoPersistentSoon ==
    /\ In("go_persistent_soon")
    /\ target' = value /\ sm' = [sm EXCEPT !.target = value]
    /\ Goto("start_field_change") /\ Quiet /\ SwitchLeft

StartFieldChange ==
    /\ In("start_field_change")
    /\ CASE /\ sm.target = value /\ Current = value
            /\ mode # "DRIVEN" \/ heater = "on"      -> CheckSwitchOff
         [] /\ ~(sm.target = value /\ Current = value /\ (mode # "DRIVEN" \/ heater = "on"))
            /\ heater = "on"                         -> Goto("start_switch_on") /\ Quiet
         [] OTHER                                    -> Goto("start_ramp_to_field") /\ Quiet
    /\ SwitchLeft /\ NotDone

StartRampToField ==
    /\ In("start_ramp_to_field")
    /\ IF Current = pf
       THEN Goto("ramp_to_field") /\ Quiet /\ UNCHANGED sm
       ELSE /\ SetAndGo(pf)
            /\ IF Refused /\ heater = "off"
               THEN Goto("wait_for_switch") /\ sm' = [sm EXCEPT !.after = "ramp_to_field"]
               ELSE Goto("ramp_to_field") /\ UNCHANGED sm
    /\ SwitchLeft /\ UNCHANGED target

\* no progress for the timeout: the leads do not move any more
Stuck == act = "hold" \/ leads = (IF act = "set" THEN setpoint ELSE 0)

\* a slip: tries without end, and without a new set point
TryForEver(Again) == Retry /\ Quiet /\ SwitchLeft /\ UNCHANGED sm

\* 'no progress' in the ramp functions of ips_mercury; try_cnt is an attribute only
\* start_ramp_to_target sets: 0 stands for the missing one too, an error as well
TryAgain(Again) ==
    IF sm.try = 0 \/ Refused
    THEN Fail /\ UNCHANGED sm
    ELSE Retry /\ Again /\ sm' = [sm EXCEPT !.try = @ - 1] /\ SwitchLeft

RampToField ==
    /\ In("ramp_to_field")
    /\ UNCHANGED target
    /\ \/ /\ Current = value
          /\ Goto("stabilize_current") /\ Quiet /\ SwitchLeft /\ UNCHANGED sm
       \/ /\ Current # value /\ ~Stuck
          /\ Retry /\ Quiet /\ SwitchLeft /\ UNCHANGED sm
       \/ /\ Current # value /\ Stuck
          /\ TryAgain(SetAndGo(pf))

StabilizeCurrent ==
    /\ In("stabilize_current")
    /\ Goto("start_switch_on")
    /\ Quiet /\ SwitchLeft /\ NotDone

StartSwitchOn ==
    /\ In("start_switch_on")
    /\ IF sm.target = value THEN CheckSwitchOff /\ SwitchLeft
       ELSE Goto("wait_for_switch_on") /\ Quiet /\ SetHeater("on")
    /\ NotDone

WaitForSwitchOn ==
    /\ In("wait_for_switch_on")
    /\ IF waited THEN Goto("start_ramp_to_target") ELSE Retry
    /\ Quiet /\ SwitchLeft /\ NotDone

StartRampToTarget ==
    /\ In("start_ramp_to_target")
    /\ SetAndGo(sm.target)
    /\ sm' = [sm EXCEPT !.try = Tries, !.after = IF Refused THEN "ramp_to_target" ELSE @]
    /\ Goto(IF Refused THEN "wait_for_switch" ELSE "ramp_to_target")
    /\ SwitchLeft /\ UNCHANGED target

RampToTarget ==
    /\ In("ramp_to_target")
    /\ UNCHANGED target
    /\ \/ /\ value = sm.target
          /\ Goto("stabilize_field") /\ Quiet /\ SwitchLeft /\ UNCHANGED sm
       \/ /\ value # sm.target /\ ~Stuck
          /\ Retry /\ Quiet /\ SwitchLeft /\ UNCHANGED sm
       \/ /\ value # sm.target /\ Stuck
          /\ TryAgain(SetAndGo(sm.target))

StabilizeField ==
    /\ In("stabilize_field")
    /\ CheckSwitchOff
    /\ SwitchLeft /\ NotDone

StartSwitchOff ==
    /\ In("start_switch_off")
    /\ Goto("wait_for_switch_off") /\ SetHeater("off") /\ Quiet /\ NotDone

WaitForSwitchOff ==
    /\ In("wait_for_switch_off")
    /\ CASE ~waited                  -> Retry /\ Quiet
         [] waited /\ value > Limit  -> Finish("IDLE")
         [] OTHER                    -> Goto("start_ramp_to_zero") /\ Quiet
    /\ SwitchLeft /\ NotDone

StartRampToZero ==
    /\ In("start_ramp_to_zero")
    /\ IF Refused
       THEN /\ act' = "hold" /\ Goto("wait_for_switch")
            /\ sm' = [sm EXCEPT !.after = "ramp_to_zero"]
       ELSE act' = "zero" /\ Goto("ramp_to_zero") /\ UNCHANGED sm
    /\ SwitchLeft /\ UNCHANGED <<target, setpoint>>

RampToZero ==
    /\ In("ramp_to_zero")
    /\ UNCHANGED target
    /\ \/ /\ Current = 0
          /\ Finish(IF sm.mode = "DISABLED" /\ value = 0 THEN "DISABLED" ELSE "IDLE")
          /\ SwitchLeft /\ UNCHANGED sm
       \/ /\ Current # 0 /\ ~Stuck
          /\ Retry /\ Quiet /\ SwitchLeft /\ UNCHANGED sm
       \/ /\ Current # 0 /\ Stuck
          /\ TryAgain(act' = "zero" /\ UNCHANGED setpoint)

\* tries again, with the persistent field whatever comes after
WaitForSwitch ==
    /\ In("wait_for_switch")
    /\ SetAndGo(pf)
    /\ IF Refused THEN Retry ELSE Goto(sm.after)
    /\ SwitchLeft /\ NotDone

StateFunction ==
    \/ GoPersistentSoon \/ StartFieldChange \/ StartRampToField \/ RampToField
    \/ StabilizeCurrent \/ StartSwitchOn \/ WaitForSwitchOn \/ StartRampToTarget
    \/ RampToTarget \/ StabilizeField \/ StartSwitchOff \/ WaitForSwitchOff
    \/ StartRampToZero \/ RampToZero \/ WaitForSwitch

(***************************************************************************)
(* The hardware, external                                                  *)
(***************************************************************************)
Toward(goal) == IF leads < goal THEN leads + 1 ELSE leads - 1

LeadsMove ==
    /\ turn = "poll" /\ ~Stuck
    /\ Stale \/ next = NoStart
    /\ leads' = Toward(IF act = "set" THEN setpoint ELSE 0)
    /\ field' = IF sw = "open" THEN leads' ELSE field
    /\ UNCHANGED <<soft, write, sw, setpoint, act, calls, restarts>>

\* opened with other leads than field, the field follows the leads
SwitchMoves ==
    /\ Refused
    /\ sw' = IF heater = "on" THEN "open" ELSE "closed"
    /\ field' = IF heater = "on" THEN leads ELSE field
    /\ UNCHANGED <<soft, write, leads, setpoint, act, calls, restarts>>

\* the wait times are longer than the switch needs
WaitOver ==
    /\ ~waited /\ ~Refused
    /\ waited' = TRUE
    /\ UNCHANGED <<hard, st, sm, next, turn, mode, target, value, current, heater, pf, initp,
                   write, calls, restarts>>

\* the server is started again: initModule, startModule, the initial polls
ServerRestarts ==
    /\ restarts < MaxRestarts /\ restarts' = restarts + 1
    /\ st' = "IDLE" /\ next' = NoStart /\ turn' = "poll" /\ write' = NoWrite
    /\ sm' = [target |-> 0, mode |-> "PERSISTENT", try |-> 0, after |-> "none"]
    /\ mode' = "PERSISTENT" /\ initp' = TRUE /\ waited' = TRUE
    /\ act' = "hold" /\ current' = leads
    /\ pf' = IF heater = "on" THEN leads ELSE field
    /\ value' = pf' /\ target' = pf'
    /\ UNCHANGED <<heater, sw, leads, setpoint, field, calls>>

WriteRequests == \/ \E m \in Modes : WriteMode(m)
                 \/ \E t \in Fields : WriteTarget(t)

Machine == Poll \/ NothingToDo \/ Restarted \/ StateFunction
Hardware == LeadsMove \/ SwitchMoves \/ WaitOver

Next == WriteRequests \/ WriteReturns \/ Machine \/ Hardware \/ ServerRestarts

Spec == Init /\ [][Next]_vars
FairSpec == /\ Spec /\ WF_vars(Machine) /\ WF_vars(WriteReturns)
            /\ SF_vars(LeadsMove) /\ WF_vars(SwitchMoves) /\ WF_vars(WaitOver)

(***************************************************************************)
(* Properties                                                              *)
(***************************************************************************)
States == Rest \cup {"go_persistent_soon", "start_field_change", "start_ramp_to_field",
    "ramp_to_field", "stabilize_current", "start_switch_on", "wait_for_switch_on",
    "start_ramp_to_target", "ramp_to_target", "stabilize_field", "start_switch_off",
    "wait_for_switch_off", "start_ramp_to_zero", "ramp_to_zero", "wait_for_switch"}

\* Types of the variables.
TypeOK ==
    /\ st \in States /\ turn \in {"poll", "cycle"} /\ mode \in Modes
    /\ {target, value, current, pf, leads, setpoint, field} \subseteq Fields
    /\ heater \in {"on", "off"} /\ sw \in {"open", "closed"} /\ act \in {"hold", "set", "zero"}
    /\ waited \in BOOLEAN /\ initp \in BOOLEAN

\* The switch is opened only while the leads carry the current of the coil,
\* whatever was requested, refused or restarted before: the heater is never on
\* with other leads than field.
OpensMatched == heater = "on" => leads = field

\* While the leads are ramped to zero the switch is closed, and the field is
\* the one remembered.
FieldStays == act = "zero" => sw = "closed" /\ pf = field

\* The persistent field remembered is the field of the coil whenever the leads
\* can not change it, also after errors and restarts.
Remembered == sw = "closed" => pf = field

Settled == st \in Rest /\ next = NoStart /\ write = NoWrite /\ ~initp

\* At rest without an error, the field is the target, the leads do not move,
\* the switch heater is off, and without field when disabled.
RestsAsSaid ==
    Settled /\ st # "ERROR" =>
       /\ field = target /\ act = "hold"
       /\ st \in {"IDLE", "DISABLED"} => heater = "off"
       /\ st = "DISABLED" => field = 0 /\ leads = 0

\* In the mode DRIVEN the machine comes to rest with the heater on: the case the
\* short cut of start_field_change excludes.
DrivenIsOn == Settled /\ st = "PREPARED" => heater = "on"

\* Whatever was requested, the machine comes to rest.
ComesToRest == (next # NoStart) ~> Settled

\* A switch that still moves after a restart of the server is no error: the
\* supply "will complain and this will be handled in start_ramp_to_field".
ComplaintHandled == st # "ERROR"
=============================================================================
