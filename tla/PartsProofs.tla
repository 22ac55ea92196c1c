----------------------------- MODULE PartsProofs -----------------------------
(***************************************************************************)
(* Proofs about the parts of Parts: Control, for any number of controllers *)
(* and of threads handling requests, as long as these are handled one at a *)
(* time; and, as they are checked in Parts, Server for any number of       *)
(* interfaces and callers, Sequencer for any targets and number of starts, *)
(* Magfield for any field and limits, and StructParam for any members.     *)
(* Then, about NodeLife: the modules of a node (SecNode), for every number *)
(* of modules and every configuration, and a proxy (Proxy), for any threads*)
(* which connect its client and any number of changes, losses and failures.*)
(***************************************************************************)
EXTENDS Parts, NodeLife, Integers, Sequences, FiniteSetTheorems, SequenceTheorems,
        WellFoundedInduction, TLAPS

(***************************************************************************)
(* Control                                                                 *)
(***************************************************************************)

\* who is still to be told before a request may go on
Passing(r) ==
  /\ doing[r].op = "none" => todo[r] = {} /\ doing[r] = None
  /\ doing[r].op = "activate" =>
       /\ doing[r].who \in Inputs
       /\ \A i \in Inputs : control_active[i] => i \in todo[r]
  /\ doing[r].op = "active" =>
       /\ doing[r].who \in Inputs /\ todo[r] = {} /\ controlled_by = doing[r].who
       /\ \A i \in Inputs : ~control_active[i]
  /\ doing[r].op = "own" =>
       /\ controlled_by = Self
       /\ \A i \in Inputs : control_active[i] => i \in todo[r]

OneRequest == \A q, r \in Requests : doing[q] # None /\ doing[r] # None => q = r

ControlInv == TypeOK /\ OneRequest /\ (\A r \in Requests : Passing(r)) /\ OneInCharge /\ NeverTwo

LEMMA ControlInit == Init => ControlInv
<1> SUFFICES ASSUME Init PROVE ControlInv
  OBVIOUS
<1> USE ControlAssumption DEF Init, None
<1>1. TypeOK
  BY DEF TypeOK
<1>2. OneRequest /\ OneInCharge /\ NeverTwo
  BY DEF OneRequest, OneInCharge, NeverTwo
<1>3. \A r \in Requests : Passing(r)
  BY DEF Passing
<1> QED
  BY <1>1, <1>2, <1>3 DEF ControlInv

\* the types are kept by every step
LEMMA ControlTypes == TypeOK /\ [Next]_vars => TypeOK'
<1> SUFFICES ASSUME TypeOK, [Next]_vars PROVE TypeOK'
  OBVIOUS
<1> USE DEF TypeOK, None
<1>1. CASE UNCHANGED vars
  BY <1>1 DEF vars
<1>2. ASSUME NEW r \in Requests, NEW i \in Inputs, WriteTarget(r, i) PROVE TypeOK'
  BY <1>2 DEF WriteTarget, Begin
<1>3. ASSUME NEW r \in Requests, WriteOutput(r) PROVE TypeOK'
  <2>1. CASE controlled_by = Self
    BY <1>3, <2>1 DEF WriteOutput
  <2>2. CASE controlled_by # Self
    BY <1>3, <2>2 DEF WriteOutput, Begin
  <2> QED
    BY <2>1, <2>2
<1>4. ASSUME NEW r \in Requests, Deactivate(r) PROVE TypeOK'
  BY <1>4 DEF Deactivate
<1>5. ASSUME NEW r \in Requests, TakeControl(r) PROVE TypeOK'
  BY <1>5 DEF TakeControl
<1>6. ASSUME NEW r \in Requests, SetActive(r) PROVE TypeOK'
  BY <1>6 DEF SetActive
<1>7. ASSUME NEW r \in Requests, OwnTarget(r) PROVE TypeOK'
  BY <1>7 DEF OwnTarget
<1>8. ASSUME NEW i \in Inputs, Poll(i) \/ UpdateTarget(i) PROVE TypeOK'
  BY <1>8 DEF Poll, UpdateTarget
<1> QED
  BY <1>1, <1>2, <1>3, <1>4, <1>5, <1>6, <1>7, <1>8 DEF Next, Request

\* the rest of the invariant
LEMMA ControlStep == ASSUME Serial PROVE ControlInv /\ [Next]_vars => ControlInv'
<1> SUFFICES ASSUME ControlInv, [Next]_vars PROVE ControlInv'
  OBVIOUS
<1> USE ControlAssumption DEF ControlInv
<1>0. TypeOK'
  BY ControlTypes
<1>1. CASE UNCHANGED vars
  BY <1>0, <1>1 DEF vars, OneRequest, Passing, OneInCharge, NeverTwo, AtRest
<1>2. ASSUME NEW r \in Requests, NEW i \in Inputs, WriteTarget(r, i) PROVE ControlInv'
  <2>1. OneRequest'
    BY <1>2 DEF WriteTarget, OneRequest, MayBegin, Begin, TypeOK, None
  <2>2. \A q \in Requests : Passing(q)'
    BY <1>2 DEF WriteTarget, OneRequest, MayBegin, Begin, TypeOK, None, Passing, AtRest, OneInCharge
  <2>3. NeverTwo'
    BY <1>2 DEF WriteTarget, Begin, TypeOK, None, Passing, NeverTwo
  <2>4. OneInCharge'
    BY <1>2 DEF WriteTarget, OneRequest, MayBegin, Begin, TypeOK, None, Passing, OneInCharge, AtRest
  <2> QED
    BY <1>0, <2>1, <2>2, <2>3, <2>4
<1>3. ASSUME NEW r \in Requests, WriteOutput(r) PROVE ControlInv'
  <2>1. OneRequest'
    BY <1>3 DEF WriteOutput, OneRequest, MayBegin, Begin, TypeOK, None
  <2>2. \A q \in Requests : Passing(q)'
    BY <1>3 DEF WriteOutput, OneRequest, MayBegin, Begin, TypeOK, None, Passing, AtRest, OneInCharge
  <2>3. NeverTwo'
    BY <1>3 DEF WriteOutput, Begin, TypeOK, None, Passing, NeverTwo
  <2>4. OneInCharge'
    BY <1>3 DEF WriteOutput, OneRequest, MayBegin, Begin, TypeOK, None, Passing, OneInCharge, AtRest
  <2> QED
    BY <1>0, <2>1, <2>2, <2>3, <2>4
<1>4. ASSUME NEW r \in Requests, Deactivate(r) PROVE ControlInv'
  <2>1. OneRequest'
    BY <1>4 DEF Deactivate, OneRequest, MayBegin, Begin, TypeOK, None
  <2>2. \A q \in Requests : Passing(q)'
    BY <1>4 DEF Deactivate, OneRequest, MayBegin, Begin, TypeOK, None, Passing, AtRest, OneInCharge
  <2>3. NeverTwo'
    BY <1>4 DEF Deactivate, Begin, TypeOK, None, Passing, NeverTwo
  <2>4. OneInCharge'
    BY <1>4 DEF Deactivate, OneRequest, MayBegin, Begin, TypeOK, None, Passing, OneInCharge, AtRest
  <2> QED
    BY <1>0, <2>1, <2>2, <2>3, <2>4
<1>5. ASSUME NEW r \in Requests, TakeControl(r) PROVE ControlInv'
  <2>1. OneRequest'
    BY <1>5 DEF TakeControl, OneRequest, MayBegin, Begin, TypeOK, None
  <2>2. \A q \in Requests : Passing(q)'
    BY <1>5 DEF TakeControl, OneRequest, MayBegin, Begin, TypeOK, None, Passing, AtRest, OneInCharge
  <2>3. NeverTwo'
    BY <1>5 DEF TakeControl, Begin, TypeOK, None, Passing, NeverTwo
  <2>4. OneInCharge'
    BY <1>5 DEF TakeControl, OneRequest, MayBegin, Begin, TypeOK, None, Passing, OneInCharge, AtRest
  <2> QED
    BY <1>0, <2>1, <2>2, <2>3, <2>4
<1>6. ASSUME NEW r \in Requests, SetActive(r) PROVE ControlInv'
  <2>1. OneRequest'
    BY <1>6 DEF SetActive, OneRequest, MayBegin, Begin, TypeOK, None
  <2>2. \A q \in Requests : Passing(q)'
    BY <1>6 DEF SetActive, OneRequest, MayBegin, Begin, TypeOK, None, Passing, AtRest, OneInCharge
  <2>3. NeverTwo'
    BY <1>6 DEF SetActive, Begin, TypeOK, None, Passing, NeverTwo
  <2>4. OneInCharge'
    BY <1>6 DEF SetActive, OneRequest, MayBegin, Begin, TypeOK, None, Passing, OneInCharge, AtRest
  <2> QED
    BY <1>0, <2>1, <2>2, <2>3, <2>4
<1>7. ASSUME NEW r \in Requests, OwnTarget(r) PROVE ControlInv'
  <2>1. OneRequest'
    BY <1>7 DEF OwnTarget, OneRequest, MayBegin, Begin, TypeOK, None
  <2>2. \A q \in Requests : Passing(q)'
    BY <1>7 DEF OwnTarget, OneRequest, MayBegin, Begin, TypeOK, None, Passing, AtRest, OneInCharge
  <2>3. NeverTwo'
    BY <1>7 DEF OwnTarget, Begin, TypeOK, None, Passing, NeverTwo
  <2>4. OneInCharge'
    BY <1>7 DEF OwnTarget, OneRequest, MayBegin, Begin, TypeOK, None, Passing, OneInCharge, AtRest
  <2> QED
    BY <1>0, <2>1, <2>2, <2>3, <2>4
<1>8. ASSUME NEW i \in Inputs, Poll(i) \/ UpdateTarget(i) PROVE ControlInv'
  BY <1>0, <1>8 DEF Poll, UpdateTarget, OneRequest, Passing, OneInCharge, NeverTwo, AtRest
<1> QED
  BY <1>1, <1>2, <1>3, <1>4, <1>5, <1>6, <1>7, <1>8 DEF Next, Request

LEMMA ControlInvHolds == ASSUME Serial PROVE Spec => []ControlInv
BY ControlInit, ControlStep, PTL DEF Spec

\* One output never follows two controllers, whatever is requested of it and
\* of them (activate_control, self_controlled), one request at a time.
THEOREM NeverTwoHolds == ASSUME Serial PROVE Spec => []NeverTwo
<1>1. ControlInv => NeverTwo
  BY DEF ControlInv
<1> QED
  BY <1>1, ControlInvHolds, PTL

\* Between the requests, controlled_by names the active controller.
THEOREM OneInChargeHolds == ASSUME Serial PROVE Spec => []OneInCharge
<1>1. ControlInv => OneInCharge
  BY DEF ControlInv
<1> QED
  BY <1>1, ControlInvHolds, PTL

\* Both together: one controller per output, and the one which is named.
THEOREM OneControllerHolds == ASSUME Serial PROVE Spec => []OneController
<1>1. ControlInv => OneController
  BY DEF ControlInv, OneController
<1> QED
  BY <1>1, ControlInvHolds, PTL

(***************************************************************************)
(* Server                                                                  *)
(***************************************************************************)

\* no interface is running
Over == \A i \in Ifaces : thread[i] \in {"none", "ended", "failed"}

\* An interface is waited for until it serves or has failed, and is listed before it serves.
ServerInv ==
  /\ DOMAIN thread = Ifaces /\ thread = [i \in Ifaces |-> thread[i]]
  /\ main \in {"top", "config", "clean"} => Over
  /\ main \in {"deadline", "deadlines", "wait", "check", "join"} =>
       \A i \in Ifaces :
         /\ thread[i] # "none"
         /\ thread[i] \in {"binding", "registered"} => i \in events
         /\ thread[i] \notin {"binding", "failed"} => <<gen, i>> \in interfaces
  /\ main \in {"check", "join"} /\ ~late => events = {}

LEMMA ServerInit == Srv!Init => ServerInv
BY DEF Srv!Init, ServerInv, Over

LEMMA ServerStep == ServerInv /\ Srv!Next => ServerInv'
<1> SUFFICES ASSUME ServerInv, Srv!Next PROVE ServerInv'
  OBVIOUS
<1> USE DEF ServerInv, Over, Srv!callVars
<1>1. CASE Srv!Run
  BY <1>1 DEF Srv!Run, Srv!Main, Srv!Top, Srv!Finish, Srv!Spawn, Srv!NothingToWaitFor, Srv!Deadline,
     Srv!Looked, Srv!Waited, Srv!TimedOut, Srv!NoInterface, Srv!Announce, Srv!Join, Srv!CleanUp,
     Srv!AllEnded
<1>2. ASSUME NEW i \in Ifaces, Srv!InterfaceThread(i) PROVE ServerInv'
  BY <1>2 DEF Srv!InterfaceThread, Srv!Register, Srv!Started, Srv!BindFails, Srv!Stopped, Srv!Exit,
     Srv!Goes, Srv!Triggers
<1>3. ASSUME NEW c \in Callers, Srv!Restart(c) \/ Srv!Shutdown(c) \/ Srv!Caller(c) PROVE ServerInv'
  BY <1>3 DEF Srv!Restart, Srv!Shutdown, Srv!Caller, Srv!AskToStop, Srv!HasStopped, Srv!Return,
     Srv!serverVars
<1>4. CASE Srv!Interrupt
  BY <1>4 DEF Srv!Interrupt
<1> QED
  BY <1>1, <1>2, <1>3, <1>4 DEF Srv!Next

LEMMA ServerSafe == ServerInv => Srv!AllDecided /\ Srv!CleanupLast
BY DEF ServerInv, Over, Srv!AllDecided, Srv!CleanupLast

(***************************************************************************)
(* Sequencer                                                               *)
(***************************************************************************)

Ramp(a) == Sqc!Step("ramp", a)
Polarity(s) == Sqc!Step("polarity", s)
Last == Sqc!Step("finish", 0)
First == Sqc!Step("prepare", 0)

\* nothing moves, and this is known
Calm == value = current /\ source = current

\* the current goes to a, or does not move
Ramping(a) ==
  /\ source = current \/ source = a
  /\ value = a => current = a /\ source = a

\* the steps which may be left, and what holds before the first of them
Left(q) ==
  \/ q = << >> /\ source = current
  \/ q = <<Last>> /\ source = current
  \/ \E a \in Nat : q = <<Ramp(a), Last>> /\ Ramping(a)
  \/ \E a \in Nat, s \in Int : q = <<Polarity(s), Ramp(a), Last>> /\ Calm /\ current = 0
  \/ \E a \in Nat, s \in Int : q = <<Ramp(0), Polarity(s), Ramp(a), Last>> /\ Ramping(0)
  \/ \E a \in Nat : q = <<First, Ramp(a), Last>> /\ Calm
  \/ \E a \in Nat, s \in Int : q = <<First, Polarity(s), Ramp(a), Last>> /\ Calm /\ current = 0
  \/ \E a \in Nat, s \in Int : q = <<First, Ramp(0), Polarity(s), Ramp(a), Last>> /\ Calm

Planned == Left(seq)
SequencerInv ==
  /\ Planned /\ {current, source, value} \subseteq Nat
  /\ thread = "none" <=> seq = << >>

LEMMA SequencerInit == Sqc!Init => SequencerInv
BY DEF Sqc!Init, SequencerInv, Planned, Left

LEMMA SequenceStarts == ASSUME SequencerInv, NEW t \in Int, Sqc!WriteTarget(t) PROVE SequencerInv'
<1> DEFINE a == Sqc!Size(t)
           s == Sqc!Sign(t)
<1>1. /\ thread = "none" /\ thread' = "step" /\ value' = current /\ UNCHANGED <<current, source>>
      /\ \/ seq' = <<First>> \o << >> \o << >> \o <<Ramp(a), Last>>
         \/ /\ current > 0
            /\ seq' = <<First>> \o <<Ramp(0)>> \o <<Polarity(s)>> \o <<Ramp(a), Last>>
         \/ /\ ~(current > 0)
            /\ seq' = <<First>> \o << >> \o <<Polarity(s)>> \o <<Ramp(a), Last>>
  BY DEF Sqc!WriteTarget, Sqc!source_, Ramp, Polarity, First, Last
<1>2. a \in Nat /\ s \in Int
  BY DEF Sqc!Size, Sqc!Sign
<1> HIDE DEF a, s
<1>3. \/ seq' = <<First, Ramp(a), Last>>
      \/ seq' = <<First, Ramp(0), Polarity(s), Ramp(a), Last>>
      \/ ~(current > 0) /\ seq' = <<First, Polarity(s), Ramp(a), Last>>
  BY <1>1
<1>4. source = current /\ current \in Nat
  BY <1>1 DEF SequencerInv, Planned, Left
<1>5. Calm' /\ {current, source, value}' \subseteq Nat
  BY <1>1, <1>4 DEF Calm
<1>6. Planned'
  BY <1>1, <1>2, <1>3, <1>4, <1>5 DEF Planned, Left, Calm, Ramping
<1> QED
  BY <1>1, <1>3, <1>5, <1>6 DEF SequencerInv

\* The first step, and what holds when it is over.
LEMMA FirstStep ==
  ASSUME SequencerInv, seq # << >>
  PROVE  \/ Head(seq) = First /\ source = current /\ Left(Tail(seq))
         \/ Head(seq) = Last /\ source = current /\ Left(Tail(seq))
         \/ \E s \in Int : Head(seq) = Polarity(s) /\ source = 0 /\ current = 0 /\ Left(Tail(seq))
         \/ \E a \in Nat : Head(seq) = Ramp(a) /\ Ramping(a) /\ (value = a => Left(Tail(seq)))
<1> USE DEF SequencerInv
<1>1. CASE seq = <<Last>>
  BY <1>1 DEF Planned, Left, First, Last, Ramp, Polarity, Sqc!Step
<1>2. ASSUME NEW a \in Nat, seq = <<Ramp(a), Last>>, Ramping(a)
      PROVE  Head(seq) = Ramp(a) /\ (value = a => Left(Tail(seq)))
  BY <1>2 DEF Left, Ramping
<1>3. ASSUME NEW a \in Nat, NEW s \in Int, seq = <<Polarity(s), Ramp(a), Last>>, Calm, current = 0
      PROVE  Head(seq) = Polarity(s) /\ source = 0 /\ current = 0 /\ Left(Tail(seq))
  <2>1. Tail(seq) = <<Ramp(a), Last>> /\ Head(seq) = Polarity(s)
    BY <1>3
  <2>2. Ramping(a)
    BY <1>3 DEF Calm, Ramping
  <2> QED
    BY <1>3, <2>1, <2>2 DEF Left, Calm
<1>4. ASSUME NEW a \in Nat, NEW s \in Int, seq = <<Ramp(0), Polarity(s), Ramp(a), Last>>, Ramping(0)
      PROVE  Head(seq) = Ramp(0) /\ (value = 0 => Left(Tail(seq)))
  <2>1. Tail(seq) = <<Polarity(s), Ramp(a), Last>> /\ Head(seq) = Ramp(0)
    BY <1>4
  <2> QED
    BY <1>4, <2>1 DEF Left, Calm, Ramping
<1>5. ASSUME NEW a \in Nat, seq = <<First, Ramp(a), Last>>, Calm
      PROVE  Head(seq) = First /\ source = current /\ Left(Tail(seq))
  <2>1. Tail(seq) = <<Ramp(a), Last>> /\ Head(seq) = First
    BY <1>5
  <2> QED
    BY <1>5, <2>1 DEF Left, Calm, Ramping
<1>6. ASSUME NEW a \in Nat, NEW s \in Int, seq = <<First, Polarity(s), Ramp(a), Last>>, Calm, current = 0
      PROVE  Head(seq) = First /\ source = current /\ Left(Tail(seq))
  <2>1. Tail(seq) = <<Polarity(s), Ramp(a), Last>> /\ Head(seq) = First
    BY <1>6
  <2> QED
    BY <1>6, <2>1 DEF Left, Calm
<1>7. ASSUME NEW a \in Nat, NEW s \in Int, seq = <<First, Ramp(0), Polarity(s), Ramp(a), Last>>, Calm
      PROVE  Head(seq) = First /\ source = current /\ Left(Tail(seq))
  <2>1. Tail(seq) = <<Ramp(0), Polarity(s), Ramp(a), Last>> /\ Head(seq) = First
    BY <1>7
  <2> QED
    BY <1>7, <2>1 DEF Left, Calm, Ramping
<1> QED
  BY <1>1, <1>2, <1>3, <1>4, <1>5, <1>6, <1>7 DEF Planned, Left

LEMMA StepFunctionKeeps == SequencerInv /\ Sqc!StepFunction => SequencerInv'
<1> SUFFICES ASSUME SequencerInv, Sqc!StepFunction PROVE SequencerInv'
  OBVIOUS
<1>1. UNCHANGED <<current, value>> /\ {current, value} \subseteq Nat
  BY DEF Sqc!StepFunction, SequencerInv
<1>2. thread = "step" /\ seq # << >>
  BY DEF Sqc!StepFunction, Sqc!Repeating, Sqc!Completing, Sqc!StoppedInRamp, Sqc!StoppedElsewhere,
     Sqc!Fails, Sqc!SetCurrent, Sqc!Arrived, Sqc!SwitchBusy, Sqc!MoveSwitch, Sqc!Prepare, Sqc!Finish,
     Sqc!SwitchArrived, Sqc!At, SequencerInv
<1> USE DEF Sqc!At, Sqc!Arg, Sqc!source_, Sqc!windows, Sqc!switch_, First, Last, Ramp, Polarity, Sqc!Step
<1>3. CASE Sqc!Repeating
  <2>1. seq' = seq /\ thread' = "sleep"
    BY <1>3 DEF Sqc!Repeating, Sqc!Again
  <2>2. CASE source' = source
    BY <1>1, <1>2, <2>1, <2>2 DEF SequencerInv, Planned, Left, Calm, Ramping
  <2>3. CASE source' # source
    <3>1. Head(seq).desc = "ramp" /\ value # Head(seq).arg /\ source' = Head(seq).arg
      BY <1>3, <2>3 DEF Sqc!Repeating, Sqc!SetCurrent, Sqc!Arrived, Sqc!SwitchBusy, Sqc!MoveSwitch
    <3>2. PICK a \in Nat : Head(seq) = Ramp(a) /\ Ramping(a)
      BY <1>2, <3>1, FirstStep
    <3>3. source' = a /\ value # a
      BY <3>1, <3>2
    <3>4. ASSUME NEW b \in Nat, Head(seq) = Ramp(b) PROVE Ramping(b)'
      BY <1>1, <3>2, <3>3, <3>4 DEF Ramping
    <3>5. Left(seq)'
      <4>1. /\ seq # <<Last>>
            /\ \A b \in Nat : seq # <<First, Ramp(b), Last>>
            /\ \A b \in Nat, s \in Int :
                 /\ seq # <<Polarity(s), Ramp(b), Last>>
                 /\ seq # <<First, Polarity(s), Ramp(b), Last>>
                 /\ seq # <<First, Ramp(0), Polarity(s), Ramp(b), Last>>
        BY <3>1
      <4> HIDE DEF First, Last, Ramp, Polarity, Sqc!Step
      <4>2. /\ \A b \in Nat : seq = <<Ramp(b), Last>> => Ramping(b)'
            /\ \A b \in Nat, s \in Int : seq = <<Ramp(0), Polarity(s), Ramp(b), Last>> => Ramping(0)'
        BY <3>4
      <4>3. Left(seq)
        BY DEF SequencerInv, Planned
      <4> QED
        BY <1>2, <2>1, <4>1, <4>2, <4>3 DEF Left
    <3>6. source' \in Nat
      BY <3>3
    <3> QED
      BY <1>1, <1>2, <2>1, <3>5, <3>6 DEF SequencerInv, Planned
  <2> QED
    BY <2>2, <2>3
<1>4. CASE Sqc!Completing
  <2>1. /\ seq' = Tail(seq) /\ source' = source
        /\ thread' = IF seq' = << >> THEN "none" ELSE "sleep"
        /\ Head(seq).desc = "ramp" => value = Head(seq).arg
    BY <1>4 DEF Sqc!Completing, Sqc!Done, Sqc!Prepare, Sqc!Finish, Sqc!Arrived, Sqc!SwitchArrived
  <2>2. Left(Tail(seq))
    BY <1>2, <2>1, FirstStep
  <2>3. Left(seq)'
    BY <1>1, <2>1, <2>2 DEF Left, Calm, Ramping
  <2> QED
    BY <1>1, <2>1, <2>3 DEF SequencerInv, Planned
<1>5. CASE Sqc!StoppedInRamp \/ Sqc!StoppedElsewhere \/ Sqc!Fails
  <2>1. seq' = << >> /\ thread' = "none"
    BY <1>5 DEF Sqc!StoppedInRamp, Sqc!StoppedElsewhere, Sqc!Fails, Sqc!Stopped
  <2>2. source' = current
    <3>1. CASE Head(seq).desc = "ramp"
      BY <1>5, <3>1 DEF Sqc!StoppedInRamp, Sqc!StoppedElsewhere, Sqc!Fails, Sqc!Prepare, Sqc!Finish,
         Sqc!SwitchBusy, Sqc!SwitchArrived, Sqc!MoveSwitch
    <3>2. CASE Head(seq).desc # "ramp"
      <4>1. source = current
        BY <1>2, <3>2, FirstStep
      <4> QED
        BY <1>5, <3>2, <4>1 DEF Sqc!StoppedInRamp, Sqc!StoppedElsewhere, Sqc!Fails, Sqc!Prepare, Sqc!Finish,
           Sqc!SwitchBusy, Sqc!SwitchArrived, Sqc!MoveSwitch
    <3> QED
      BY <3>1, <3>2
  <2> QED
    BY <1>1, <2>1, <2>2 DEF SequencerInv, Planned, Left
<1> QED
  BY <1>3, <1>4, <1>5 DEF Sqc!StepFunction

LEMMA SequencerStep == SequencerInv /\ Sqc!Next => SequencerInv'
<1> SUFFICES ASSUME SequencerInv, Sqc!Next PROVE SequencerInv'
  OBVIOUS
<1> USE DEF SequencerInv, Planned, Left, Calm, Ramping
<1>1. ASSUME NEW t \in Sqc!Targets, Sqc!WriteTarget(t) PROVE SequencerInv'
  <2>1. t \in Int
    BY DEF Sqc!Targets
  <2> QED
    BY <1>1, <2>1, SequenceStarts
<1>2. CASE Sqc!Sequence
  <2>1. CASE Sqc!StepFunction
    BY <2>1, StepFunctionKeeps
  <2>2. CASE Sqc!Wake
    BY <2>2 DEF Sqc!Wake, Sqc!source_
  <2> QED
    BY <1>2, <2>1, <2>2 DEF Sqc!Sequence
<1>3. CASE Sqc!Hardware
  BY <1>3 DEF Sqc!Hardware, Sqc!MoveCurrent, Sqc!TurnSwitch, Sqc!seqVars, Sqc!source_
<1>4. CASE Sqc!PollSource \/ Sqc!PollSwitch \/ Sqc!Stop
  BY <1>4 DEF Sqc!PollSource, Sqc!PollSwitch, Sqc!Stop, Sqc!seqVars, Sqc!source_
<1> QED
  BY <1>1, <1>2, <1>3, <1>4 DEF Sqc!Next

\* Only a step of the sequence thread moves the switch, and it finds the current at zero.
LEMMA SwitchStep == SequencerInv /\ Sqc!Next /\ polTarget' # polTarget => current = 0 /\ source = 0
<1> SUFFICES ASSUME SequencerInv, Sqc!Next, polTarget' # polTarget PROVE current = 0 /\ source = 0
  OBVIOUS
<1>1. thread = "step" /\ Head(seq).desc = "polarity"
  BY DEF Sqc!Next, Sqc!WriteTarget, Sqc!Stop, Sqc!Sequence, Sqc!Wake, Sqc!StepFunction, Sqc!Repeating,
     Sqc!Completing, Sqc!StoppedInRamp, Sqc!StoppedElsewhere, Sqc!Fails, Sqc!Prepare, Sqc!Finish,
     Sqc!Arrived, Sqc!SetCurrent, Sqc!SwitchBusy, Sqc!SwitchArrived, Sqc!MoveSwitch, Sqc!At,
     Sqc!Hardware, Sqc!MoveCurrent, Sqc!TurnSwitch, Sqc!PollSource, Sqc!PollSwitch, Sqc!Poll,
     Sqc!switch_
<1> QED
  BY <1>1, FirstStep DEF SequencerInv, First, Last, Ramp, Polarity, Sqc!Step

(***************************************************************************)
(* Magfield                                                                *)
(***************************************************************************)

\* state functions which are left within the cycle
WithinCycle == {"go_persistent_soon", "start_field_change", "start_ramp_to_field", "stabilize_current",
            "start_switch_on", "start_ramp_to_target", "stabilize_field", "start_switch_off",
            "start_ramp_to_zero"}

\* The attributes of the machine, and requests, are what they seem to be.
MagTyped ==
  /\ st \in Mag!States /\ turn \in {"poll", "cycle"}
  /\ heater \in {"on", "off"} /\ sw \in {"open", "closed"} /\ act \in {"hold", "set", "zero"}
  /\ next # Mag!NoStart => next.f \in {"go_persistent_soon", "start_field_change", "start_switch_off"}
  /\ write # Mag!NoWrite => write.p \in {"mode", "target"}
  /\ sm = [target |-> sm.target, mode |-> sm.mode, try |-> sm.try, after |-> sm.after]
  /\ st = "wait_for_switch" => sm.after \in {"ramp_to_field", "ramp_to_target", "ramp_to_zero"}
  /\ st \in WithinCycle => turn = "cycle"

\* what holds of the coil wherever the machine is
Coil ==
  /\ heater = "on" \/ sw = "open" => leads = field
  /\ heater = "off" \/ sw = "closed" \/ turn = "cycle" => pf = field
  /\ Mag!Refused => Mag!Stuck
  /\ value = pf
  /\ act = "zero" => heater = "off" /\ sw = "closed" /\ st = "ramp_to_zero"

WaitsFor(f) == st = "wait_for_switch" /\ sm.after = f

\* what is known in each state function
Places ==
  /\ \/ st \in {"wait_for_switch_on", "start_ramp_to_target", "ramp_to_target", "stabilize_field"}
     \/ WaitsFor("ramp_to_target")
     => heater = "on"
  /\ \/ st \in {"start_ramp_to_field", "ramp_to_field", "stabilize_current", "wait_for_switch_off",
                "start_ramp_to_zero", "ramp_to_zero"}
     \/ WaitsFor("ramp_to_field") \/ WaitsFor("ramp_to_zero")
     => heater = "off"
  /\ st \in Mag!Rest \cup {"go_persistent_soon", "start_field_change", "start_ramp_to_field"}
     => act = "hold"
  /\ st \in {"stabilize_current", "start_switch_on"} => leads = value
  /\ st \in {"stabilize_current", "start_switch_on", "wait_for_switch_on", "start_ramp_to_target",
             "stabilize_field", "start_switch_off"}
     => Mag!Stuck
  /\ st = "ramp_to_field" => Mag!Stuck \/ (act = "set" /\ setpoint = pf)
  /\ st = "ramp_to_target" => Mag!Stuck \/ (act = "set" /\ setpoint = sm.target)

\* the target, also when write_target has not returned
Goal == IF write.p = "target" THEN write.target ELSE target

\* where the machine is going to, and that it is there at rest
Goals ==
  /\ next # Mag!NoStart =>
       IF next.f = "go_persistent_soon" THEN write = Mag!NoWrite ELSE next.target = Goal
  /\ next # Mag!NoStart /\ next.f = "start_switch_off" =>
       next.target = value /\ (heater = "on" => value = leads)
  /\ next = Mag!NoStart =>
       /\ st = "go_persistent_soon" => write = Mag!NoWrite
       /\ st \notin Mag!Rest \cup {"go_persistent_soon"} => sm.target = Goal
       /\ st \in Mag!Rest \ {"ERROR"} => Goal = field
       /\ st = "IDLE" => heater = "off" \/ initp
  /\ initp => write = Mag!NoWrite /\ mode = "PERSISTENT"
  /\ \/ st \in {"start_switch_off", "wait_for_switch_off", "start_ramp_to_zero", "ramp_to_zero",
                "stabilize_field"}
     \/ WaitsFor("ramp_to_zero")
     => sm.target = value
  /\ st = "DISABLED" => value = 0 /\ leads = 0 /\ heater = "off"

MagfieldInv == MagTyped /\ Coil /\ Places /\ Goals

LEMMA MagfieldInit == Mag!Init => MagfieldInv
BY DEF Mag!Init, MagfieldInv, MagTyped, Coil, Places, Goals, Goal, WaitsFor, WithinCycle, Mag!States, Mag!Rest,
          Mag!NoStart, Mag!NoWrite, Mag!Refused, Mag!Stuck

\* requests, the poll thread between the cycles, and a start taken over
LEMMA MagfieldRequests ==
  ASSUME MagfieldInv, Mag!WriteRequests \/ Mag!WriteReturns \/ Mag!Poll \/ Mag!NothingToDo \/ Mag!Restarted
  PROVE  MagfieldInv'
<1> USE DEF MagfieldInv, MagTyped, Coil, Places, Goals, Goal, WaitsFor, WithinCycle, Mag!States, Mag!Rest,
          Mag!NoStart, Mag!NoWrite, Mag!Refused, Mag!Stuck,
          Mag!StartMachine, Mag!EndOfCycle, Mag!hard
<1>1. ASSUME NEW m \in Mag!Modes, Mag!WriteMode(m) PROVE MagfieldInv'
  BY <1>1 DEF Mag!WriteMode, Mag!Called, Mag!Modes
<1>2. ASSUME NEW t \in Mag!Fields, Mag!WriteTarget(t) PROVE MagfieldInv'
  BY <1>2 DEF Mag!WriteTarget, Mag!Called
<1>3. CASE Mag!WriteReturns
  BY <1>3 DEF Mag!WriteReturns
<1>4. CASE Mag!Poll
  BY <1>4 DEF Mag!Poll
<1>5. CASE Mag!NothingToDo
  BY <1>5 DEF Mag!NothingToDo
<1>6. CASE Mag!Restarted
  <2>1. sm' = [target |-> next.target, mode |-> next.mode, try |-> sm.try, after |-> sm.after]
    BY <1>6 DEF Mag!Restarted
  <2>2. MagTyped'
    BY <1>6, <2>1 DEF Mag!Restarted
  <2>3. Coil'
    BY <1>6, <2>1 DEF Mag!Restarted
  <2>4. Places'
    BY <1>6, <2>1 DEF Mag!Restarted
  <2>5. Goals'
    BY <1>6, <2>1 DEF Mag!Restarted
  <2> QED
    BY <2>2, <2>3, <2>4, <2>5
<1> QED
  BY <1>1, <1>2, <1>3, <1>4, <1>5, <1>6 DEF Mag!WriteRequests

LEMMA MagfieldStateFunction == ASSUME MagfieldInv, Mag!StateFunction PROVE MagfieldInv'
<1> USE DEF MagfieldInv, MagTyped, Coil, Places, Goals, Goal, WaitsFor, WithinCycle, Mag!States, Mag!Rest,
          Mag!NoStart, Mag!NoWrite, Mag!Refused, Mag!Stuck,
          Mag!In, Mag!Goto, Mag!Retry, Mag!EndOfCycle, Mag!Quiet, Mag!SwitchLeft, Mag!NotDone,
          Mag!SetHeater, Mag!Finish, Mag!Fail, Mag!SetAndGo, Mag!CheckSwitchOff, Mag!TryAgain, Mag!Current
<1>1. CASE Mag!GoPersistentSoon
  BY <1>1 DEF Mag!GoPersistentSoon
<1>2. CASE Mag!StartFieldChange
  BY <1>2 DEF Mag!StartFieldChange
<1>3. CASE Mag!StartRampToField
  BY <1>3 DEF Mag!StartRampToField
<1>4. CASE Mag!RampToField
  <2>1. sm' = [target |-> sm.target, mode |-> sm.mode, try |-> sm'.try, after |-> sm.after]
    BY <1>4 DEF Mag!RampToField
  <2>2. MagTyped'
    BY <1>4, <2>1 DEF Mag!RampToField
  <2>3. Coil'
    BY <1>4, <2>1 DEF Mag!RampToField
  <2>4. Places'
    BY <1>4, <2>1 DEF Mag!RampToField
  <2>5. Goals'
    BY <1>4, <2>1 DEF Mag!RampToField
  <2> QED
    BY <2>2, <2>3, <2>4, <2>5
<1>5. CASE Mag!StabilizeCurrent
  BY <1>5 DEF Mag!StabilizeCurrent
<1>6. CASE Mag!StartSwitchOn
  BY <1>6 DEF Mag!StartSwitchOn
<1>7. CASE Mag!WaitForSwitchOn
  BY <1>7 DEF Mag!WaitForSwitchOn
<1>8. CASE Mag!StartRampToTarget
  <2>1. sm' = [target |-> sm.target, mode |-> sm.mode, try |-> Tries,
               after |-> IF Mag!Refused THEN "ramp_to_target" ELSE sm.after]
    BY <1>8 DEF Mag!StartRampToTarget
  <2>2. MagTyped'
    BY <1>8, <2>1 DEF Mag!StartRampToTarget
  <2>3. Coil'
    BY <1>8, <2>1 DEF Mag!StartRampToTarget
  <2>4. Places'
    BY <1>8, <2>1 DEF Mag!StartRampToTarget
  <2>5. Goals'
    BY <1>8, <2>1 DEF Mag!StartRampToTarget
  <2> QED
    BY <2>2, <2>3, <2>4, <2>5
<1>9. CASE Mag!RampToTarget
  BY <1>9 DEF Mag!RampToTarget
<1>10. CASE Mag!StabilizeField
  BY <1>10 DEF Mag!StabilizeField
<1>11. CASE Mag!StartSwitchOff
  BY <1>11 DEF Mag!StartSwitchOff
<1>12. CASE Mag!WaitForSwitchOff
  BY <1>12 DEF Mag!WaitForSwitchOff
<1>13. CASE Mag!StartRampToZero
  BY <1>13 DEF Mag!StartRampToZero
<1>14. CASE Mag!RampToZero
  BY <1>14 DEF Mag!RampToZero
<1>15. CASE Mag!WaitForSwitch
  BY <1>15 DEF Mag!WaitForSwitch
<1> HIDE DEF MagfieldInv
<1> QED
  BY <1>1, <1>2, <1>3, <1>4, <1>5, <1>6, <1>7, <1>8,
     <1>9, <1>10, <1>11, <1>12, <1>13, <1>14, <1>15 DEF Mag!StateFunction

LEMMA MagfieldHardware == ASSUME MagfieldInv, Mag!Hardware \/ Mag!ServerRestarts PROVE MagfieldInv'
<1> USE DEF MagfieldInv, MagTyped, Coil, Places, Goals, Goal, WaitsFor, WithinCycle, Mag!States, Mag!Rest,
          Mag!NoStart, Mag!NoWrite, Mag!Refused, Mag!Stuck
<1>1. CASE Mag!LeadsMove
  BY <1>1 DEF Mag!LeadsMove, Mag!soft
<1>2. CASE Mag!SwitchMoves
  BY <1>2 DEF Mag!SwitchMoves, Mag!soft
<1>3. CASE Mag!WaitOver
  BY <1>3 DEF Mag!WaitOver, Mag!hard
<1>4. CASE Mag!ServerRestarts
  BY <1>4 DEF Mag!ServerRestarts, Mag!hard
<1> QED
  BY <1>1, <1>2, <1>3, <1>4 DEF Mag!Hardware

LEMMA MagfieldStep == MagfieldInv /\ Mag!Next => MagfieldInv'
BY MagfieldRequests, MagfieldStateFunction, MagfieldHardware DEF Mag!Next, Mag!Machine

\* What the invariant says of the switch, and of a machine at rest.
LEMMA MagfieldSafe ==
  MagfieldInv => Mag!OpensMatched /\ Mag!FieldStays /\ Mag!Remembered /\ Mag!RestsAsSaid
BY DEF Mag!OpensMatched, Mag!FieldStays, Mag!Remembered, Mag!RestsAsSaid, Mag!Settled,
       MagfieldInv, MagTyped, Coil, Places, Goals, Goal, WaitsFor, WithinCycle, Mag!States, Mag!Rest,
          Mag!NoStart, Mag!NoWrite, Mag!Refused, Mag!Stuck

(***************************************************************************)
(* StructParam                                                             *)
(***************************************************************************)

\* the struct is read or written through its members
Whole == ~hasStructRW /\ op.whole

StructTyped ==
  /\ hasStructRW \in BOOLEAN /\ doubt \in BOOLEAN
  /\ hw \in Str!Structs /\ member \in Str!Structs /\ struct \in Str!Structs
  /\ op.at \in Str!Steps

OpSet == [at : Str!Steps, todo : Seq(Members), whole : BOOLEAN, write : BOOLEAN,
          goal : Str!Structs, got : Str!Structs, clean : BOOLEAN]

OpTyped ==
  op.at # "idle" =>
    /\ op \in OpSet
    /\ op.at \in {"member", "announce"} => op.todo # << >>
    /\ op.at = "leave" => op.todo = << >>
    /\ hasStructRW => /\ op.at \in {"struct", "announce", "whole"}
                      /\ op.whole => op.todo = << >>
                      /\ Len(op.todo) <= 1
    /\ ~hasStructRW => /\ op.at # "struct"
                       /\ op.at \in {"leave", "whole"} => op.whole /\ op.todo = << >>

Counted ==
  insideRW = IF op.at \in {"member", "announce", "leave"} /\ Whole THEN 1 ELSE 0

\* what was read or written of the members was announced, but for those still to come
Gathered ==
  op.at # "idle" /\ Whole /\ op.clean =>
    \A m \in Members : (\A i \in 1 .. Len(op.todo) : op.todo[i] # m) => op.got[m] = member[m]

Doubted == op.at # "idle" /\ ~op.clean => doubt

Together ==
  /\ ~doubt /\ (op.at = "idle" \/ ~Whole) => struct = member
  /\ ~doubt /\ hasStructRW /\ op.at = "announce" => op.got = struct

StructInv == StructTyped /\ OpTyped /\ Counted /\ Gathered /\ Doubted /\ Together

\* SetToSeq gives a sequence with all elements of the set.
LEMMA AllInOrder ==
  /\ Str!InOrder \in Seq(Members) /\ Str!InOrder # << >>
  /\ \A m \in Members : \E i \in 1 .. Len(Str!InOrder) : Str!InOrder[i] = m
<1> DEFINE n == Cardinality(Members)
           Is(f) == f \in [1 .. n -> Members] /\ Str!IsInjective(f)
<1>1. n \in Nat /\ ExistsBijection(1 .. n, Members)
  BY FS_CardinalityType, MembersAssumption
<1>2. \E f \in [1 .. n -> Members] : Str!IsInjective(f)
  BY <1>1 DEF ExistsBijection, Bijection, Injection, IsInjective, Str!IsInjective
<1>a. Str!Cardinality(Members) = n
  BY DEF Str!Cardinality, Cardinality, IsFiniteSet, Str!IsFiniteSet
<1>3. Str!InOrder \in [1 .. n -> Members] /\ Str!IsInjective(Str!InOrder)
  BY <1>2, <1>a DEF Str!InOrder, Str!SetToSeq
<1> HIDE DEF n
<1>4. Str!InOrder \in Injection(1 .. n, Members)
  BY <1>3 DEF Injection, IsInjective, Str!IsInjective
<1>5. Cardinality(1 .. n) = n
  BY <1>1, FS_Interval
<1>6. Str!InOrder \in Surjection(1 .. n, Members)
  BY <1>4, <1>5, FS_Injection, MembersAssumption DEF n
<1>7. Str!InOrder \in Seq(Members) /\ Len(Str!InOrder) = n
  BY <1>1, <1>3
<1>8. \A m \in Members : \E i \in 1 .. n : Str!InOrder[i] = m
  BY <1>6 DEF Surjection
<1> QED
  BY <1>7, <1>8, MembersAssumption

LEMMA StructInit == Str!Init => StructInv
<1> SUFFICES ASSUME Str!Init PROVE StructInv
  OBVIOUS
<1> USE DEF Str!Init, Str!NoOp
<1>1. StructTyped
  BY DEF StructTyped, Str!Steps
<1>2. OpTyped /\ Counted /\ Gathered /\ Doubted /\ Together
  BY DEF OpTyped, Counted, Gathered, Doubted, Together
<1> QED
  BY <1>1, <1>2 DEF StructInv

LEMMA StructBegin ==
  ASSUME StructInv, NEW those \in Seq(Members), those # << >>,
         NEW whole \in BOOLEAN, NEW w \in BOOLEAN, NEW goal \in Str!Structs,
         whole => \A m \in Members : \E i \in 1 .. Len(those) : those[i] = m,
         ~whole => Len(those) = 1,
         Str!Begin(those, whole, w, goal)
  PROVE  StructInv'
<1> USE DEF Str!Begin, StructInv
<1>1. StructTyped' /\ Doubted'
  BY DEF StructTyped, Str!Steps, Doubted
<1>2. op' \in OpSet
  BY DEF StructTyped, Str!Steps, OpSet
<1>3. OpTyped'
  <2>1. hasStructRW' = hasStructRW /\ op'.whole = whole
        /\ op'.at = (IF hasStructRW THEN "struct" ELSE "member")
        /\ op'.todo = (IF hasStructRW /\ whole THEN << >> ELSE those)
    OBVIOUS
  <2>2. Len(op'.todo) <= 1 \/ ~hasStructRW
    <3> HIDE DEF Str!Begin, StructInv
    <3>1. CASE hasStructRW /\ whole
      BY <2>1, <3>1
    <3>2. CASE hasStructRW /\ ~whole
      <4>1. op'.todo = those /\ Len(those) = 1
        BY <2>1, <3>2
      <4> QED
        BY <4>1
    <3> QED
      BY <3>1, <3>2
  <2> QED
    BY <1>2, <2>1, <2>2 DEF OpTyped, StructTyped, OpSet
<1>4. Counted' /\ Together'
  BY DEF Counted, Whole, Together, StructTyped
<1>5. Gathered'
  BY DEF Gathered, Whole, Together, StructTyped
<1> QED
  BY <1>1, <1>3, <1>4, <1>5

LEMMA StructMembers ==
  StructInv /\ (Str!MemberMethod \/ Str!MemberAnnounced \/ Str!LeaveMembers) => StructInv'
<1> SUFFICES ASSUME StructInv PROVE
      Str!MemberMethod \/ Str!MemberAnnounced \/ Str!LeaveMembers => StructInv'
  OBVIOUS
<1> DEFINE h == Head(op.todo)
<1> USE DEF StructInv, Str!Steps
<1>1. ASSUME Str!MemberMethod PROVE StructInv'
  <2> USE <1>1 DEF Str!MemberMethod
  <2>1. h \in Members /\ op \in OpSet /\ ~hasStructRW
    BY DEF OpTyped, OpSet
  <2>2. hw' \in Str!Structs
    BY <2>1 DEF StructTyped, OpSet, Str!Structs
  <2>3. op' \in OpSet
    BY <2>1, <2>2 DEF OpSet, Str!Structs
  <2>4. op' = [op EXCEPT !.at = "announce", !.got = [op.got EXCEPT ![h] = hw'[h]]]
    BY <2>1 DEF OpSet
  <2>5. StructTyped' /\ OpTyped' /\ Counted' /\ Doubted' /\ Together'
    BY <2>1, <2>2, <2>3, <2>4 DEF StructTyped, OpTyped, Counted, Whole, Doubted, Together, OpSet
  <2>6. Gathered'
    BY <2>1, <2>4 DEF Gathered, Whole, OpTyped, OpSet, Str!Structs
  <2> QED
    BY <2>5, <2>6
<1>2. ASSUME Str!MemberAnnounced PROVE StructInv'
  <2> USE <1>2
  <2> DEFINE t == Tail(op.todo)
  <2>1. op.at = "announce" /\ op \in OpSet /\ op.todo # << >> /\ h \in Members
    BY DEF OpTyped, OpSet, Str!MemberAnnounced
  <2>2. op.got[h] \in Values /\ UNCHANGED <<hasStructRW, hw, insideRW, assigns, doubt>>
    BY <2>1 DEF OpSet, Str!Structs, Str!MemberAnnounced
  <2>3. Str!AnnounceMember(h, op.got[h])
    BY DEF Str!MemberAnnounced
  <2>4. /\ member' = [member EXCEPT ![h] = op.got[h]] /\ member' \in Str!Structs
        /\ struct' \in Str!Structs
        /\ ~hasStructRW /\ insideRW = 0 /\ struct = member => struct' = member'
        /\ hasStructRW \/ insideRW # 0 => struct' = struct
    BY <2>2, <2>3 DEF Str!AnnounceMember, Str!MemberCallback, Str!MayOmit, StructTyped, Str!Structs
  <2>5. t \in Seq(Members) /\ Len(t) = Len(op.todo) - 1 /\ \A i \in 1 .. Len(t) : t[i] = op.todo[i + 1]
    BY <2>1, HeadTailProperties DEF OpSet
  <2>6. CASE Len(op.todo) > 1
    <3>1. op' = [op EXCEPT !.at = "member", !.todo = t]
      BY <2>6 DEF Str!MemberAnnounced
    <3>2. op' \in OpSet /\ op'.at = "member" /\ op'.todo = t /\ t # << >> /\ op'.whole = op.whole
          /\ op'.clean = op.clean /\ op'.got = op.got
      <4>0. op.todo \in Seq(Members)
        BY <2>1 DEF OpSet
      <4> HIDE DEF t, StructInv
      <4>1. t \in Seq(Members) /\ t # << >>
        BY <4>0, <2>5, <2>6
      <4> QED
        BY <2>1, <4>1, <3>1 DEF OpSet
    <3>3. ~hasStructRW
      BY <2>1, <2>6 DEF OpTyped, OpSet
    <3> HIDE DEF h, t
    <3>4. StructTyped' /\ OpTyped' /\ Counted' /\ Doubted'
      BY <2>1, <2>2, <2>4, <3>2, <3>3 DEF StructTyped, OpTyped, Counted, Whole, Doubted, OpSet
    <3>5. Together'
      BY <2>1, <2>2, <2>4, <3>2, <3>3 DEF Together, Whole, Counted
    <3>6. Gathered'
      <4> SUFFICES ASSUME op.whole, op.clean, NEW m \in Members, \A i \in 1 .. Len(t) : t[i] # m
                   PROVE  op.got[m] = member'[m]
        BY <3>2, <3>3 DEF Gathered, Whole
      <4>1. CASE m = h
        BY <4>1, <2>4, <2>1 DEF StructTyped, Str!Structs
      <4>2. CASE m # h
        <5>1. h = op.todo[1]
          BY <2>1 DEF h
        <5>2. ASSUME NEW i \in 1 .. Len(op.todo), op.todo[i] = m PROVE FALSE
          <6>1. i # 1 /\ i - 1 \in 1 .. Len(t)
            BY <5>1, <5>2, <4>2, <2>5, <2>1 DEF OpSet
          <6>2. t[i - 1] = op.todo[i]
            BY <6>1, <2>5
          <6> QED
            BY <6>1, <6>2, <5>2
        <5>3. op.got[m] = member[m]
          BY <5>2, <3>3, <2>1 DEF Gathered, Whole
        <5> QED
          BY <5>3, <4>2, <2>4 DEF StructTyped, Str!Structs
      <4> QED
        BY <4>1, <4>2
    <3> QED
      BY <3>4, <3>5, <3>6
  <2>7. CASE Len(op.todo) <= 1 /\ op.whole
    <3>1. op' = [op EXCEPT !.at = "leave", !.todo = << >>]
      BY <2>1, <2>7 DEF Str!MemberAnnounced, OpSet
    <3>2. op' \in OpSet /\ op'.at = "leave" /\ op'.todo = << >> /\ op'.whole /\ op'.clean = op.clean
          /\ op'.got = op.got
      <4>1. << >> \in Seq(Members)
        OBVIOUS
      <4> HIDE DEF t, StructInv
      <4> QED
        BY <2>1, <4>1, <2>7, <3>1 DEF OpSet
    <3>3. ~hasStructRW /\ insideRW = 1
      BY <2>1, <2>7 DEF OpTyped, Counted, Whole
    <3>4. StructTyped' /\ OpTyped' /\ Counted' /\ Doubted' /\ Together'
      BY <2>1, <2>2, <2>4, <2>7, <3>2, <3>3
      DEF StructTyped, OpTyped, Counted, Whole, Doubted, OpSet, Together
    <3>5. Gathered'
      <4> SUFFICES ASSUME op.clean, NEW m \in Members PROVE op.got[m] = member'[m]
        BY <3>2, <3>3 DEF Gathered, Whole
      <4>1. CASE m = h
        BY <4>1, <2>4, <2>1 DEF StructTyped, Str!Structs
      <4>2. CASE m # h
        <5>1. h = op.todo[1]
          BY <2>1 DEF h
        <5>2. \A i \in 1 .. Len(op.todo) : i = 1
          BY <2>1, <2>7 DEF OpSet
        <5>3. op.got[m] = member[m]
          BY <5>1, <5>2, <4>2, <3>3, <2>1, <2>7 DEF Gathered, Whole
        <5> QED
          BY <5>3, <4>2, <2>4 DEF StructTyped, Str!Structs
      <4> QED
        BY <4>1, <4>2
    <3> QED
      BY <3>4, <3>5
  <2>8. CASE Len(op.todo) <= 1 /\ ~op.whole
    <3>1. op' = Str!NoOp
      BY <2>1, <2>8 DEF Str!MemberAnnounced, OpSet
    <3>2. op'.at = "idle" /\ insideRW = 0
      BY <3>1, <2>8 DEF Str!NoOp, Counted, Whole
    <3>3. ~doubt => struct = member
      BY <2>8 DEF Together, Whole
    <3>4. hasStructRW /\ ~doubt => op.got[h] = member[h]
      BY <2>1, <3>3 DEF Together
    <3>5. hasStructRW /\ ~doubt => member' = member
      BY <2>1, <2>4, <3>4 DEF StructTyped, Str!Structs
    <3>6. Together'
      BY <2>2, <2>4, <3>2, <3>3, <3>5 DEF Together, StructTyped
    <3> QED
      BY <2>2, <2>4, <3>2, <3>6 DEF StructTyped, OpTyped, Counted, Doubted, Gathered
  <2> QED
    BY <2>1, <2>6, <2>7, <2>8 DEF OpSet
<1>3. ASSUME Str!LeaveMembers PROVE StructInv'
  <2> USE <1>3 DEF Str!LeaveMembers
  <2>1. op \in OpSet /\ op.todo = << >> /\ Whole /\ op' \in OpSet
    BY DEF OpTyped, OpSet, Whole, StructTyped
  <2> QED
    BY <2>1 DEF StructTyped, OpTyped, Counted, Whole, Doubted, Together, Gathered, OpSet
<1> QED
  BY <1>1, <1>2, <1>3

LEMMA StructWhole == StructInv /\ (Str!StructMethod \/ Str!StructAnnounced) => StructInv'
<1> SUFFICES ASSUME StructInv PROVE Str!StructMethod \/ Str!StructAnnounced => StructInv'
  OBVIOUS
<1> USE DEF StructInv, Str!Steps
<1>1. ASSUME Str!StructMethod PROVE StructInv'
  <2> USE <1>1 DEF Str!StructMethod
  <2>1. op \in OpSet /\ hasStructRW
    BY DEF OpTyped, OpSet
  <2>2. hw' \in Str!Structs
    BY <2>1 DEF StructTyped, OpSet
  <2>3. op' \in OpSet
    BY <2>1, <2>2 DEF OpSet
  <2> QED
    BY <2>1, <2>2, <2>3
    DEF StructTyped, OpTyped, Counted, Whole, Doubted, Together, Gathered, OpSet
<1>2. ASSUME Str!StructAnnounced PROVE StructInv'
  <2>1. PICK omitted \in BOOLEAN :
          /\ Str!AnnounceStruct(op.got, omitted)
          /\ doubt' = (doubt /\ ~(op.whole /\ op.clean /\ (hasStructRW => ~omitted)))
    BY <1>2 DEF Str!StructAnnounced
  <2>2. /\ op.at = "whole" /\ UNCHANGED <<hasStructRW, hw, insideRW, assigns>>
        /\ op' = IF op.todo = << >> THEN Str!NoOp
                 ELSE IF op.write THEN [op EXCEPT !.at = "struct", !.write = FALSE]
                 ELSE [op EXCEPT !.at = "announce"]
    BY <1>2 DEF Str!StructAnnounced
  <2>3. op \in OpSet
    BY <2>2 DEF OpTyped, OpSet
  <2>4. /\ member' \in Str!Structs /\ struct' = op.got
        /\ hasStructRW => IF omitted THEN member' = member /\ struct = op.got ELSE member' = op.got
        /\ ~hasStructRW => member' = member
    BY <2>1, <2>3 DEF Str!AnnounceStruct, Str!MayOmit, StructTyped, OpSet
  <2>5. CASE hasStructRW
    <3>1. ~doubt' => struct' = member'
      BY <2>1, <2>2, <2>4, <2>5 DEF Together, Whole
    <3>2. CASE op.todo = << >>
      BY <2>1, <2>2, <2>3, <2>4, <2>5, <3>1, <3>2
      DEF Str!NoOp, StructTyped, OpTyped, Counted, Doubted, Gathered, Together, OpSet
    <3>3. CASE op.todo # << >>
      <4>1. op' \in OpSet /\ op'.at \in {"struct", "announce"} /\ op'.got = op.got /\ op'.todo = op.todo
            /\ op'.whole = op.whole /\ op'.clean = op.clean
        BY <2>2, <2>3, <3>3 DEF OpSet
      <4>2. ~op.whole
        BY <2>2, <2>5, <3>3 DEF OpTyped
      <4> QED
        BY <2>1, <2>2, <2>3, <2>4, <2>5, <3>1, <3>3, <4>1, <4>2
        DEF StructTyped, OpTyped, Counted, Doubted, Gathered, Together, OpSet, Whole
    <3> QED
      BY <3>2, <3>3
  <2>6. CASE ~hasStructRW
    <3>1. op.whole /\ op.todo = << >> /\ op' = Str!NoOp
      BY <2>2, <2>6 DEF OpTyped
    <3>2. op.clean => op.got = member
      BY <2>2, <2>3, <2>6, <3>1 DEF Gathered, Whole, OpSet, StructTyped, Str!Structs
    <3>3. ~doubt' => op.clean
      BY <2>1, <2>2 DEF Doubted
    <3> QED
      BY <2>1, <2>2, <2>3, <2>4, <2>6, <3>1, <3>2, <3>3
      DEF Str!NoOp, StructTyped, OpTyped, Counted, Doubted, Gathered, Together, OpSet, Whole
  <2> QED
    BY <2>5, <2>6
<1> QED
  BY <1>1, <1>2

LEMMA StructFails == StructInv /\ Str!MethodFails => StructInv'
<1> SUFFICES ASSUME StructInv, Str!MethodFails PROVE StructInv'
  OBVIOUS
<1>1. /\ op.at \in {"member", "struct"} /\ op' = Str!NoOp
      /\ doubt' = (doubt \/ (op.whole /\ ~hasStructRW))
      /\ UNCHANGED <<hasStructRW, hw, member, struct, assigns>>
      /\ insideRW' = IF op.whole /\ ~hasStructRW THEN insideRW - 1 ELSE insideRW
  BY DEF Str!MethodFails, Str!Fail
<1>2. op \in OpSet
  BY <1>1 DEF StructInv, OpTyped, OpSet
<1>3. insideRW' = 0
  BY <1>1, <1>2 DEF StructInv, Counted, Whole, OpTyped, OpSet
<1>4. ~doubt' => struct' = member'
  BY <1>1, <1>2 DEF StructInv, Together, Whole, OpSet
<1> QED
  BY <1>1, <1>2, <1>3, <1>4
  DEF StructInv, Str!NoOp, StructTyped, OpTyped, Counted, Doubted, Gathered, Together, OpSet, Str!Steps

LEMMA StructAssign ==
  ASSUME StructInv, NEW m \in Members, NEW v \in Values, Str!Assign(m, v)
  PROVE  StructInv'
<1> USE DEF StructInv, Str!Steps
<1>1. /\ hw' = [hw EXCEPT ![m] = v] /\ UNCHANGED <<hasStructRW, insideRW>>
      /\ op' = IF op.at = "idle" THEN op ELSE [op EXCEPT !.clean = FALSE]
      /\ doubt' = (doubt \/ op.at # "idle")
      /\ IF hasStructRW THEN \E omitted \in BOOLEAN : Str!AnnounceStruct(hw', omitted)
                        ELSE Str!AnnounceMember(m, v)
  BY DEF Str!Assign
<1>2. hw' \in Str!Structs
  BY <1>1 DEF StructTyped, Str!Structs
<1>3. member' \in Str!Structs /\ struct' \in Str!Structs
  BY <1>1, <1>2
  DEF Str!AnnounceStruct, Str!AnnounceMember, Str!MemberCallback, StructTyped, Str!Structs
<1>4. CASE op.at # "idle"
  <2>1. op \in OpSet /\ op' = [op EXCEPT !.clean = FALSE]
    BY <1>1, <1>4 DEF OpTyped, OpSet
  <2>2. op' \in OpSet /\ ~op'.clean /\ op'.at = op.at /\ op'.todo = op.todo /\ op'.whole = op.whole
    BY <2>1 DEF OpSet
  <2> QED
    BY <1>1, <1>2, <1>3, <1>4, <2>1, <2>2
    DEF StructTyped, OpTyped, Counted, Doubted, Gathered, Together, OpSet, Whole
<1>5. CASE op.at = "idle"
  <2>1. insideRW = 0
    BY <1>5 DEF Counted
  <2>2. struct = member => struct' = member'
    BY <1>1, <1>2, <2>1
    DEF Str!AnnounceStruct, Str!AnnounceMember, Str!MemberCallback, Str!MayOmit, StructTyped, Str!Structs
  <2> QED
    BY <1>1, <1>2, <1>3, <1>5, <2>1, <2>2
    DEF StructTyped, OpTyped, Counted, Doubted, Gathered, Together
<1> QED
  BY <1>4, <1>5

LEMMA StructStep == StructInv /\ Str!Next => StructInv'
<1> SUFFICES ASSUME StructInv, Str!Next PROVE StructInv'
  OBVIOUS
<1>0. struct \in Str!Structs
  BY DEF StructInv, StructTyped
<1>1. CASE Str!ReadStruct
  BY <1>0, <1>1, AllInOrder, StructBegin DEF Str!ReadStruct
<1>2. ASSUME NEW s \in Str!Structs, Str!WriteStruct(s) PROVE StructInv'
  BY <1>2, AllInOrder, StructBegin DEF Str!WriteStruct
<1>3. ASSUME NEW m \in Members, Str!ReadMember(m) PROVE StructInv'
  <2>1. <<m>> \in Seq(Members) /\ <<m>> # << >> /\ Len(<<m>>) = 1
    OBVIOUS
  <2> QED
    BY <1>0, <1>3, <2>1, StructBegin DEF Str!ReadMember
<1>4. ASSUME NEW m \in Members, NEW v \in Values, Str!WriteMember(m, v) PROVE StructInv'
  <2>1. <<m>> \in Seq(Members) /\ <<m>> # << >> /\ Len(<<m>>) = 1
    OBVIOUS
  <2>2. [struct EXCEPT ![m] = v] \in Str!Structs
    BY <1>0 DEF Str!Structs
  <2> QED
    BY <1>4, <2>1, <2>2, StructBegin DEF Str!WriteMember
<1> QED
  BY <1>1, <1>2, <1>3, <1>4, StructMembers, StructWhole, StructFails, StructAssign DEF Str!Next

(***************************************************************************)
(* All parts                                                               *)
(***************************************************************************)

PartsInv ==
  /\ part = "server" => ServerInv
  /\ part = "sequencer" => SequencerInv
  /\ part = "magfield" => MagfieldInv
  /\ part = "struct" => StructInv

LEMMA PartsInitInv == PartsInit => PartsInv
BY ServerInit, SequencerInit, MagfieldInit, StructInit DEF PartsInit, PartsInv

LEMMA PartsStep == PartsInv /\ [PartsNext]_partsVars => PartsInv'
<1> SUFFICES ASSUME PartsInv, [PartsNext]_partsVars PROVE PartsInv'
  OBVIOUS
<1> USE DEF PartsInv
<1>1. CASE UNCHANGED partsVars
  <2> USE <1>1 DEF partsVars, serverOwn, sequencerOwn, magfieldOwn, structOwn, controlOwn
  <2>1. part = "server" => ServerInv'
    BY DEF ServerInv, Over
  <2>2. part = "sequencer" => SequencerInv'
    BY DEF SequencerInv, Planned, Left, Calm, Ramping
  <2>3. part = "magfield" => MagfieldInv'
    BY DEF MagfieldInv, MagTyped, Coil, Places, Goals, Goal, WaitsFor, WithinCycle, Mag!States, Mag!Rest,
           Mag!NoStart, Mag!NoWrite, Mag!Refused, Mag!Stuck
  <2>4. part = "struct" => StructInv'
    BY DEF StructInv, StructTyped, OpTyped, Counted, Whole, Doubted, Gathered, Together
  <2> QED
    BY <2>1, <2>2, <2>3, <2>4
<1>2. CASE ControlPart
  BY <1>2 DEF ControlPart
<1>3. CASE ServerPart
  BY <1>3, ServerStep DEF ServerPart
<1>4. CASE SequencerPart
  BY <1>4, SequencerStep DEF SequencerPart
<1>5. CASE MagfieldPart
  BY <1>5, MagfieldStep DEF MagfieldPart
<1>6. CASE StructPart
  BY <1>6, StructStep DEF StructPart
<1> QED
  BY <1>1, <1>2, <1>3, <1>4, <1>5, <1>6 DEF PartsNext

LEMMA PartsInvHolds == PartsSpec => []PartsInv
BY PartsInitInv, PartsStep, PTL DEF PartsSpec

\* Server: a node announces itself when each of its interfaces is listed or has failed,
\* and shuts its modules down when none serves any more (Server.run).
THEOREM ServerIsInOrder == PartsSpec => []ServerInOrder
<1>1. PartsInv => ServerInOrder
  BY ServerSafe DEF PartsInv, ServerInOrder
<1> QED
  BY <1>1, PartsInvHolds, PTL

\* Sequencer: the polarity switch is asked to move only when no current flows and none is
\* asked for, whatever was stopped or has failed before (amagnet.py).
THEOREM SwitchIsSafe == PartsSpec => SwitchesAtZero
<1>1. PartsInv /\ [PartsNext]_partsVars =>
        [part = "sequencer" /\ polTarget' # polTarget => current = 0 /\ source = 0]_partsVars
  <2> SUFFICES ASSUME PartsInv, PartsNext, part = "sequencer", polTarget' # polTarget
               PROVE  current = 0 /\ source = 0
    BY DEF partsVars, sequencerOwn
  <2>1. SequencerInv /\ Sqc!Next
    BY DEF PartsInv, PartsNext, ControlPart, ServerPart, SequencerPart, MagfieldPart, StructPart
  <2> QED
    BY <2>1, SwitchStep
<1> QED
  BY <1>1, PartsInvHolds, PTL DEF PartsSpec, SwitchesAtZero

\* Magfield: the persistent switch is opened on matching leads only, and closed with the
\* field remembered (the state functions of magfield.py, with ips_mercury.py).
THEOREM CoilIsSafe == PartsSpec => []CoilSafe
<1>1. PartsInv => CoilSafe
  BY MagfieldSafe DEF PartsInv, CoilSafe
<1> QED
  BY <1>1, PartsInvHolds, PTL

\* Magfield and Sequencer: at rest the hardware is where the status says (final_status,
\* the cleanup of a stopped sequence).
THEOREM HardwareRests == PartsSpec => []RestsAsSaid
<1>1. SequencerInv => Sqc!HoldsWhenStopped
  BY DEF SequencerInv, Planned, Left, Sqc!HoldsWhenStopped
<1>2. PartsInv => RestsAsSaid
  BY <1>1, MagfieldSafe DEF PartsInv, RestsAsSaid
<1> QED
  BY <1>2, PartsInvHolds, PTL

\* StructParam: a struct and its members agree (the callbacks of extparams.py).
THEOREM StructsAgree == PartsSpec => []StructAgrees
<1>1. StructInv => Str!StructAgrees
  BY DEF StructInv, Together, Str!StructAgrees
<1>2. PartsInv => StructAgrees
  BY <1>1 DEF PartsInv, StructAgrees
<1> QED
  BY <1>2, PartsInvHolds, PTL

(***************************************************************************)
(* SecNode, as NodeLife has it.  The invariant is about what was made so   *)
(* far, and, as long as no module has two objects, about what was          *)
(* initialised so far.                                                     *)
(***************************************************************************)

Everything == Node!Names \cup {Node!Auto}
Before(n) == Node!Io(n) \cup Node!Attached(n, "init")       \* looked at by initModule
Uses(n) == Before(n) \cup Node!Attached(n, "check")
Objects == DOMAIN objects
Name(o) == objects[o].name
InNode == Node!ToSet(modules)

Object == [name : Everything, inits : Nat, ready : BOOLEAN, attached : SUBSET (Everything \X Nat)]
FrameSet == [obj : Nat, wait : Seq(Everything), check : BOOLEAN]
NodePhases == {"create", "scan", "init", "failed", "run", "join", "sort", "shutdown", "down"}
Made == {"init", "run", "join", "sort", "shutdown", "down"}   \* all modules are made
Up == {"create", "scan", "init", "run"}

NodeTyped ==
  /\ cfg \in Node!Configurations
  /\ known \subseteq Node!Names /\ Node!Configured \subseteq known
  /\ ioDict \in BOOLEAN /\ errors \in BOOLEAN
  /\ phase \in NodePhases
  /\ objects \in Seq(Object)
  /\ modules \in Seq(Nat) /\ InNode \subseteq Objects
  /\ nodeStack \in Seq(FrameSet)
  /\ phase \in {"create", "scan"} => todos \in Seq(Node!Names)
  /\ phase = "init" => todos \in Seq(Nat) /\ Node!ToSet(todos) \subseteq InNode
  /\ polled \subseteq Nat \X Nat

\* A name is in the dictionary once, and what is attached to an object is what it may use.
Dictionary ==
  /\ \A i, j \in DOMAIN modules : Name(modules[i]) = Name(modules[j]) => i = j
  /\ Node!Stored(Node!Auto) => ioDict
  /\ \A o \in Objects :
       /\ Name(o) \in Node!Names => Name(o) \in known \ {cfg.broken}
       /\ Name(o) = Node!Auto => Node!Stored(Node!Auto)
       /\ \A e \in objects[o].attached :
            e[2] \in Objects /\ Name(e[2]) = e[1] /\ e[1] \in Uses(Name(o))

\* Every module of the configuration is made, still to be made, or an error was counted.
AllMade ==
  /\ phase \in {"create", "scan"} =>
       \A n \in known \ {cfg.broken} : Node!Stored(n) \/ n \in Node!ToSet(todos)
  /\ phase = "create" =>
       /\ cfg.broken \in known => cfg.broken \in Node!ToSet(todos) \/ errors
       /\ \/ cfg.pinata = Node!None \/ errors
          \/ cfg.pinata \in Node!ToSet(todos) /\ ~Node!Stored(cfg.pinata)
          \/ ModuleCount \in Node!ToSet(todos) \cup known
  /\ phase = "scan" => (cfg.broken \in known => cfg.broken \in Node!ToSet(todos) \/ errors)
  /\ phase \in Made =>
       /\ \A n \in known \ {cfg.broken} : Node!Stored(n)
       /\ cfg.broken \in known => errors
       /\ cfg.pinata = Node!None \/ errors \/ ModuleCount \in known

\* A frame of get_module has looked at what it does not wait for, and waits for the one above.
Stack ==
  /\ nodeStack # << >> => phase \in {"scan", "init"}
  /\ \A i \in DOMAIN nodeStack : LET f == nodeStack[i] IN
       /\ f.obj \in Objects /\ Node!ToSet(f.wait) \subseteq Uses(Name(f.obj))
       /\ f.check => i = 1 /\ phase = "init"
       /\ \A n \in Uses(Name(f.obj)) : n \in Before(Name(f.obj)) \/ f.check =>
            n \in Node!ToSet(f.wait) \/ Node!IsAttached(f.obj, n) \/ (f.check /\ errors)
  /\ \A i \in 1 .. Len(nodeStack) - 1 :
       nodeStack[i].wait # << >> /\ Head(nodeStack[i].wait) = Name(nodeStack[i+1].obj)

NodeMade == NodeTyped /\ Dictionary /\ AllMade /\ Stack

\* A frame waits for what is not yet attached; only the one checking the properties is of an
\* initialised module.
Waiting == Node!OnePerName =>
  /\ \A i \in 1 .. Len(nodeStack) - 1 :
       ~Node!IsAttached(nodeStack[i].obj, Head(nodeStack[i].wait))
  /\ \A i \in DOMAIN nodeStack :
       /\ objects[nodeStack[i].obj].ready = nodeStack[i].check
       /\ ~nodeStack[i].check => Node!ToSet(nodeStack[i].wait) \subseteq Before(Name(nodeStack[i].obj))

\* A module is initialised once, after those initModule looks at.
Once == Node!OnePerName => \A o \in Objects :
  /\ objects[o].inits = IF objects[o].ready THEN 1 ELSE 0
  /\ objects[o].ready => \A n \in Before(Name(o)) : Node!IsAttached(o, n)

\* Each module is looked at completely: it is still to be, it is just being, or it was.
LookedAt(o) ==
  \/ phase = "init" /\ o \in Node!ToSet(todos)
  \/ phase = "init" /\ nodeStack # << >> /\ nodeStack[1].check /\ nodeStack[1].obj = o
  \/ objects[o].ready /\ \A n \in Uses(Name(o)) : Node!IsAttached(o, n)
AllLookedAt == Node!OnePerName /\ phase \in Made /\ ~errors => \A o \in InNode : LookedAt(o)

\* An initialised module is polled by one thread, its own or the one of an attached module.
Registered == Node!OnePerName /\ phase \in Up =>
  /\ \A p \in polled :
       /\ p[2] \in Objects /\ objects[p[2]].ready
       /\ p[1] = p[2] \/ \E e \in objects[p[2]].attached : e[2] = p[1]
       /\ \A q \in polled : p[2] = q[2] => p = q
  /\ \A o \in Objects : objects[o].ready => \E p \in polled : p[2] = o

Running == phase = "run" => ~errors /\ running = {o \in InNode : \E p \in polled : p[1] = o}

NodeUp == Waiting /\ Once /\ AllLookedAt /\ Registered /\ Running

NodeInv == NodeMade /\ NodeUp

-----------------------------------------------------------------------------
(* The search of _getSortedModules, with the unmarked modules u, the path  *)
(* p and the sorted ones q.                                                *)

Stored == {Name(o) : o \in InNode}
Injective(q) == \A i, j \in DOMAIN q : q[i] = q[j] => i = j
OnPath(p) == {p[i].name : i \in DOMAIN p}
PathSet == [name : Everything, rest : SUBSET Everything]

\* Each module is at one of the three places.
Placed(u, p, q) ==
  /\ u \subseteq Everything /\ p \in Seq(PathSet) /\ q \in Seq(Everything)
  /\ u \cup OnPath(p) \cup Node!ToSet(q) = Stored
  /\ u \cap OnPath(p) = {} /\ u \cap Node!ToSet(q) = {} /\ OnPath(p) \cap Node!ToSet(q) = {}
OncePlaced(p, q) == Injective(q) /\ \A i, j \in 1 .. Len(p) : p[i].name = p[j].name => i = j

\* Sorted modules come after those they use.
UsedFirst(q) == \A i \in DOMAIN q : \A n \in Node!UsedBy(q[i]) : \E j \in DOMAIN q : j < i /\ q[j] = n

\* What a module on the path uses is still to be visited, sorted, or next on the path.
Remembered(p, q) == \A i \in 1 .. Len(p) :
  /\ p[i].rest \subseteq Node!UsedBy(p[i].name)
  /\ \A n \in Node!UsedBy(p[i].name) \ p[i].rest :
       n \in Node!ToSet(q) \/ (i < Len(p) /\ n = p[i+1].name)
Linked(p) == \A i \in 1 .. Len(p) - 1 : p[i+1].name \in Node!UsedBy(p[i].name)
Sorts(u, p, q) ==
  Placed(u, p, q) /\ OncePlaced(p, q) /\ UsedFirst(q) /\ Remembered(p, q) /\ Linked(p)
Sorting == phase = "sort" => Sorts(unmarked, path, sorted)

\* What was shut down, followed by what will be, is all there is, in the right order.
Final == shut \o order
Ordered(q) ==
  Node!Acyclic => \A i \in DOMAIN q : \A n \in Node!UsedBy(q[i]) : \E j \in DOMAIN q : i < j /\ q[j] = n
Closing ==
  /\ phase \in {"create", "scan", "init", "failed", "run", "join", "sort"} => shut = << >>
  /\ phase \in {"shutdown", "down"} =>
       /\ shut \in Seq(Everything) /\ order \in Seq(Everything)
       /\ Injective(Final) /\ Node!ToSet(Final) = Stored /\ Ordered(Final)
       /\ phase = "down" => order = << >>

ShutdownInv == NodeInv /\ Sorting /\ Closing

\* What is used by a module of the node is in the node.
UsedKnown ==
  /\ Stored \subseteq Everything /\ IsFiniteSet(Stored)
  /\ \A n \in Stored : Node!UsedBy(n) \subseteq Stored

-----------------------------------------------------------------------------
(* Lists of sets: InOrder and SetToSeqs.                                   *)

\* A set of natural numbers which is not empty has a least element.
LEMMA LeastOf ==
  ASSUME NEW T \in SUBSET Nat, T # {}
  PROVE  \E m \in T : \A n \in T : m <= n
<1> DEFINE R == OpToRel(<, Nat)
<1>1. IsWellFoundedOn(R, Nat)
  BY NatLessThanWellFounded, Zenon
<1>2. \A x, y \in Nat : y < x => <<y, x>> \in R
  BY DEF OpToRel
<1> HIDE DEF R
<1>3. PICK m \in T : \A n \in T : ~(<<n, m>> \in R)
  BY <1>1, WFMin
<1>4. \A n \in T : ~(n < m)
  BY <1>2, <1>3, Zenon
<1> QED
  BY <1>4

\* The cardinality SecNode speaks of.
LEMMA SameCardinality == \A S : Node!Cardinality(S) = Cardinality(S)
BY DEF Node!Cardinality, Cardinality

Sorted(q) == \A i, j \in DOMAIN q : i < j => q[i] < q[j]
Increasing(s) == {q \in Node!SetToSeqs(s) : Sorted(q)}

\* Each finite set of numbers can be listed in increasing order.
LEMMA SetsCanBeSorted ==
  ASSUME NEW s \in SUBSET Nat, IsFiniteSet(s)
  PROVE  Increasing(s) # {}
<1> DEFINE Bad == {k \in Nat : \E t \in SUBSET Nat :
                     IsFiniteSet(t) /\ Cardinality(t) = k /\ Increasing(t) = {}}
<1>1. SUFFICES ASSUME Bad # {} PROVE FALSE
  BY FS_CardinalityType
<1>2. PICK k \in Bad : \A n \in Bad : k <= n
  BY <1>1, LeastOf
<1>3. PICK t \in SUBSET Nat : IsFiniteSet(t) /\ Cardinality(t) = k /\ Increasing(t) = {}
  BY <1>2
<1>4. t # {}
  <2>1. SUFFICES ASSUME t = {} PROVE << >> \in Increasing(t)
    BY <1>3
  <2>2. Cardinality({}) = 0
    BY FS_EmptySet
  <2> QED
    BY <2>1, <2>2, SameCardinality DEF Increasing, Sorted, Node!SetToSeqs
<1>5. PICK m \in t : \A n \in t : m <= n
  BY <1>4, LeastOf
<1> DEFINE u == t \ {m}
<1>6. u \in SUBSET Nat /\ IsFiniteSet(u) /\ Cardinality(u) = k - 1 /\ k - 1 \in Nat
  <2>1. IsFiniteSet(u) /\ Cardinality(u) = Cardinality(t) - 1
    BY <1>3, <1>5, FS_RemoveElement
  <2>2. Cardinality(u) \in Nat
    BY <2>1, FS_CardinalityType
  <2> QED
    BY <1>3, <2>1, <2>2
<1>7. PICK q \in Node!SetToSeqs(u) : Sorted(q)
  BY <1>2, <1>6 DEF Increasing
<1> DEFINE r == [i \in 1 .. k |-> IF i = 1 THEN m ELSE q[i - 1]]
<1>8. q \in [1 .. k - 1 -> u] /\ DOMAIN q = 1 .. k - 1
  BY <1>6, <1>7, SameCardinality DEF Node!SetToSeqs
<1>9. \A i \in 2 .. k : i - 1 \in 1 .. k - 1 /\ q[i - 1] \in u /\ m < q[i - 1]
  <2> SUFFICES ASSUME NEW i \in 2 .. k
               PROVE i - 1 \in 1 .. k - 1 /\ q[i - 1] \in u /\ m < q[i - 1]
    OBVIOUS
  <2>1. i - 1 \in 1 .. k - 1
    BY <1>6
  <2>2. q[i - 1] \in u
    BY <2>1, <1>8
  <2>3. q[i - 1] \in Nat /\ q[i - 1] # m /\ m \in Nat /\ m <= q[i - 1]
    BY <2>2, <1>5
  <2> QED
    BY <2>1, <2>2, <2>3
<1>10. r \in [1 .. k -> t] /\ DOMAIN r = 1 .. k
  BY <1>9, <1>5, <1>6, <1>2
<1>11. Sorted(r)
  <2> SUFFICES ASSUME NEW i \in 1 .. k, NEW j \in 1 .. k, i < j PROVE r[i] < r[j]
    BY <1>10 DEF Sorted
  <2>1. CASE i = 1
    BY <2>1, <1>9, <1>6
  <2>2. CASE i # 1
    BY <2>2, <1>9, <1>6, <1>7, <1>8 DEF Sorted
  <2> QED
    BY <2>1, <2>2
<1>12. \A i, j \in 1 .. k : i # j => r[i] # r[j]
  <2> SUFFICES ASSUME NEW i \in 1 .. k, NEW j \in 1 .. k, i # j PROVE r[i] # r[j]
    OBVIOUS
  <2>1. r[i] \in Nat /\ r[j] \in Nat
    BY <1>10
  <2>2. r[i] < r[j] \/ r[j] < r[i]
    <3> HIDE DEF r
    <3> QED
      BY <1>10, <1>11, <1>6 DEF Sorted
  <2> HIDE DEF r
  <2> QED
    BY <2>1, <2>2
<1>13. r \in Node!SetToSeqs(t)
  <2> HIDE DEF r
  <2> QED
    BY <1>10, <1>12, <1>3, SameCardinality DEF Node!SetToSeqs
<1> QED
  BY <1>11, <1>13, <1>3 DEF Increasing

\* A list of a finite set, each of its elements once, has all of them.
LEMMA ListsAreComplete ==
  ASSUME NEW S, IsFiniteSet(S), NEW q \in Node!SetToSeqs(S)
  PROVE  /\ q \in Seq(S) /\ Node!ToSet(q) = S /\ Injective(q)
<1> DEFINE D == 1 .. Cardinality(S)
<1>1. Cardinality(S) \in Nat /\ q \in [D -> S] /\ \A i, j \in D : i # j => q[i] # q[j]
  BY FS_CardinalityType, SameCardinality DEF Node!SetToSeqs
<1>2. IsFiniteSet(D) /\ Cardinality(D) = Cardinality(S)
  BY <1>1, FS_Interval
<1>3. q \in Injection(D, S)
  BY <1>1 DEF Injection, IsInjective
<1>4. q \in Surjection(D, S)
  BY <1>1, <1>2, <1>3, FS_Injection
<1>5. \A x \in S : \E i \in D : q[i] = x
  BY <1>4 DEF Surjection
<1> QED
  BY <1>1, <1>5 DEF Node!ToSet, Injective

LEMMA InOrderLists ==
  ASSUME NEW S \in SUBSET Everything, ModuleCount \in Nat
  PROVE  /\ Node!InOrder(S) \in Seq(S) /\ Node!InOrder(S) \in Seq(Everything)
         /\ Node!ToSet(Node!InOrder(S)) = S
<1>1. S \in SUBSET Nat /\ IsFiniteSet(S)
  <2>1. Everything \subseteq 1 .. ModuleCount + 1
    BY DEF Everything, Node!Names, Node!Auto
  <2>2. IsFiniteSet(1 .. ModuleCount + 1)
    BY FS_Interval
  <2>3. S \in SUBSET (1 .. ModuleCount + 1)
    BY <2>1
  <2>4. IsFiniteSet(S)
    BY <2>2, <2>3, FS_Subset, Zenon
  <2> QED
    BY <2>3, <2>4
<1>2. Node!InOrder(S) \in Node!SetToSeqs(S)
  <2>1. \E q \in Node!SetToSeqs(S) : \A i, j \in DOMAIN q : i < j => q[i] < q[j]
    BY <1>1, SetsCanBeSorted DEF Increasing, Sorted
  <2> QED
    BY <2>1 DEF Node!InOrder
<1> QED
  BY <1>1, <1>2, ListsAreComplete, SeqMonotonic

-----------------------------------------------------------------------------
(* Sequences and configurations.                                           *)

LEMMA TailSet ==
  ASSUME NEW S, NEW q \in Seq(S), q # << >>
  PROVE  /\ Head(q) \in S /\ Tail(q) \in Seq(S)
         /\ Node!ToSet(q) = {Head(q)} \cup Node!ToSet(Tail(q))
         /\ Len(Tail(q)) = Len(q) - 1 /\ \A i \in 1 .. Len(q) - 1 : Tail(q)[i] = q[i + 1]
<1>1. Len(q) \in Nat /\ Len(q) # 0 /\ DOMAIN q = 1 .. Len(q) /\ Head(q) = q[1] /\ Tail(q) \in Seq(S)
  OBVIOUS
<1>2. Len(Tail(q)) = Len(q) - 1 /\ DOMAIN Tail(q) = 1 .. Len(q) - 1
      /\ \A i \in 1 .. Len(q) - 1 : Tail(q)[i] = q[i + 1]
  OBVIOUS
<1>3. \A i \in 1 .. Len(q) : q[i] = Head(q) \/ q[i] \in Node!ToSet(Tail(q))
  <2> SUFFICES ASSUME NEW i \in 1 .. Len(q), i # 1 PROVE q[i] \in Node!ToSet(Tail(q))
    BY <1>1
  <2>1. i - 1 \in 1 .. Len(q) - 1
    BY <1>1
  <2>2. Tail(q)[i - 1] = q[i]
    BY <2>1, <1>2
  <2> QED
    BY <2>1, <2>2, <1>2 DEF Node!ToSet
<1>4. \A x \in Node!ToSet(Tail(q)) : x \in Node!ToSet(q)
  <2> SUFFICES ASSUME NEW i \in 1 .. Len(q) - 1 PROVE Tail(q)[i] \in Node!ToSet(q)
    BY <1>2 DEF Node!ToSet
  <2>1. i + 1 \in 1 .. Len(q) /\ Tail(q)[i] = q[i + 1]
    BY <1>1, <1>2
  <2> QED
    BY <2>1, <1>1 DEF Node!ToSet
<1> QED
  BY <1>1, <1>2, <1>3, <1>4 DEF Node!ToSet

LEMMA AppendSet ==
  ASSUME NEW S, NEW q \in Seq(S), NEW e \in S
  PROVE  /\ Append(q, e) \in Seq(S) /\ Node!ToSet(Append(q, e)) = Node!ToSet(q) \cup {e}
         /\ Len(Append(q, e)) = Len(q) + 1 /\ Append(q, e)[Len(q) + 1] = e
         /\ \A i \in 1 .. Len(q) : Append(q, e)[i] = q[i]
<1> DEFINE r == Append(q, e)
<1>1. r \in Seq(S) /\ Len(r) = Len(q) + 1 /\ r[Len(q) + 1] = e /\ \A i \in 1 .. Len(q) : r[i] = q[i]
  BY AppendProperties
<1>2. DOMAIN q = 1 .. Len(q) /\ DOMAIN r = 1 .. Len(q) + 1 /\ Len(q) \in Nat
  BY <1>1
<1> HIDE DEF r
<1>3. \A x \in Node!ToSet(r) : x \in Node!ToSet(q) \/ x = e
  BY <1>1, <1>2 DEF Node!ToSet
<1>4. \A x : x \in Node!ToSet(q) \/ x = e => x \in Node!ToSet(r)
  <2>1. \A i \in 1 .. Len(q) : i \in 1 .. Len(q) + 1
    BY <1>2
  <2>2. Len(q) + 1 \in 1 .. Len(q) + 1
    BY <1>2
  <2> QED
    BY <2>1, <2>2, <1>1, <1>2 DEF Node!ToSet
<1>5. Node!ToSet(r) = Node!ToSet(q) \cup {e}
  BY <1>3, <1>4
<1> QED
  BY <1>1, <1>5 DEF r

LEMMA ConcatSet ==
  ASSUME NEW S, NEW q \in Seq(S), NEW r \in Seq(S)
  PROVE  q \o r \in Seq(S) /\ Node!ToSet(q \o r) = Node!ToSet(q) \cup Node!ToSet(r)
<1> DEFINE c == q \o r
<1>1. /\ c \in Seq(S) /\ Len(c) = Len(q) + Len(r)
      /\ \A i \in 1 .. Len(q) + Len(r) : c[i] = IF i <= Len(q) THEN q[i] ELSE r[i - Len(q)]
  BY ConcatProperties
<1>2. /\ DOMAIN q = 1 .. Len(q) /\ DOMAIN r = 1 .. Len(r) /\ DOMAIN c = 1 .. Len(q) + Len(r)
      /\ Len(q) \in Nat /\ Len(r) \in Nat
  BY <1>1
<1> HIDE DEF c
<1>3. \A i \in 1 .. Len(q) + Len(r) : c[i] \in Node!ToSet(q) \cup Node!ToSet(r)
  <2> SUFFICES ASSUME NEW i \in 1 .. Len(q) + Len(r) PROVE c[i] \in Node!ToSet(q) \cup Node!ToSet(r)
    OBVIOUS
  <2>1. CASE i <= Len(q)
    BY <2>1, <1>1, <1>2 DEF Node!ToSet
  <2>2. CASE ~(i <= Len(q))
    <3>1. i - Len(q) \in 1 .. Len(r)
      BY <2>2, <1>2
    <3> QED
      BY <3>1, <2>2, <1>1, <1>2 DEF Node!ToSet
  <2> QED
    BY <2>1, <2>2
<1>4. \A i \in 1 .. Len(q) : q[i] \in Node!ToSet(c)
  <2> SUFFICES ASSUME NEW i \in 1 .. Len(q) PROVE q[i] \in Node!ToSet(c)
    OBVIOUS
  <2>1. i \in 1 .. Len(q) + Len(r) /\ i <= Len(q)
    BY <1>2
  <2> QED
    BY <2>1, <1>1, <1>2 DEF Node!ToSet
<1>5. \A i \in 1 .. Len(r) : r[i] \in Node!ToSet(c)
  <2> SUFFICES ASSUME NEW i \in 1 .. Len(r) PROVE r[i] \in Node!ToSet(c)
    OBVIOUS
  <2>1. i + Len(q) \in 1 .. Len(q) + Len(r) /\ ~(i + Len(q) <= Len(q)) /\ (i + Len(q)) - Len(q) = i
    BY <1>2
  <2>2. c[i + Len(q)] = r[i]
    BY <2>1, <1>1
  <2> QED
    BY <2>1, <2>2, <1>2 DEF Node!ToSet
<1>6. Node!ToSet(c) = Node!ToSet(q) \cup Node!ToSet(r)
  BY <1>2, <1>3, <1>4, <1>5 DEF Node!ToSet
<1> QED
  BY <1>1, <1>6 DEF c

LEMMA FrontSeq ==
  ASSUME NEW S, NEW q \in Seq(S), q # << >>
  PROVE  /\ Node!Front(q) \in Seq(S) /\ Len(Node!Front(q)) = Len(q) - 1
         /\ \A i \in 1 .. Len(q) - 1 : Node!Front(q)[i] = q[i]
         /\ Node!Last(q) = q[Len(q)] /\ q[Len(q)] \in S /\ Len(q) \in Nat /\ Len(q) >= 1
<1> DEFINE n == Len(q) - 1
<1>1. Len(q) \in Nat /\ Len(q) >= 1 /\ n \in Int /\ \A i \in 1 .. n : q[i] \in S
  OBVIOUS
<1>2. n \in Int /\ 1 \in Int
  BY <1>1
<1> HIDE DEF n
<1>3. SubSeq(q, 1, n) \in Seq(S)
  BY <1>1, <1>2, SubSeqProperties
<1>4. Len(SubSeq(q, 1, n)) = IF 1 <= n THEN n - 1 + 1 ELSE 0
  BY <1>1, <1>2, SubSeqProperties
<1>5. \A i \in 1 .. n - 1 + 1 : SubSeq(q, 1, n)[i] = q[1 + i - 1]
  BY <1>1, <1>2, SubSeqProperties
<1>6. Node!Front(q) = SubSeq(q, 1, n)
  BY DEF Node!Front, n
<1>7. \A i \in 1 .. n : SubSeq(q, 1, n)[i] = q[i]
  BY <1>5, <1>2
<1>8. Len(q) = n + 1
  BY <1>1 DEF n
<1>9. Len(SubSeq(q, 1, n)) = n
  BY <1>4, <1>1, <1>8
<1> QED
  BY <1>1, <1>3, <1>6, <1>7, <1>8, <1>9 DEF Node!Last

LEMMA EmptySet == Node!ToSet(<< >>) = {} /\ \A S : << >> \in Seq(S)
BY DEF Node!ToSet

\* What is in a configuration.
LEMMA Configuration ==
  ASSUME cfg \in Node!Configurations, ModuleCount \in Nat
  PROVE  /\ cfg.uri \subseteq Node!Names /\ cfg.pinata \in 0 .. ModuleCount - 1
         /\ \A e \in cfg.attached : e[1] \in Node!Names /\ e[2] \in Node!Names
         /\ \A e \in cfg.attached : e[3] = "io" => e[1] \notin cfg.uri
         /\ Node!Auto \notin Node!Names /\ Node!Configured \subseteq Node!Names
         /\ Node!None \notin Node!Names
<1>1. cfg.attached \subseteq Node!Attachments /\ cfg.uri \subseteq Node!Names
      /\ cfg.pinata \in 0 .. ModuleCount - 1
      /\ \A e \in cfg.attached : e[3] = "io" => e[1] \notin cfg.uri
  BY DEF Node!Configurations, Node!kSubset
<1> QED
  BY <1>1 DEF Node!Attachments, Node!Auto, Node!Names, Node!Configured, Node!None

LEMMA Reads ==
  ASSUME cfg \in Node!Configurations, ModuleCount \in Nat, NEW n \in Everything
  PROVE  /\ Before(n) \subseteq Uses(n) /\ Uses(n) \subseteq Everything
         /\ Uses(Node!Auto) = {}
         /\ Node!InitReads(n) \in Seq(Everything) /\ Node!ToSet(Node!InitReads(n)) = Before(n)
         /\ Node!AllProperties(n) \in Seq(Everything) /\ Node!ToSet(Node!AllProperties(n)) = Uses(n)
<1> DEFINE A == Node!Io(n)  B == Node!Attached(n, "init")  C == Node!Attached(n, "check")
<1>1. A \subseteq Everything /\ B \subseteq Everything /\ C \subseteq Everything
  BY Configuration DEF Node!Io, Node!Attached, Everything
<1>2. Uses(Node!Auto) = {}
  BY Configuration DEF Uses, Before, Node!Io, Node!Attached
<1> HIDE DEF A, B, C
<1>3. Before(n) = A \cup B /\ Uses(n) = A \cup B \cup C
  BY DEF Before, Uses, A, B, C
<1>4. /\ Node!InOrder(A) \in Seq(Everything) /\ Node!ToSet(Node!InOrder(A)) = A
      /\ Node!InOrder(B) \in Seq(Everything) /\ Node!ToSet(Node!InOrder(B)) = B
      /\ Node!InOrder(B \cup C) \in Seq(Everything) /\ Node!ToSet(Node!InOrder(B \cup C)) = B \cup C
  BY <1>1, InOrderLists
<1>5. /\ Node!InitReads(n) = Node!InOrder(A) \o Node!InOrder(B)
      /\ Node!AllProperties(n) = Node!InOrder(A) \o Node!InOrder(B \cup C)
  BY DEF Node!InitReads, Node!AllProperties, A, B, C
<1>6. /\ Node!InitReads(n) \in Seq(Everything) /\ Node!ToSet(Node!InitReads(n)) = A \cup B
      /\ Node!AllProperties(n) \in Seq(Everything) /\ Node!ToSet(Node!AllProperties(n)) = A \cup (B \cup C)
  <2>1. /\ Node!InOrder(A) \o Node!InOrder(B) \in Seq(Everything)
        /\ Node!ToSet(Node!InOrder(A) \o Node!InOrder(B)) = A \cup B
    BY <1>4, ConcatSet
  <2>2. /\ Node!InOrder(A) \o Node!InOrder(B \cup C) \in Seq(Everything)
        /\ Node!ToSet(Node!InOrder(A) \o Node!InOrder(B \cup C)) = A \cup (B \cup C)
    <3> DEFINE q == Node!InOrder(A)  r == Node!InOrder(B \cup C)
    <3>1. q \in Seq(Everything) /\ r \in Seq(Everything) /\ Node!ToSet(q) = A /\ Node!ToSet(r) = B \cup C
      BY <1>4
    <3> HIDE DEF q, r
    <3>2. q \o r \in Seq(Everything) /\ Node!ToSet(q \o r) = A \cup (B \cup C)
      BY <3>1, ConcatSet
    <3> QED
      BY <3>2 DEF q, r
  <2> QED
    BY <1>5, <2>1, <2>2
<1> QED
  BY <1>1, <1>2, <1>3, <1>6

LEMMA UsesStay ==
  ASSUME UNCHANGED cfg
  PROVE  \A n : Uses(n)' = Uses(n) /\ Before(n)' = Before(n)
BY DEF Uses, Before, Node!Io, Node!Attached

\* The frame on top has looked at a module.
LEMMA LookedIs ==
  ASSUME NEW F \in Seq(FrameSet), F # << >>, F[Len(F)].wait # << >>
  PROVE  /\ Node!Looked(F) \in Seq(FrameSet) /\ Len(Node!Looked(F)) = Len(F)
         /\ \A i \in 1 .. Len(F) : /\ Node!Looked(F)[i].obj = F[i].obj
                                   /\ Node!Looked(F)[i].check = F[i].check
                                   /\ Node!Looked(F)[i].wait = IF i = Len(F) THEN Tail(F[i].wait)
                                                               ELSE F[i].wait
<1> DEFINE top == [F[Len(F)] EXCEPT !.wait = Tail(@)]  low == Node!Front(F)
<1>1. /\ Len(F) \in Nat /\ Len(F) >= 1 /\ F[Len(F)] \in FrameSet /\ Node!Last(F) = F[Len(F)]
      /\ low \in Seq(FrameSet) /\ Len(low) = Len(F) - 1 /\ \A i \in 1 .. Len(F) - 1 : low[i] = F[i]
  BY FrontSeq
<1>2. top \in FrameSet /\ top.obj = F[Len(F)].obj /\ top.check = F[Len(F)].check
      /\ top.wait = Tail(F[Len(F)].wait)
  <2>1. F[Len(F)].wait \in Seq(Everything)
    BY <1>1 DEF FrameSet
  <2>2. Tail(F[Len(F)].wait) \in Seq(Everything)
    BY <2>1, TailSet
  <2> QED
    BY <1>1, <2>2 DEF FrameSet
<1>4. Node!Looked(F) = Append(low, top)
  BY <1>1 DEF Node!Looked
<1> HIDE DEF top, low
<1>5. /\ Append(low, top) \in Seq(FrameSet) /\ Len(Append(low, top)) = Len(F)
      /\ Append(low, top)[Len(F)] = top /\ \A i \in 1 .. Len(F) - 1 : Append(low, top)[i] = F[i]
  BY <1>1, <1>2
<1> QED
  BY <1>1, <1>2, <1>4, <1>5

-----------------------------------------------------------------------------
(* The start of a node.                                                    *)

LEMMA DictionaryStays ==
  ASSUME Dictionary, UNCHANGED <<cfg, known, ioDict, objects, modules>>
  PROVE  Dictionary'
BY DEF Dictionary, InNode, Objects, Name, Uses, Before, Node!Stored, Node!Io, Node!Attached

LEMMA StackEmpty ==
  ASSUME nodeStack' = << >>
  PROVE  Stack'
BY DEF Stack

LEMMA NotLooking ==
  ASSUME NodeMade, phase \notin {"scan", "init"}
  PROVE  nodeStack = << >>
BY DEF NodeMade, Stack

\* ShutdownInv down: nothing of what was made changes.
LEMMA BaseAtShutdown ==
  ASSUME NodeMade, phase \in Made \ {"init"}, phase' \in Made \ {"init"}, polled' \subseteq polled,
         UNCHANGED <<cfg, known, ioDict, objects, modules, errors, nodeStack>>
  PROVE  NodeMade'
<1>1. Dictionary'
  BY DictionaryStays DEF NodeMade
<1>2. Stack'
  BY NotLooking, StackEmpty DEF Made
<1>3. NodeTyped'
  BY DEF NodeMade, NodeTyped, NodePhases, Made, InNode, Objects, Node!Configured
<1>4. AllMade'
  BY DEF NodeMade, AllMade, Made, Node!Stored
<1> QED
  BY <1>1, <1>2, <1>3, <1>4 DEF NodeMade

LEMMA BaseInit ==
  ASSUME Node!Init, ModuleCount \in Nat
  PROVE  NodeMade
<1>1. Node!InOrder(known) \in Seq(Node!Names) /\ Node!ToSet(Node!InOrder(known)) = known /\ known \subseteq Node!Names
  <2>1. known \subseteq Node!Names
    BY DEF Node!Init, Node!Configured
  <2>2. Node!InOrder(known) \in Seq(known) /\ Node!ToSet(Node!InOrder(known)) = known
    BY <2>1, InOrderLists DEF Everything
  <2> QED
    BY <2>1, <2>2, SeqMonotonic
<1>2. NodeTyped
  BY <1>1, EmptySet DEF Node!Init, NodeTyped, NodePhases, InNode
<1>3. Dictionary
  BY EmptySet DEF Node!Init, Dictionary, Objects, Node!Stored
<1>4. AllMade
  <2>1. cfg.pinata = Node!None \/ cfg.pinata \in known
    BY Configuration DEF Node!Init, Node!Configured, Node!None, Node!Names
  <2>2. \A n : ~Node!Stored(n)
    BY EmptySet DEF Node!Init, Node!Stored
  <2> QED
    BY <1>1, <2>1, <2>2 DEF Node!Init, AllMade, Made
<1>5. Stack
  BY DEF Node!Init, Stack
<1> QED
  BY <1>2, <1>3, <1>4, <1>5 DEF NodeMade

LEMMA BaseRestart ==
  ASSUME NodeMade, Node!Restart, ModuleCount \in Nat
  PROVE  NodeMade'
<1>1. Node!InOrder(known) \in Seq(Node!Names) /\ Node!ToSet(Node!InOrder(known)) = known /\ known \subseteq Node!Names
  <2>1. known \subseteq Node!Names
    BY DEF NodeMade, NodeTyped
  <2>2. Node!InOrder(known) \in Seq(known) /\ Node!ToSet(Node!InOrder(known)) = known
    BY <2>1, InOrderLists DEF Everything
  <2> QED
    BY <2>1, <2>2, SeqMonotonic
<1>2. nodeStack' = << >>
  BY NotLooking DEF Node!Restart
<1>3. cfg' = cfg /\ known' = known /\ todos' = Node!InOrder(known) /\ objects' = << >> /\ modules' = << >>
      /\ errors' = FALSE /\ polled' = {} /\ phase' = "create" /\ ioDict' = ioDict
  BY DEF Node!Restart
<1>4. NodeTyped'
  BY <1>1, <1>2, <1>3, EmptySet DEF NodeMade, NodeTyped, NodePhases, InNode, Node!Configured
<1>5. Dictionary'
  BY <1>3, EmptySet DEF Dictionary, Objects, Node!Stored
<1>6. AllMade'
  <2>1. cfg.pinata = Node!None \/ cfg.pinata \in known
    BY Configuration DEF NodeMade, NodeTyped, Node!Configured, Node!None, Node!Names
  <2>2. \A n : ~Node!Stored(n)'
    BY <1>3, EmptySet DEF Node!Stored
  <2> QED
    BY <1>1, <1>3, <2>1, <2>2 DEF AllMade, Made
<1>7. Stack'
  BY <1>2, StackEmpty
<1> QED
  BY <1>4, <1>5, <1>6, <1>7 DEF NodeMade

LEMMA BaseAlreadyCreated ==
  ASSUME NodeMade, Node!AlreadyCreated, ModuleCount \in Nat
  PROVE  NodeMade'
<1>1. todos \in Seq(Node!Names) /\ todos # << >> /\ phase = "create" /\ phase' = "create"
  BY DEF NodeMade, NodeTyped, Node!AlreadyCreated, Node!Creating
<1>2. /\ Head(todos) \in Node!Names /\ todos' \in Seq(Node!Names)
      /\ Node!ToSet(todos) = {Head(todos)} \cup Node!ToSet(todos')
  BY <1>1, TailSet DEF Node!AlreadyCreated
<1>3. UNCHANGED <<cfg, known, ioDict, objects, modules, errors, nodeStack, polled>> /\ Node!Stored(Head(todos))
  BY DEF Node!AlreadyCreated, Node!nodeVars
<1>4. Dictionary'
  BY <1>3, DictionaryStays DEF NodeMade
<1>5. Stack'
  BY <1>1, <1>3, NotLooking, StackEmpty
<1>6. NodeTyped'
  BY <1>1, <1>2, <1>3 DEF NodeMade, NodeTyped, NodePhases, InNode, Objects, Node!Configured
<1>7. Head(todos) \in known \ {cfg.broken}
  BY <1>2, <1>3 DEF NodeMade, NodeTyped, Dictionary, Node!Stored, Name, InNode, Objects
<1>8. AllMade'
  <2>1. \A n : Node!Stored(n)' = Node!Stored(n)
    BY <1>3 DEF Node!Stored
  <2> QED
    BY <1>1, <1>2, <1>3, <1>7, <2>1 DEF NodeMade, AllMade, Made
<1> QED
  BY <1>4, <1>5, <1>6, <1>8 DEF NodeMade

LEMMA BaseNotAClass ==
  ASSUME NodeMade, Node!NotAClass, ModuleCount \in Nat
  PROVE  NodeMade'
<1>1. todos \in Seq(Node!Names) /\ todos # << >> /\ phase = "create" /\ phase' = "create"
  BY DEF NodeMade, NodeTyped, Node!NotAClass, Node!Creating
<1>2. /\ Head(todos) \in Node!Names /\ todos' \in Seq(Node!Names)
      /\ Node!ToSet(todos) = {Head(todos)} \cup Node!ToSet(todos')
  BY <1>1, TailSet DEF Node!NotAClass
<1>3. /\ UNCHANGED <<cfg, ioDict, objects, modules, nodeStack, polled>>
      /\ Head(todos) = cfg.broken /\ errors' /\ known' = known \cup {cfg.broken}
      /\ errors' = TRUE
  BY DEF Node!NotAClass
<1>4. Dictionary'
  BY <1>3 DEF NodeMade, Dictionary, InNode, Objects, Name, Uses, Before, Node!Stored, Node!Io, Node!Attached
<1>5. Stack'
  BY <1>1, <1>3, NotLooking, StackEmpty
<1>6. NodeTyped'
  BY <1>1, <1>2, <1>3 DEF NodeMade, NodeTyped, NodePhases, InNode, Objects, Node!Configured
<1>8. AllMade'
  <2>1. \A n : Node!Stored(n)' = Node!Stored(n)
    BY <1>3 DEF Node!Stored
  <2> QED
    BY <1>1, <1>2, <1>3, <2>1 DEF NodeMade, AllMade, Made
<1> QED
  BY <1>4, <1>5, <1>6, <1>8 DEF NodeMade

\* What get_module_instance does.
LEMMA ConstructIs ==
  ASSUME NodeMade, ModuleCount \in Nat, NEW n \in Node!Names, Node!Construct(n)
  PROVE  /\ objects' \in Seq(Object) /\ Len(objects') = Node!Constructed(n)
         /\ objects'[Node!Constructed(n)] = Node!NewObject(n)
         /\ \A o \in Objects : objects'[o] = objects[o]
         /\ Objects = 1 .. Len(objects) /\ Len(objects) \in Nat /\ Objects' = 1 .. Node!Constructed(n)
         /\ ioDict' = (ioDict \/ Node!MakesIo(n))
         /\ IF Node!MakesIo(n)
            THEN /\ Node!Constructed(n) = Len(objects) + 2 /\ Node!AddedIo(n) = <<Len(objects) + 1>>
                 /\ objects'[Len(objects) + 1] = Node!NewObject(Node!Auto)
            ELSE Node!Constructed(n) = Len(objects) + 1 /\ Node!AddedIo(n) = << >>
<1>1. objects \in Seq(Object) /\ Objects = 1 .. Len(objects) /\ Len(objects) \in Nat
  BY DEF NodeMade, NodeTyped, Objects
<1>2. Node!NewObject(n) \in Object /\ Node!NewObject(Node!Auto) \in Object
  BY DEF Node!NewObject, Object, Everything
<1>3. CASE Node!MakesIo(n)
  <2> DEFINE a == Node!NewObject(Node!Auto)  b == Node!NewObject(n)
  <2>1. objects' = objects \o <<a>> \o <<b>> /\ Node!Constructed(n) = Len(objects) + 2
        /\ Node!AddedIo(n) = <<Len(objects) + 1>>
    BY <1>1, <1>3 DEF Node!Construct, Node!WithIo, Node!Constructed, Node!AddedIo
  <2> HIDE DEF a, b
  <2>2. objects \o <<a>> \o <<b>> = Append(Append(objects, a), b)
    BY <1>1, <1>2 DEF a, b
  <2>3. Append(objects, a) \in Seq(Object) /\ Len(Append(objects, a)) = Len(objects) + 1
        /\ Append(objects, a)[Len(objects) + 1] = a /\ \A i \in 1 .. Len(objects) : Append(objects, a)[i] = objects[i]
    BY <1>1, <1>2, AppendSet DEF a
  <2>4. LET q == Append(objects, a) IN
        Append(q, b) \in Seq(Object) /\ Len(Append(q, b)) = Len(objects) + 2
        /\ Append(q, b)[Len(objects) + 2] = b /\ \A i \in 1 .. Len(objects) + 1 : Append(q, b)[i] = q[i]
    <3> DEFINE q == Append(objects, a)
    <3>1. q \in Seq(Object) /\ Len(q) = Len(objects) + 1 /\ b \in Object /\ Len(q) + 1 = Len(objects) + 2
      BY <2>3, <1>1, <1>2 DEF b
    <3> HIDE DEF q
    <3>2. Append(q, b) \in Seq(Object) /\ Len(Append(q, b)) = Len(objects) + 2
          /\ Append(q, b)[Len(objects) + 2] = b /\ \A i \in 1 .. Len(objects) + 1 : Append(q, b)[i] = q[i]
      BY <3>1, AppendSet
    <3> QED
      BY <3>2 DEF q
  <2>5. objects' \in Seq(Object) /\ Len(objects') = Len(objects) + 2 /\ objects'[Len(objects) + 2] = b
        /\ objects'[Len(objects) + 1] = a /\ \A i \in 1 .. Len(objects) : objects'[i] = objects[i]
    BY <2>1, <2>2, <2>3, <2>4, <1>1
  <2> QED
    BY <1>1, <1>3, <2>1, <2>5 DEF a, b, Objects, Node!Construct
<1>4. CASE ~Node!MakesIo(n)
  <2> DEFINE b == Node!NewObject(n)
  <2>1. objects' = objects \o << >> \o <<b>> /\ Node!Constructed(n) = Len(objects) + 1 /\ Node!AddedIo(n) = << >>
    BY <1>1, <1>4 DEF Node!Construct, Node!WithIo, Node!Constructed, Node!AddedIo
  <2> HIDE DEF b
  <2>2. objects \o << >> \o <<b>> = Append(objects, b)
    BY <1>1, <1>2 DEF b
  <2>3. Append(objects, b) \in Seq(Object) /\ Len(Append(objects, b)) = Len(objects) + 1
        /\ Append(objects, b)[Len(objects) + 1] = b /\ \A i \in 1 .. Len(objects) : Append(objects, b)[i] = objects[i]
    BY <1>1, <1>2, AppendSet DEF b
  <2>4. objects' \in Seq(Object) /\ Len(objects') = Len(objects) + 1 /\ objects'[Len(objects) + 1] = b
        /\ \A i \in 1 .. Len(objects) : objects'[i] = objects[i]
    BY <2>1, <2>2, <2>3
  <2> QED
    BY <1>1, <1>4, <2>1, <2>4 DEF b, Objects, Node!Construct
<1> QED
  BY <1>3, <1>4

Distinct(obs, q) == \A i, j \in DOMAIN q : obs[q[i]].name = obs[q[j]].name => i = j

LEMMA OneMore ==
  ASSUME NEW obs, NEW q \in Seq(Nat), NEW x \in Nat, Distinct(obs, q),
         \A y \in Node!ToSet(q) : obs[y].name # obs[x].name
  PROVE  Append(q, x) \in Seq(Nat) /\ Distinct(obs, Append(q, x))
         /\ Node!ToSet(Append(q, x)) = Node!ToSet(q) \cup {x}
<1> DEFINE r == Append(q, x)
<1>1. /\ r \in Seq(Nat) /\ Node!ToSet(r) = Node!ToSet(q) \cup {x} /\ Len(r) = Len(q) + 1
      /\ r[Len(q) + 1] = x /\ \A i \in 1 .. Len(q) : r[i] = q[i]
  BY AppendSet
<1>2. DOMAIN q = 1 .. Len(q) /\ DOMAIN r = 1 .. Len(q) + 1 /\ Len(q) \in Nat
  BY <1>1
<1> HIDE DEF r
<1>3. \A i \in 1 .. Len(q) : obs[r[i]].name # obs[x].name
  BY <1>1, <1>2 DEF Node!ToSet
<1>4. Distinct(obs, r)
  <2> SUFFICES ASSUME NEW i \in 1 .. Len(q) + 1, NEW j \in 1 .. Len(q) + 1,
                      obs[r[i]].name = obs[r[j]].name
               PROVE  i = j
    BY <1>2 DEF Distinct
  <2>1. i \in 1 .. Len(q) \/ i = Len(q) + 1
    BY <1>2
  <2>2. j \in 1 .. Len(q) \/ j = Len(q) + 1
    BY <1>2
  <2> QED
    BY <2>1, <2>2, <1>1, <1>2, <1>3 DEF Distinct
<1> QED
  BY <1>1, <1>4 DEF r

\* A module is made, and with it its communicator when it is the first to want it.
LEMMA Constructing ==
  ASSUME NodeMade, ModuleCount \in Nat, NEW n \in Node!Names, ~Node!Stored(n), Node!Construct(n),
         UNCHANGED cfg, known \subseteq known', n \in known' \ {cfg.broken},
         NEW here \in BOOLEAN,
         modules' = modules \o Node!AddedIo(n) \o (IF here THEN <<Node!Constructed(n)>> ELSE << >>)
  PROVE  /\ Dictionary'
         /\ modules' \in Seq(Nat) /\ InNode' \subseteq Objects' /\ InNode \subseteq InNode'
         /\ objects' \in Seq(Object)
         /\ Objects \subseteq Objects' /\ \A o \in Objects : objects'[o] = objects[o]
         /\ Node!Constructed(n) \in Objects' /\ Node!Constructed(n) \notin Objects
         /\ objects'[Node!Constructed(n)] = Node!NewObject(n)
         /\ \A m : Node!Stored(m) => Node!Stored(m)'
         /\ \A m \in Node!Names : Node!Stored(m)' => Node!Stored(m) \/ (here /\ m = n)
         /\ here => Node!Stored(n)'
         /\ \A o \in Objects' \ Objects : objects'[o] = Node!NewObject(n) \/ objects'[o] = Node!NewObject(Node!Auto)
<1> DEFINE k == Node!Constructed(n)  L == Len(objects)
<1>1. /\ objects' \in Seq(Object) /\ Len(objects') = k
      /\ objects'[k] = Node!NewObject(n)
      /\ \A o \in Objects : objects'[o] = objects[o]
      /\ Objects = 1 .. L /\ L \in Nat /\ Objects' = 1 .. k
      /\ ioDict' = (ioDict \/ Node!MakesIo(n))
      /\ IF Node!MakesIo(n)
         THEN k = L + 2 /\ Node!AddedIo(n) = <<L + 1>> /\ objects'[L + 1] = Node!NewObject(Node!Auto)
         ELSE k = L + 1 /\ Node!AddedIo(n) = << >>
  BY ConstructIs
<1> HIDE DEF k, L
<1>2. /\ modules \in Seq(Nat) /\ InNode \subseteq Objects /\ Distinct(objects, modules)
      /\ Node!Stored(Node!Auto) => ioDict
  BY DEF NodeMade, NodeTyped, Dictionary, Distinct, Name
<1>3. Distinct(objects', modules)
  BY <1>1, <1>2 DEF Distinct, InNode, Node!ToSet
<1>4. n # Node!Auto
  BY DEF Node!Names, Node!Auto
<1>5. \A y \in InNode : objects'[y].name # n /\ (~ioDict => objects'[y].name # Node!Auto)
  BY <1>1, <1>2 DEF Node!Stored, InNode
<1> DEFINE mid == modules \o Node!AddedIo(n)
<1>6. /\ mid \in Seq(Nat) /\ Distinct(objects', mid)
      /\ Node!ToSet(mid) = InNode \cup (IF Node!MakesIo(n) THEN {L + 1} ELSE {})
  <2>1. CASE Node!MakesIo(n)
    <3>1. \A y \in Node!ToSet(modules) : objects'[y].name # objects'[L + 1].name
      BY <2>1, <1>1, <1>5 DEF Node!MakesIo, Node!NewObject, InNode
    <3>2. L + 1 \in Nat
      BY <1>1
    <3>3. /\ Append(modules, L + 1) \in Seq(Nat) /\ Distinct(objects', Append(modules, L + 1))
          /\ Node!ToSet(Append(modules, L + 1)) = Node!ToSet(modules) \cup {L + 1}
      BY <1>2, <1>3, <3>1, <3>2, OneMore
    <3>5. mid = modules \o <<L + 1>>
      BY <2>1, <1>1
    <3>4. mid = Append(modules, L + 1)
      BY <3>5, <1>2, <3>2, AppendIsConcat
    <3> HIDE DEF mid
    <3> QED
      BY <2>1, <3>3, <3>4 DEF InNode
  <2>2. CASE ~Node!MakesIo(n)
    <3>1. mid = modules
      BY <2>2, <1>1, <1>2
    <3> HIDE DEF mid
    <3> QED
      BY <3>1, <2>2, <1>2, <1>3 DEF InNode
  <2> QED
    BY <2>1, <2>2
<1>7. /\ modules' \in Seq(Nat) /\ Distinct(objects', modules')
      /\ InNode' = InNode \cup (IF Node!MakesIo(n) THEN {L + 1} ELSE {}) \cup (IF here THEN {k} ELSE {})
  <2>1. CASE here
    <3>1. \A y \in Node!ToSet(mid) : objects'[y].name # objects'[k].name
      BY <1>1, <1>4, <1>5, <1>6 DEF Node!NewObject
    <3>2. k \in Nat
      BY <1>1
    <3>3. modules' = mid \o <<k>>
      BY <2>1 DEF k
    <3> HIDE DEF mid
    <3>5. mid \in Seq(Nat) /\ Distinct(objects', mid)
      BY <1>6
    <3>4. modules' = Append(mid, k)
      BY <3>2, <3>3, <3>5, AppendIsConcat
    <3>6. /\ Append(mid, k) \in Seq(Nat) /\ Distinct(objects', Append(mid, k))
          /\ Node!ToSet(Append(mid, k)) = Node!ToSet(mid) \cup {k}
      BY <3>1, <3>2, <3>5, OneMore
    <3>7. InNode' = Node!ToSet(modules')
      BY DEF InNode
    <3> QED
      BY <2>1, <3>4, <3>6, <3>7, <1>6
  <2>2. CASE ~here
    <3>1. modules' = mid \o << >>
      BY <2>2
    <3> HIDE DEF mid
    <3>2. modules' = mid
      BY <3>1, <1>6
    <3> QED
      BY <3>2, <2>2, <1>6 DEF InNode
  <2> QED
    BY <2>1, <2>2
<1> HIDE DEF mid
<1>8. k \in Objects' /\ k \notin Objects /\ Objects \subseteq Objects' /\ InNode' \subseteq Objects'
      /\ (Node!MakesIo(n) => L + 1 \in Objects' /\ L + 1 \notin Objects)
      /\ \A o \in Objects' \ Objects : o = k \/ (Node!MakesIo(n) /\ o = L + 1)
  <2>1. L + 1 \in 1 .. L + 2 /\ L + 2 \in 1 .. L + 2 /\ L + 1 \in 1 .. L + 1
        /\ L + 1 \notin 1 .. L /\ L + 2 \notin 1 .. L
        /\ 1 .. L \subseteq 1 .. L + 1 /\ 1 .. L \subseteq 1 .. L + 2
        /\ (\A o \in 1 .. L + 2 : o \in 1 .. L \/ o = L + 1 \/ o = L + 2)
        /\ (\A o \in 1 .. L + 1 : o \in 1 .. L \/ o = L + 1)
    BY <1>1
  <2>2. CASE Node!MakesIo(n)
    <3>1. k = L + 2 /\ Objects = 1 .. L /\ Objects' = 1 .. L + 2
      BY <2>2, <1>1
    <3>2. InNode' \subseteq InNode \cup {L + 1, k}
      BY <1>7
    <3> QED
      BY <2>1, <2>2, <3>1, <3>2, <1>2
  <2>3. CASE ~Node!MakesIo(n)
    <3>1. k = L + 1 /\ Objects = 1 .. L /\ Objects' = 1 .. L + 1
      BY <2>3, <1>1
    <3>2. InNode' \subseteq InNode \cup {k}
      BY <2>3, <1>7
    <3> QED
      BY <2>1, <2>3, <3>1, <3>2, <1>2
  <2> QED
    BY <2>2, <2>3
<1>17. objects'[k].name = n /\ objects'[k].attached = {}
       /\ (Node!MakesIo(n) => objects'[L + 1].name = Node!Auto /\ objects'[L + 1].attached = {})
  BY <1>1 DEF Node!NewObject
<1>18. (here => k \in InNode') /\ (Node!MakesIo(n) => L + 1 \in InNode')
       /\ (\A o \in InNode' : o \in InNode \/ (here /\ o = k) \/ (Node!MakesIo(n) /\ o = L + 1))
  BY <1>7
<1>9. \A m : Node!Stored(m)' <=> \E o \in InNode' : objects'[o].name = m
  BY DEF Node!Stored, InNode
<1>10. \A m : Node!Stored(m) <=> \E o \in InNode : objects[o].name = m
  BY DEF Node!Stored, InNode
<1>11. \A o \in InNode : objects'[o].name = objects[o].name
  BY <1>1, <1>2
<1>12. \A m : Node!Stored(m) => Node!Stored(m)'
  BY <1>7, <1>9, <1>10, <1>11
<1>13. \A m \in Node!Names : Node!Stored(m)' => Node!Stored(m) \/ (here /\ m = n)
  <2>1. \A m \in Node!Names : m # Node!Auto
    BY DEF Node!Names, Node!Auto
  <2> QED
    BY <2>1, <1>9, <1>10, <1>11, <1>17, <1>18
<1>14. (here => Node!Stored(n)') /\ (Node!MakesIo(n) => Node!Stored(Node!Auto)')
  BY <1>9, <1>17, <1>18
<1>15. Dictionary'
  <2>1. Node!Stored(Node!Auto)' => ioDict'
    BY <1>1, <1>2, <1>4, <1>9, <1>10, <1>11, <1>17, <1>18
  <2>2. \A i, j \in DOMAIN modules' : Name(modules[i])' = Name(modules[j])' => i = j
    BY <1>7 DEF Distinct, Name
  <2>3. ASSUME NEW o \in Objects'
        PROVE  /\ objects'[o].name \in Node!Names => objects'[o].name \in known' \ {cfg.broken}
               /\ objects'[o].name = Node!Auto => Node!Stored(Node!Auto)'
               /\ \A e \in objects'[o].attached :
                    e[2] \in Objects' /\ objects'[e[2]].name = e[1] /\ e[1] \in Uses(objects'[o].name)
    <3>1. CASE o \in Objects
      <4>1. objects'[o] = objects[o]
        BY <3>1, <1>1
      <4>2. /\ objects[o].name \in Node!Names => objects[o].name \in known \ {cfg.broken}
            /\ objects[o].name = Node!Auto => Node!Stored(Node!Auto)
            /\ \A e \in objects[o].attached :
                 e[2] \in Objects /\ objects[e[2]].name = e[1] /\ e[1] \in Uses(objects[o].name)
        BY <3>1 DEF NodeMade, Dictionary, Name
      <4> QED
        BY <4>1, <4>2, <1>1, <1>8, <1>12
    <3>2. CASE o = k
      BY <3>2, <1>17, <1>4
    <3>3. CASE Node!MakesIo(n) /\ o = L + 1
      BY <3>3, <1>17, <1>14, Configuration DEF NodeMade, NodeTyped
    <3> QED
      BY <3>1, <3>2, <3>3, <1>8
  <2>4. \A m : Uses(m)' = Uses(m)
    BY UsesStay
  <2> QED
    BY <2>1, <2>2, <2>3, <2>4 DEF Dictionary, Name
<1>16. \A o \in Objects' \ Objects : objects'[o] = Node!NewObject(n) \/ objects'[o] = Node!NewObject(Node!Auto)
  BY <1>1, <1>8
<1> QED
  BY <1>1, <1>7, <1>8, <1>12, <1>13, <1>14, <1>15, <1>16 DEF k

\* Objects are added and attached, and keep their names.
Grown ==
  /\ cfg' = cfg /\ (errors => errors')
  /\ \A o \in Objects : /\ o \in Objects' /\ objects'[o].name = objects[o].name
                        /\ objects[o].attached \subseteq objects'[o].attached

LEMMA FrameStays ==
  ASSUME Stack, Grown, NEW i \in DOMAIN nodeStack
  PROVE  LET f == nodeStack[i] IN
         /\ f.obj \in Objects' /\ objects'[f.obj].name = Name(f.obj)
         /\ Node!ToSet(f.wait) \subseteq Uses(Name(f.obj))
         /\ f.check => i = 1 /\ phase = "init"
         /\ \A n \in Uses(Name(f.obj)) : n \in Before(Name(f.obj)) \/ f.check =>
              \/ n \in Node!ToSet(f.wait)
              \/ \E e \in objects'[f.obj].attached : e[1] = n
              \/ f.check /\ errors'
<1> DEFINE f == nodeStack[i]
<1>1. /\ f.obj \in Objects /\ Node!ToSet(f.wait) \subseteq Uses(Name(f.obj))
      /\ f.check => i = 1 /\ phase = "init" 
      /\ \A n \in Uses(Name(f.obj)) : n \in Before(Name(f.obj)) \/ f.check =>
            n \in Node!ToSet(f.wait) \/ Node!IsAttached(f.obj, n) \/ (f.check /\ errors)
  BY DEF Stack
<1> HIDE DEF f
<1>2. objects'[f.obj].name = Name(f.obj) /\ f.obj \in Objects'
  BY <1>1 DEF Grown, Name
<1>5. \A n : Node!IsAttached(f.obj, n) => \E e \in objects'[f.obj].attached : e[1] = n
  BY <1>1 DEF Grown, Node!IsAttached
<1>6. errors => errors'
  BY DEF Grown
<1>7. \A n \in Uses(Name(f.obj)) : n \in Before(Name(f.obj)) \/ f.check =>
              \/ n \in Node!ToSet(f.wait)
              \/ \E e \in objects'[f.obj].attached : e[1] = n
              \/ f.check /\ errors'
  BY <1>1, <1>5, <1>6
<1> HIDE DEF Grown, Stack
<1> QED
  BY <1>1, <1>2, <1>7 DEF f

\* What Stack says, in terms of the names of the frames.
LEMMA StackIs ==
  ASSUME cfg' = cfg, nodeStack' # << >> => phase' \in {"scan", "init"},
         \A i \in DOMAIN nodeStack' : LET f == nodeStack'[i]  n == objects'[f.obj].name IN
           /\ f.obj \in Objects' /\ Node!ToSet(f.wait) \subseteq Uses(n)
           /\ f.check => i = 1 /\ phase' = "init"
           /\ \A m \in Uses(n) : m \in Before(n) \/ f.check =>
                \/ m \in Node!ToSet(f.wait)
                \/ \E e \in objects'[f.obj].attached : e[1] = m
                \/ f.check /\ errors',
         \A i \in 1 .. Len(nodeStack') - 1 :
           /\ nodeStack'[i].wait # << >>
           /\ Head(nodeStack'[i].wait) = objects'[nodeStack'[i+1].obj].name
  PROVE  Stack'
<1>1. \A n : Uses(n)' = Uses(n) /\ Before(n)' = Before(n)
  BY UsesStay
<1> QED
  BY <1>1 DEF Stack, Name, Node!IsAttached

\* A module on the stack is looked at, and then the next one.
LEMMA StackLooked ==
  ASSUME NodeMade, Stack, Grown, ModuleCount \in Nat, phase' = phase, phase \in {"scan", "init"},
         NEW F \in Seq(FrameSet), F # << >>, Len(F) <= Len(nodeStack),
         \A i \in 1 .. Len(F) : F[i] = nodeStack[i],
         F[Len(F)].wait # << >>, nodeStack' = Node!Looked(F),
         \/ \E e \in objects'[F[Len(F)].obj].attached : e[1] = Head(F[Len(F)].wait)
         \/ F[Len(F)].check /\ errors'
  PROVE  Stack' /\ nodeStack' \in Seq(FrameSet)
<1> DEFINE G == Node!Looked(F)
<1>1. /\ G \in Seq(FrameSet) /\ Len(G) = Len(F)
      /\ \A i \in 1 .. Len(F) : /\ G[i].obj = F[i].obj
                                /\ G[i].check = F[i].check
                                /\ G[i].wait = IF i = Len(F) THEN Tail(F[i].wait) ELSE F[i].wait
  BY LookedIs
<1> HIDE DEF G
<1>2. DOMAIN nodeStack = 1 .. Len(nodeStack) /\ Len(nodeStack) \in Nat /\ Len(F) \in Nat /\ Len(F) >= 1
      /\ DOMAIN G = 1 .. Len(F) /\ DOMAIN F = 1 .. Len(F)
  BY <1>1 DEF NodeMade, NodeTyped
<1>3. \A i \in 1 .. Len(F) : i \in DOMAIN nodeStack
  BY <1>2
<1>4. cfg' = cfg
  BY DEF Grown
<1>5. ASSUME NEW i \in 1 .. Len(F)
      PROVE  LET f == G[i]  n == objects'[f.obj].name IN
           /\ f.obj \in Objects' /\ Node!ToSet(f.wait) \subseteq Uses(n)
           /\ f.check => i = 1 /\ phase = "init"
           /\ \A m \in Uses(n) : m \in Before(n) \/ f.check =>
                \/ m \in Node!ToSet(f.wait)
                \/ \E e \in objects'[f.obj].attached : e[1] = m
                \/ f.check /\ errors'
  <2> DEFINE f == nodeStack[i]
  <2>1. /\ f.obj \in Objects' /\ objects'[f.obj].name = Name(f.obj)
        /\ Node!ToSet(f.wait) \subseteq Uses(Name(f.obj))
        /\ f.check => i = 1 /\ phase = "init"
        /\ \A n \in Uses(Name(f.obj)) : n \in Before(Name(f.obj)) \/ f.check =>
             \/ n \in Node!ToSet(f.wait)
             \/ \E e \in objects'[f.obj].attached : e[1] = n
             \/ f.check /\ errors'
    BY <1>3, FrameStays
  <2>2. f = F[i] /\ f \in FrameSet
    BY <1>2
  <2> HIDE DEF f
  <2>3. CASE i # Len(F)
    BY <2>1, <2>2, <2>3, <1>1
  <2>4. CASE i = Len(F)
    <3>1. f.wait \in Seq(Everything) /\ f.wait # << >> /\ f = F[Len(F)]
      BY <2>2, <2>4 DEF FrameSet
    <3>2. Node!ToSet(f.wait) = {Head(f.wait)} \cup Node!ToSet(Tail(f.wait))
      BY <3>1, TailSet
    <3>3. G[i].obj = f.obj /\ G[i].check = f.check /\ G[i].wait = Tail(f.wait)
      BY <2>2, <2>4, <1>1
    <3>4. \/ \E e \in objects'[f.obj].attached : e[1] = Head(f.wait)
          \/ f.check /\ errors'
      BY <3>1
    <3> QED
      BY <2>1, <3>2, <3>3, <3>4
  <2> QED
    BY <2>3, <2>4
<1>6. ASSUME NEW i \in 1 .. Len(F) - 1
      PROVE  G[i].wait # << >> /\ Head(G[i].wait) = objects'[G[i+1].obj].name
  <2>1. i \in 1 .. Len(F) /\ i + 1 \in 1 .. Len(F) /\ i # Len(F) /\ i \in 1 .. Len(nodeStack) - 1
        /\ i + 1 \in DOMAIN nodeStack
    BY <1>2
  <2>2. nodeStack[i].wait # << >> /\ Head(nodeStack[i].wait) = Name(nodeStack[i+1].obj)
    BY <2>1 DEF Stack
  <2>3. objects'[nodeStack[i+1].obj].name = Name(nodeStack[i+1].obj)
    BY <2>1, FrameStays
  <2>4. F[i] = nodeStack[i] /\ F[i + 1] = nodeStack[i + 1] /\ G[i].wait = F[i].wait /\ G[i+1].obj = F[i+1].obj
    BY <2>1, <1>1
  <2> QED
    BY <2>2, <2>3, <2>4
<1>7. nodeStack' = G
  BY DEF G
<1>8. Stack'
  <2>1. \A i \in DOMAIN nodeStack' : LET f == nodeStack'[i]  n == objects'[f.obj].name IN
           /\ f.obj \in Objects' /\ Node!ToSet(f.wait) \subseteq Uses(n)
           /\ f.check => i = 1 /\ phase' = "init"
           /\ \A m \in Uses(n) : m \in Before(n) \/ f.check =>
                \/ m \in Node!ToSet(f.wait)
                \/ \E e \in objects'[f.obj].attached : e[1] = m
                \/ f.check /\ errors'
    BY <1>2, <1>5, <1>7
  <2>2. \A i \in 1 .. Len(nodeStack') - 1 :
           /\ nodeStack'[i].wait # << >>
           /\ Head(nodeStack'[i].wait) = objects'[nodeStack'[i+1].obj].name
    BY <1>1, <1>6, <1>7
  <2>3. nodeStack' # << >> => phase' \in {"scan", "init"}
    OBVIOUS
  <2> QED
    BY <1>4, <2>1, <2>2, <2>3, StackIs
<1> QED
  BY <1>1, <1>7, <1>8

\* A module which is looked at for the first time begins to look at others.
LEMMA StackPush ==
  ASSUME NodeMade, Stack, Grown, ModuleCount \in Nat, NEW o \in Objects', NEW n \in Everything,
         objects'[o].name = n, phase' \in {"scan", "init"},
         nodeStack # << >> => /\ phase' = phase /\ nodeStack[Len(nodeStack)].wait # << >>
                              /\ Head(nodeStack[Len(nodeStack)].wait) = n,
         NEW x \in FrameSet, x.obj = o, x.check => nodeStack = << >> /\ phase' = "init",
         Node!ToSet(x.wait) \subseteq Uses(n),
         \A m \in Uses(n) : m \in Before(n) \/ x.check => m \in Node!ToSet(x.wait),
         nodeStack' = Append(nodeStack, x)
  PROVE  Stack' /\ nodeStack' \in Seq(FrameSet)
<1> DEFINE G == nodeStack'  L == Len(nodeStack)
<1>2. nodeStack \in Seq(FrameSet)
  BY DEF NodeMade, NodeTyped
<1>3. G = Append(nodeStack, x)
  OBVIOUS
<1> HIDE DEF G, L
<1>4. /\ G \in Seq(FrameSet) /\ Len(G) = L + 1 /\ G[L + 1] = x
      /\ \A i \in 1 .. L : G[i] = nodeStack[i]
  BY <1>2, <1>3, AppendSet DEF L
<1>5. DOMAIN nodeStack = 1 .. L /\ DOMAIN G = 1 .. L + 1 /\ L \in Nat
  BY <1>2, <1>4 DEF L
<1>6. cfg' = cfg
  BY DEF Grown
<1>7. L # 0 => nodeStack # << >>
  BY <1>5
<1>8. ASSUME NEW i \in 1 .. L + 1
      PROVE  LET f == G[i]  m == objects'[f.obj].name IN
           /\ f.obj \in Objects' /\ Node!ToSet(f.wait) \subseteq Uses(m)
           /\ f.check => i = 1 /\ phase' = "init"
           /\ \A k \in Uses(m) : k \in Before(m) \/ f.check =>
                \/ k \in Node!ToSet(f.wait)
                \/ \E e \in objects'[f.obj].attached : e[1] = k
                \/ f.check /\ errors'
  <2>1. CASE i = L + 1
    <3>1. G[i] = x /\ L \in Nat
      BY <2>1, <1>4, <1>5
    <3>2. x.check => i = 1
      BY <2>1, <1>5 DEF L
    <3> QED
      BY <3>1, <3>2
  <2>2. CASE i # L + 1
    <3>1. i \in 1 .. L /\ i \in DOMAIN nodeStack /\ G[i] = nodeStack[i] /\ L # 0
      BY <2>2, <1>4, <1>5
    <3>2. phase' = phase
      BY <3>1, <1>7
    <3> DEFINE f == nodeStack[i]
    <3>3. /\ f.obj \in Objects' /\ objects'[f.obj].name = Name(f.obj)
          /\ Node!ToSet(f.wait) \subseteq Uses(Name(f.obj))
          /\ f.check => i = 1 /\ phase = "init"
          /\ \A k \in Uses(Name(f.obj)) : k \in Before(Name(f.obj)) \/ f.check =>
               \/ k \in Node!ToSet(f.wait)
               \/ \E e \in objects'[f.obj].attached : e[1] = k
               \/ f.check /\ errors'
      BY <3>1, FrameStays
    <3> HIDE DEF f
    <3>4. G[i] = f
      BY <3>1 DEF f
    <3> DEFINE m == objects'[f.obj].name
    <3>5. m = Name(f.obj)
      BY <3>3
    <3> HIDE DEF m
    <3>6. f.obj \in Objects' /\ Node!ToSet(f.wait) \subseteq Uses(m)
      BY <3>3, <3>5
    <3>7. f.check => i = 1 /\ phase' = "init"
      BY <3>2, <3>3
    <3>8. \A k \in Uses(m) : k \in Before(m) \/ f.check =>
                \/ k \in Node!ToSet(f.wait)
                \/ \E e \in objects'[f.obj].attached : e[1] = k
                \/ f.check /\ errors'
      BY <3>3, <3>5
    <3> QED
      BY <3>4, <3>6, <3>7, <3>8 DEF m
  <2> QED
    BY <2>1, <2>2
<1>9. ASSUME NEW i \in 1 .. L
      PROVE  G[i].wait # << >> /\ Head(G[i].wait) = objects'[G[i+1].obj].name
  <2>1. i \in DOMAIN nodeStack /\ G[i] = nodeStack[i] /\ L # 0
    BY <1>4, <1>5
  <2>2. CASE i = L
    BY <2>1, <2>2, <1>4, <1>7 DEF L
  <2>3. CASE i # L
    <3>1. i \in 1 .. L - 1 /\ i + 1 \in DOMAIN nodeStack /\ G[i + 1] = nodeStack[i + 1]
      BY <2>3, <1>4, <1>5
    <3>2. nodeStack[i].wait # << >> /\ Head(nodeStack[i].wait) = Name(nodeStack[i+1].obj)
      BY <3>1 DEF Stack, L
    <3>3. objects'[nodeStack[i+1].obj].name = Name(nodeStack[i+1].obj)
      BY <3>1, FrameStays
    <3> QED
      BY <2>1, <3>1, <3>2, <3>3
  <2> QED
    BY <2>2, <2>3
<1>10. Stack'
  <2>1. \A i \in DOMAIN nodeStack' : LET f == nodeStack'[i]  m == objects'[f.obj].name IN
           /\ f.obj \in Objects' /\ Node!ToSet(f.wait) \subseteq Uses(m)
           /\ f.check => i = 1 /\ phase' = "init"
           /\ \A k \in Uses(m) : k \in Before(m) \/ f.check =>
                \/ k \in Node!ToSet(f.wait)
                \/ \E e \in objects'[f.obj].attached : e[1] = k
                \/ f.check /\ errors'
    BY <1>5, <1>8 DEF G
  <2>2. \A i \in 1 .. Len(nodeStack') - 1 :
           /\ nodeStack'[i].wait # << >>
           /\ Head(nodeStack'[i].wait) = objects'[nodeStack'[i+1].obj].name
    BY <1>4, <1>5, <1>9 DEF G
  <2> QED
    BY <1>6, <2>1, <2>2, StackIs
<1> QED
  BY <1>4, <1>10 DEF G

-----------------------------------------------------------------------------
(* Modules looking at other modules.                                       *)

LEMMA ObjectTyped ==
  ASSUME NodeMade
  PROVE  /\ objects \in Seq(Object) /\ Len(objects) \in Nat /\ Objects = 1 .. Len(objects)
         /\ \A o \in Objects : /\ o \in Nat /\ objects[o] \in Object /\ Name(o) \in Everything
                               /\ objects[o].attached \subseteq Everything \X Nat
                               /\ objects[o].ready \in BOOLEAN /\ objects[o].inits \in Nat
<1>1. objects \in Seq(Object)
  BY DEF NodeMade, NodeTyped
<1>2. Len(objects) \in Nat /\ Objects = 1 .. Len(objects) /\ \A o \in Objects : o \in Nat /\ objects[o] \in Object
  BY <1>1 DEF Objects
<1> QED
  BY <1>1, <1>2 DEF Object, Name

LEMMA ObjectIs ==
  ASSUME NEW n, Node!Stored(n)
  PROVE  Node!ObjectOf(n) \in InNode /\ Name(Node!ObjectOf(n)) = n
BY DEF Node!Stored, Node!ObjectOf, InNode, Name

LEMMA TopIs ==
  ASSUME NodeMade, nodeStack # << >>, ModuleCount \in Nat
  PROVE  /\ Len(nodeStack) \in Nat /\ Len(nodeStack) >= 1 /\ Len(nodeStack) \in DOMAIN nodeStack
         /\ Node!Top = nodeStack[Len(nodeStack)] /\ Node!Top \in FrameSet
         /\ nodeStack \in Seq(FrameSet) /\ DOMAIN nodeStack = 1 .. Len(nodeStack)
         /\ phase \in {"scan", "init"} /\ Node!Top.obj \in Objects /\ Name(Node!Top.obj) \in Everything
         /\ Node!Top.wait # << >> => /\ Node!Wanted \in Uses(Name(Node!Top.obj))
                                     /\ Node!Wanted \in Everything
<1>1. nodeStack \in Seq(FrameSet)
  BY DEF NodeMade, NodeTyped
<1>2. /\ Len(nodeStack) \in Nat /\ Len(nodeStack) >= 1
      /\ Node!Top = nodeStack[Len(nodeStack)] /\ Node!Top \in FrameSet
  BY <1>1, FrontSeq DEF Node!Top
<1>3. Len(nodeStack) \in DOMAIN nodeStack
  BY <1>1, <1>2
<1>4. Node!Top.obj \in Objects /\ Node!ToSet(Node!Top.wait) \subseteq Uses(Name(Node!Top.obj))
  BY <1>2, <1>3 DEF NodeMade, Stack
<1>5. Name(Node!Top.obj) \in Everything
  BY <1>4, ObjectTyped
<1>6. ASSUME Node!Top.wait # << >>
      PROVE  Node!Wanted \in Uses(Name(Node!Top.obj)) /\ Node!Wanted \in Everything
  <2>1. Node!Top.wait \in Seq(Everything)
    BY <1>2 DEF FrameSet
  <2>2. Node!Wanted \in Node!ToSet(Node!Top.wait) /\ Node!Wanted \in Everything
    BY <1>6, <2>1, TailSet DEF Node!Wanted
  <2> QED
    BY <2>2, <1>4
<1> QED
  BY <1>1, <1>2, <1>3, <1>4, <1>5, <1>6 DEF NodeMade, Stack

LEMMA DictionaryGrown ==
  ASSUME NodeMade, UNCHANGED <<cfg, known, ioDict, modules>>, Objects' = Objects,
         \A o \in Objects : /\ objects'[o].name = objects[o].name
                            /\ \A e \in objects'[o].attached :
                                 \/ e \in objects[o].attached
                                 \/ e[2] \in Objects /\ Name(e[2]) = e[1] /\ e[1] \in Uses(Name(o))
  PROVE  Dictionary' /\ \A m : Node!Stored(m)' = Node!Stored(m)
<1>1. InNode' = InNode /\ InNode \subseteq Objects /\ DOMAIN modules' = DOMAIN modules
      /\ \A i \in DOMAIN modules : modules[i] \in InNode
  BY DEF InNode, NodeMade, NodeTyped, Node!ToSet
<1>2. \A m : Node!Stored(m)' = Node!Stored(m)
  BY <1>1 DEF Node!Stored, InNode
<1>3. \A n : Uses(n)' = Uses(n)
  BY UsesStay
<1>4. \A o \in Objects : Name(o) = objects[o].name
  BY DEF Name
<1>5. \A o \in Objects :
       /\ Name(o) \in Node!Names => Name(o) \in known \ {cfg.broken}
       /\ Name(o) = Node!Auto => Node!Stored(Node!Auto)
       /\ \A e \in objects[o].attached :
            e[2] \in Objects /\ Name(e[2]) = e[1] /\ e[1] \in Uses(Name(o))
  BY DEF NodeMade, Dictionary
<1>6. \A i, j \in DOMAIN modules : objects'[modules[i]].name = objects'[modules[j]].name => i = j
  BY <1>1 DEF NodeMade, Dictionary, Name
<1>7. \A o \in Objects : \A e \in objects'[o].attached :
        e[2] \in Objects /\ objects[e[2]].name = e[1] /\ e[1] \in Uses(objects[o].name)
  BY <1>4, <1>5
<1>8. \A o \in Objects :
       /\ objects'[o].name \in Node!Names => objects'[o].name \in known \ {cfg.broken}
       /\ objects'[o].name = Node!Auto => Node!Stored(Node!Auto)
       /\ \A e \in objects'[o].attached :
            e[2] \in Objects /\ objects'[e[2]].name = e[1] /\ e[1] \in Uses(objects'[o].name)
  BY <1>4, <1>5, <1>7
<1>9. Node!Stored(Node!Auto)' => ioDict'
  BY <1>2 DEF NodeMade, Dictionary
<1> QED
  BY <1>2, <1>3, <1>6, <1>8, <1>9 DEF Dictionary, Name

LEMMA AllMadeLooking ==
  ASSUME NodeMade, phase \in {"scan", "init"}, phase' = phase, UNCHANGED <<cfg, known, todos>>,
         errors => errors', \A m : Node!Stored(m) => Node!Stored(m)'
  PROVE  AllMade'
BY DEF NodeMade, AllMade, Made

LEMMA Unchanged ==
  ASSUME NodeMade, UNCHANGED <<cfg, objects>>, errors => errors'
  PROVE  Grown
BY DEF Grown, Objects

LEMMA BaseFailed ==
  ASSUME NodeMade, phase \in {"scan", "init"}, phase' = "failed", nodeStack' = << >>, errors' \in BOOLEAN,
         UNCHANGED <<cfg, known, ioDict, objects, modules, polled>>
  PROVE  NodeMade'
<1>1. Dictionary'
  BY DictionaryStays DEF NodeMade
<1>2. Stack'
  BY StackEmpty
<1>3. NodeTyped'
  BY DEF NodeMade, NodeTyped, NodePhases, InNode, Objects, Node!Configured
<1>4. AllMade'
  BY DEF AllMade, Made
<1> QED
  BY <1>1, <1>2, <1>3, <1>4 DEF NodeMade

LEMMA BaseAlreadyAttached ==
  ASSUME NodeMade, Node!AlreadyAttached, ModuleCount \in Nat
  PROVE  NodeMade'
<1>1. /\ nodeStack # << >> /\ Node!Top.wait # << >> /\ Node!IsAttached(Node!Top.obj, Node!Wanted)
      /\ nodeStack' = Node!Looked(nodeStack) /\ UNCHANGED <<cfg, phase, todos>>
      /\ UNCHANGED <<known, ioDict, objects, modules, errors, polled>>
  BY DEF Node!AlreadyAttached, Node!Looking, Node!nodeVars
<1>2. Grown
  BY <1>1, Unchanged
<1>3. Dictionary'
  BY <1>1, DictionaryStays DEF NodeMade
<1>4. AllMade'
  BY <1>1, TopIs, AllMadeLooking DEF Node!Stored
<1>5. Stack' /\ nodeStack' \in Seq(FrameSet)
  <2>1. \E e \in objects'[nodeStack[Len(nodeStack)].obj].attached : e[1] = Head(nodeStack[Len(nodeStack)].wait)
    BY <1>1, TopIs DEF Node!IsAttached, Node!Wanted
  <2> QED
    BY <2>1, <1>1, <1>2, TopIs, StackLooked DEF NodeMade
<1>6. NodeTyped'
  BY <1>1, <1>5 DEF NodeMade, NodeTyped, InNode, Objects, Node!Configured
<1> QED
  BY <1>3, <1>4, <1>5, <1>6 DEF NodeMade

\* What attaching the ready module m, under its name n, to the object o does.
Attaches(o, n, m) ==
  /\ o = Node!Top.obj /\ n = Node!Wanted
  /\ nodeStack # << >> /\ Node!Top.wait # << >> /\ ~Node!IsAttached(o, n)
  /\ o \in Objects /\ n \in Uses(Name(o)) /\ m \in Objects /\ Name(m) = n /\ objects[m].ready
  /\ UNCHANGED <<cfg, phase, todos, known, ioDict, modules, errors, polled>>
  /\ nodeStack' = Node!Looked(nodeStack)
  /\ Objects' = Objects /\ objects' \in Seq(Object)
  /\ \A p \in Objects :
       /\ objects'[p].name = objects[p].name
       /\ objects'[p].ready = objects[p].ready
       /\ objects'[p].inits = objects[p].inits
       /\ objects'[p].attached = IF p = o THEN objects[p].attached \cup {<<n, m>>}
                                 ELSE objects[p].attached

LEMMA AttachReadyIs ==
  ASSUME NodeMade, Node!AttachReady, ModuleCount \in Nat
  PROVE  \E o, n, m : Attaches(o, n, m)
<1>10. PICK o : o = Node!Top.obj
  OBVIOUS
<1>11. PICK n : n = Node!Wanted
  OBVIOUS
<1>12. PICK m : m = Node!ObjectOf(n)
  OBVIOUS
<1>1. /\ nodeStack # << >> /\ Node!Top.wait # << >> /\ Node!Stored(n)
      /\ objects' = [objects EXCEPT ![o].attached = @ \cup {<<n, m>>}]
      /\ nodeStack' = Node!Looked(nodeStack)
      /\ UNCHANGED <<cfg, phase, todos, known, ioDict, modules, errors, polled>>
      /\ objects[m].ready /\ ~Node!IsAttached(o, n)
  BY <1>10, <1>11, <1>12 DEF Node!AttachReady, Node!Looking, Node!Attach
<1>2. /\ o \in Objects /\ n \in Uses(Name(o)) /\ n \in Everything /\ m \in InNode /\ Name(m) = n
      /\ m \in Objects
  BY <1>1, <1>10, <1>11, <1>12, TopIs, ObjectIs DEF NodeMade, NodeTyped
<1>3. /\ Objects' = Objects /\ objects' \in Seq(Object)
      /\ \A p \in Objects :
           /\ objects'[p].name = objects[p].name
           /\ objects'[p].ready = objects[p].ready
           /\ objects'[p].inits = objects[p].inits
           /\ objects'[p].attached = IF p = o THEN objects[p].attached \cup {<<n, m>>}
                                     ELSE objects[p].attached
  <2>1. /\ objects \in Seq(Object) /\ Objects = 1 .. Len(objects) /\ o \in 1 .. Len(objects)
        /\ objects[o] \in Object /\ objects[o].attached \subseteq Everything \X Nat /\ m \in Nat
    BY <1>2, ObjectTyped
  <2> DEFINE x == [objects[o] EXCEPT !.attached = objects[o].attached \cup {<<n, m>>}]
  <2>2. /\ x \in Object /\ x.name = objects[o].name /\ x.ready = objects[o].ready
        /\ x.inits = objects[o].inits /\ x.attached = objects[o].attached \cup {<<n, m>>}
    BY <2>1, <1>2 DEF Object
  <2>3. objects' = [objects EXCEPT ![o] = x]
    BY <1>1, <1>2 DEF Objects
  <2> HIDE DEF x
  <2>4. objects' \in Seq(Object)
    BY <2>1, <2>2, <2>3, ExceptSeq
  <2>5. Objects' = Objects /\ objects'[o] = x /\ \A p \in Objects : p # o => objects'[p] = objects[p]
    BY <1>2, <2>3 DEF Objects
  <2> QED
    BY <2>2, <2>4, <2>5
<1>4. Attaches(o, n, m)
  BY <1>1, <1>2, <1>3, <1>10, <1>11 DEF Attaches
<1> QED
  BY <1>4

LEMMA BaseAttachReady ==
  ASSUME NodeMade, Node!AttachReady, ModuleCount \in Nat
  PROVE  NodeMade' /\ Grown
<1>10. PICK o, n, m : Attaches(o, n, m)
  BY AttachReadyIs
<1>1. /\ nodeStack # << >> /\ Node!Top.wait # << >>
      /\ nodeStack' = Node!Looked(nodeStack) /\ UNCHANGED <<cfg, phase, todos, known, ioDict, modules, errors, polled>>
  BY <1>10 DEF Attaches
<1>2. o = Node!Top.obj /\ n = Node!Wanted /\ o \in Objects /\ n \in Uses(Name(o)) /\ m \in Objects /\ Name(m) = n
  BY <1>10 DEF Attaches
<1>3. /\ Objects' = Objects /\ objects' \in Seq(Object)
      /\ \A p \in Objects : objects'[p].name = objects[p].name
                            /\ objects'[p].attached = IF p = o THEN objects[p].attached \cup {<<n, m>>} ELSE objects[p].attached
  BY <1>10 DEF Attaches
<1>4. Grown
  BY <1>1, <1>3 DEF Grown
<1>5. Dictionary' /\ \A x : Node!Stored(x)' = Node!Stored(x)
  <2>1. \A p \in Objects : /\ objects'[p].name = objects[p].name
                            /\ \A e \in objects'[p].attached :
                                 \/ e \in objects[p].attached
                                 \/ e[2] \in Objects /\ Name(e[2]) = e[1] /\ e[1] \in Uses(Name(p))
    <3>1. LET e == <<n, m>> IN e[2] \in Objects /\ Name(e[2]) = e[1] /\ e[1] \in Uses(Name(o))
      BY <1>2
    <3>2. ASSUME NEW p \in Objects, NEW e \in objects'[p].attached
          PROVE  \/ e \in objects[p].attached
                 \/ e[2] \in Objects /\ Name(e[2]) = e[1] /\ e[1] \in Uses(Name(p))
      <4>1. e \in objects[p].attached \/ (p = o /\ e = <<n, m>>)
        BY <1>3
      <4> QED
        BY <3>1, <4>1
    <3> QED
      BY <3>2, <1>3
  <2> QED
    BY <2>1, <1>1, <1>3, DictionaryGrown
<1>6. AllMade'
  BY <1>1, <1>5, TopIs, AllMadeLooking
<1>7. Stack' /\ nodeStack' \in Seq(FrameSet)
  <2>1. <<n, m>> \in objects'[o].attached
    BY <1>2, <1>3
  <2>2. \E e \in objects'[nodeStack[Len(nodeStack)].obj].attached : e[1] = Head(nodeStack[Len(nodeStack)].wait)
    BY <2>1, <1>1, <1>2, TopIs DEF Node!Wanted
  <2> QED
    BY <2>2, <1>1, <1>4, TopIs, StackLooked DEF NodeMade
<1>8. NodeTyped'
  BY <1>1, <1>3, <1>7 DEF NodeMade, NodeTyped, InNode, Node!Configured
<1> QED
  BY <1>4, <1>5, <1>6, <1>7, <1>8 DEF NodeMade

LEMMA BaseNoSuchModule ==
  ASSUME NodeMade, Node!NoSuchModule, ModuleCount \in Nat
  PROVE  NodeMade'
<1>1. /\ nodeStack # << >> /\ Node!Top.wait # << >> /\ errors' = TRUE
      /\ UNCHANGED <<cfg, todos, known, ioDict, objects, modules, polled>>
  BY DEF Node!NoSuchModule, Node!Looking
<1>2. CASE ~Head(nodeStack).check
  <2>1. nodeStack' = << >> /\ phase' = "failed"
    BY <1>2 DEF Node!NoSuchModule
  <2> QED
    BY <2>1, <1>1, TopIs, BaseFailed
<1>3. CASE Head(nodeStack).check
  <2>1. nodeStack' = Node!Looked(<<Head(nodeStack)>>) /\ phase' = phase
    BY <1>3 DEF Node!NoSuchModule
  <2>2. Grown
    BY <1>1, Unchanged
  <2>3. Dictionary'
    BY <1>1, DictionaryStays DEF NodeMade
  <2>4. AllMade'
    BY <1>1, <2>1, TopIs, AllMadeLooking DEF Node!Stored
  <2> DEFINE F == <<Head(nodeStack)>>
  <2>5. /\ F \in Seq(FrameSet) /\ F # << >> /\ Len(F) <= Len(nodeStack) /\ Len(F) = 1 /\ F[1] = nodeStack[1]
        /\ \A i \in 1 .. Len(F) : F[i] = nodeStack[i]
    BY <1>1, TopIs
  <2>6. nodeStack[1].wait # << >>
    <3>1. CASE Len(nodeStack) = 1
      BY <3>1, <1>1, TopIs
    <3>2. CASE Len(nodeStack) # 1
      <4>1. 1 \in 1 .. Len(nodeStack) - 1
        BY <3>2, <1>1, TopIs
      <4> QED
        BY <4>1 DEF NodeMade, Stack
    <3> QED
      BY <3>1, <3>2
  <2>7. F[Len(F)].wait # << >> /\ F[Len(F)].check
    BY <2>5, <2>6, <1>3
  <2>8. nodeStack' = Node!Looked(F)
    BY <2>1
  <2> HIDE DEF F
  <2>9. Stack' /\ nodeStack' \in Seq(FrameSet)
    BY <2>1, <2>2, <2>5, <2>7, <2>8, <1>1, TopIs, StackLooked DEF NodeMade
  <2>10. NodeTyped'
    BY <1>1, <2>1, <2>9 DEF NodeMade, NodeTyped, InNode, Objects, Node!Configured
  <2> QED
    BY <2>3, <2>4, <2>9, <2>10 DEF NodeMade
<1> QED
  BY <1>2, <1>3

LEMMA BaseRecursionError ==
  ASSUME NodeMade, Node!RecursionError, ModuleCount \in Nat
  PROVE  NodeMade'
<1>1. /\ nodeStack # << >> /\ nodeStack' = << >> /\ phase' = "failed"
      /\ UNCHANGED <<cfg, known, ioDict, objects, modules, errors, polled>>
  BY DEF Node!RecursionError, Node!Looking, Node!nodeVars
<1>2. errors' \in BOOLEAN
  BY <1>1 DEF NodeMade, NodeTyped
<1> QED
  BY <1>1, <1>2, TopIs, BaseFailed

LEMMA BaseChecked ==
  ASSUME NodeMade, Node!Checked, ModuleCount \in Nat
  PROVE  NodeMade'
<1>1. /\ nodeStack # << >> /\ nodeStack' = << >> /\ UNCHANGED <<phase, todos>>
      /\ UNCHANGED <<cfg, known, ioDict, objects, modules, errors, polled>>
  BY DEF Node!Checked, Node!nodeVars
<1>2. Dictionary'
  BY <1>1, DictionaryStays DEF NodeMade
<1>3. AllMade'
  BY <1>1, TopIs, AllMadeLooking DEF Node!Stored
<1>4. Stack'
  BY <1>1, StackEmpty
<1>5. NodeTyped'
  BY <1>1, EmptySet DEF NodeMade, NodeTyped, InNode, Objects, Node!Configured
<1> QED
  BY <1>2, <1>3, <1>4, <1>5 DEF NodeMade

LEMMA BaseStartModules ==
  ASSUME NodeMade, Node!StartModules, ModuleCount \in Nat
  PROVE  NodeMade'
<1>1. /\ phase = "init" /\ nodeStack = << >> /\ nodeStack' = << >> /\ phase' \in {"failed", "run"}
      /\ UNCHANGED <<cfg, known, ioDict, objects, modules, errors, polled>>
  BY DEF Node!StartModules, Node!nodeVars
<1>2. Dictionary'
  BY <1>1, DictionaryStays DEF NodeMade
<1>3. AllMade'
  BY <1>1 DEF NodeMade, AllMade, Made, Node!Stored
<1>4. Stack'
  BY <1>1, StackEmpty
<1>5. NodeTyped'
  BY <1>1, EmptySet DEF NodeMade, NodeTyped, NodePhases, InNode, Objects, Node!Configured
<1> QED
  BY <1>2, <1>3, <1>4, <1>5 DEF NodeMade

LEMMA BaseAllCreated ==
  ASSUME NodeMade, Node!AllCreated, ModuleCount \in Nat
  PROVE  NodeMade'
<1>1. /\ phase = "create" /\ todos = << >> /\ phase' = "init" /\ todos' = modules
      /\ UNCHANGED <<cfg, known, ioDict, objects, modules, errors, polled, nodeStack>>
  BY DEF Node!AllCreated, Node!nodeVars
<1>2. Dictionary'
  BY <1>1, DictionaryStays DEF NodeMade
<1>3. AllMade'
  BY <1>1, EmptySet DEF NodeMade, AllMade, Made, Node!Stored
<1>4. Stack'
  BY <1>1, NotLooking, StackEmpty
<1>5. NodeTyped'
  BY <1>1, EmptySet DEF NodeMade, NodeTyped, NodePhases, InNode, Objects, Node!Configured
<1> QED
  BY <1>2, <1>3, <1>4, <1>5 DEF NodeMade

LEMMA BaseScanModules ==
  ASSUME NodeMade, Node!ScanModules, ModuleCount \in Nat
  PROVE  NodeMade'
<1>1. /\ phase = "scan" /\ phase' = "create" /\ todos' = Append(todos, ModuleCount)
      /\ UNCHANGED <<cfg, known, ioDict, objects, modules, errors, polled, nodeStack>> /\ nodeStack = << >>
  BY DEF Node!ScanModules, Node!nodeVars
<1>2. Dictionary'
  BY <1>1, DictionaryStays DEF NodeMade
<1>3. ModuleCount \in Node!Names
  BY Configuration DEF NodeMade, NodeTyped, Node!Names
<1>4. /\ todos \in Seq(Node!Names) /\ todos' \in Seq(Node!Names)
      /\ Node!ToSet(todos') = Node!ToSet(todos) \cup {ModuleCount}
  BY <1>1, <1>3, AppendSet DEF NodeMade, NodeTyped
<1>5. AllMade'
  BY <1>1, <1>4 DEF NodeMade, AllMade, Made, Node!Stored
<1>6. Stack'
  BY <1>1, StackEmpty
<1>7. NodeTyped'
  BY <1>1, <1>4 DEF NodeMade, NodeTyped, NodePhases, InNode, Objects, Node!Configured
<1> QED
  BY <1>2, <1>5, <1>6, <1>7 DEF NodeMade

LEMMA FirstFrame ==
  ASSUME NodeMade, ModuleCount \in Nat, NEW n \in Everything, NEW o \in Nat
  PROVE  LET x == Node!Initialising(o, n) IN
         /\ x \in FrameSet /\ x.obj = o /\ x.check = FALSE
         /\ x.wait = Node!InitReads(n) /\ Node!ToSet(x.wait) = Before(n)
         /\ Node!ToSet(x.wait) \subseteq Uses(n)
BY Reads DEF Node!Initialising, Node!Frame, FrameSet, NodeMade, NodeTyped

LEMMA Alone ==
  ASSUME NEW S, NEW x \in S
  PROVE  <<x>> = Append(<< >>, x) /\ <<x>> \in Seq(S)
OBVIOUS

LEMMA BaseCreate ==
  ASSUME NodeMade, Node!Create, ModuleCount \in Nat
  PROVE  NodeMade' /\ Grown
<1>14. PICK n : n = Head(todos)
  OBVIOUS
<1>15. PICK k : k = Node!Constructed(n)
  OBVIOUS
<1>1. /\ phase = "create" /\ todos # << >> /\ todos \in Seq(Node!Names) /\ ~Node!Stored(n) /\ n # cfg.broken
      /\ Node!Construct(n) /\ modules' = modules \o Node!AddedIo(n) \o <<k>>
      /\ known' = known \cup {n} /\ todos' = Tail(todos) /\ UNCHANGED <<cfg, errors, polled>>
      /\ IF n = cfg.pinata
         THEN phase' = "scan" /\ nodeStack' = <<Node!Initialising(k, n)>>
         ELSE UNCHANGED <<phase, nodeStack>>
  BY <1>14, <1>15 DEF NodeMade, NodeTyped, Node!Create, Node!Creating
<1>2. n \in Node!Names /\ todos' \in Seq(Node!Names) /\ Node!ToSet(todos) = {n} \cup Node!ToSet(todos')
  BY <1>1, <1>14, TailSet
<1>3. nodeStack = << >>
  BY <1>1, NotLooking
<1>4. n \in known' \ {cfg.broken} /\ known \subseteq known'
  BY <1>1
<1>5. modules' = modules \o Node!AddedIo(n) \o (IF TRUE THEN <<Node!Constructed(n)>> ELSE << >>)
  BY <1>1, <1>15
<1>6. /\ Dictionary'
      /\ modules' \in Seq(Nat) /\ InNode' \subseteq Objects'
      /\ objects' \in Seq(Object)
      /\ Objects \subseteq Objects' /\ \A o \in Objects : objects'[o] = objects[o]
      /\ k \in Objects' /\ objects'[k] = Node!NewObject(n)
      /\ \A m : Node!Stored(m) => Node!Stored(m)'
      /\ \A m \in Node!Names : Node!Stored(m)' => Node!Stored(m) \/ m = n
      /\ Node!Stored(n)'
  <2> DEFINE here == TRUE
  <2>1. here \in BOOLEAN /\ modules' = modules \o Node!AddedIo(n) \o (IF here THEN <<Node!Constructed(n)>> ELSE << >>)
    BY <1>5
  <2> HIDE DEF here
  <2>2. /\ Dictionary'
        /\ modules' \in Seq(Nat) /\ InNode' \subseteq Objects'
        /\ objects' \in Seq(Object)
        /\ Objects \subseteq Objects' /\ \A o \in Objects : objects'[o] = objects[o]
        /\ Node!Constructed(n) \in Objects' /\ objects'[Node!Constructed(n)] = Node!NewObject(n)
        /\ \A m : Node!Stored(m) => Node!Stored(m)'
        /\ \A m \in Node!Names : Node!Stored(m)' => Node!Stored(m) \/ (here /\ m = n)
        /\ here => Node!Stored(n)'
    BY <2>1, <1>1, <1>2, <1>4, Constructing
  <2> QED
    BY <2>2, <1>15 DEF here
<1>7. Grown
  BY <1>1, <1>6 DEF Grown
<1>8. phase' \in {"create", "scan"}
  BY <1>1
<1>9. k \in Nat /\ objects'[k].name = n /\ n \in Everything
  BY <1>6, <1>2 DEF Objects, Node!NewObject, Everything
<1>10. Stack' /\ nodeStack' \in Seq(FrameSet)
  <2>1. CASE n # cfg.pinata
    BY <2>1, <1>1, <1>3, StackEmpty, EmptySet
  <2>2. CASE n = cfg.pinata
    <3> DEFINE x == Node!Initialising(k, n)
    <3>1. /\ x \in FrameSet /\ x.obj = k /\ x.check = FALSE
          /\ Node!ToSet(x.wait) = Before(n) /\ Node!ToSet(x.wait) \subseteq Uses(n)
      BY <1>9, FirstFrame
    <3>2. nodeStack' = <<x>> /\ phase' = "scan"
      BY <2>2, <1>1
    <3> HIDE DEF x
    <3>3. nodeStack' = Append(nodeStack, x)
      BY <3>1, <3>2, <1>3, Alone
    <3> QED
      BY <1>3, <1>6, <1>7, <1>9, <3>1, <3>2, <3>3, StackPush DEF NodeMade
  <2> QED
    BY <2>1, <2>2
<1>11. NodeTyped'
  <2>1. ioDict' \in BOOLEAN
    BY <1>1 DEF Node!Construct, NodeMade, NodeTyped
  <2> QED
    BY <1>1, <1>2, <1>4, <1>6, <1>8, <1>10, <2>1 DEF NodeMade, NodeTyped, NodePhases, Node!Configured
<1>12. AllMade'
  <2>1. \A m \in known' \ {cfg.broken} : Node!Stored(m)' \/ m \in Node!ToSet(todos')
    <3> SUFFICES ASSUME NEW m \in known' \ {cfg.broken} PROVE Node!Stored(m)' \/ m \in Node!ToSet(todos')
      BY <1>1
    <3>1. CASE m = n
      BY <3>1, <1>6
    <3>2. CASE m # n
      <4>1. m \in known \ {cfg.broken}
        BY <3>2, <1>1
      <4>2. Node!Stored(m) \/ m \in Node!ToSet(todos)
        BY <4>1, <1>1 DEF NodeMade, AllMade
      <4> QED
        BY <4>2, <3>2, <1>2, <1>6
    <3> QED
      BY <3>1, <3>2
  <2>2. cfg.broken \in known' => cfg.broken \in Node!ToSet(todos') \/ errors'
    BY <1>1, <1>2 DEF NodeMade, AllMade
  <2>3. ASSUME phase' = "create"
        PROVE  \/ cfg.pinata = Node!None \/ errors'
               \/ cfg.pinata \in Node!ToSet(todos') /\ ~Node!Stored(cfg.pinata)'
               \/ ModuleCount \in Node!ToSet(todos') \cup known'
    <3>1. n # cfg.pinata
      BY <2>3, <1>1
    <3>2. ASSUME cfg.pinata \in Node!ToSet(todos)
          PROVE  cfg.pinata \in Node!Names
      BY <1>1, <3>2 DEF Node!ToSet
    <3> QED
      BY <3>1, <3>2, <1>1, <1>2, <1>6 DEF NodeMade, AllMade
  <2> QED
    BY <1>1, <1>8, <2>1, <2>2, <2>3 DEF AllMade, Made
<1> QED
  BY <1>6, <1>7, <1>10, <1>11, <1>12 DEF NodeMade

LEMMA BaseInitialise ==
  ASSUME NodeMade, Node!Initialise, ModuleCount \in Nat
  PROVE  NodeMade'
<1> DEFINE o == Head(todos)  n == objects[Head(todos)].name
<1>1. /\ phase = "init" /\ phase' = "init" /\ nodeStack = << >> /\ todos # << >>
      /\ UNCHANGED <<cfg, known, ioDict, objects, modules, errors, polled>>
      /\ IF objects[o].ready
         THEN /\ nodeStack' = <<[Node!Frame(o, Node!AllProperties(n)) EXCEPT !.check = TRUE]>>
              /\ todos' = Tail(todos)
         ELSE nodeStack' = <<Node!Initialising(o, n)>> /\ UNCHANGED todos
  BY DEF Node!Initialise, Node!nodeVars
<1>2. /\ todos \in Seq(Nat) /\ Tail(todos) \in Seq(Nat) /\ o \in InNode
      /\ Node!ToSet(Tail(todos)) \subseteq InNode /\ Node!ToSet(todos) \subseteq InNode
  <2>1. todos \in Seq(Nat) /\ Node!ToSet(todos) \subseteq InNode
    BY <1>1 DEF NodeMade, NodeTyped
  <2> QED
    BY <1>1, <2>1, TailSet
<1>3. o \in Objects /\ o \in Nat /\ n = Name(o) /\ n \in Everything
  BY <1>2, ObjectTyped DEF NodeMade, NodeTyped, Name
<1> HIDE DEF o, n
<1>4. Grown
  BY <1>1, Unchanged
<1>5. Dictionary'
  BY <1>1, DictionaryStays DEF NodeMade
<1>6. AllMade'
  BY <1>1 DEF NodeMade, AllMade, Made, Node!Stored
<1>7. todos' \in Seq(Nat) /\ Node!ToSet(todos') \subseteq InNode
  BY <1>1, <1>2
<1>8. o \in Objects' /\ objects'[o].name = n
  BY <1>1, <1>3 DEF Objects, Name
<1>9. Stack' /\ nodeStack' \in Seq(FrameSet)
  <2>1. CASE objects[o].ready
    <3> DEFINE x == [Node!Frame(o, Node!AllProperties(n)) EXCEPT !.check = TRUE]
    <3>1. /\ x \in FrameSet /\ x.obj = o /\ x.check = TRUE
          /\ Node!ToSet(x.wait) = Uses(n)
      BY <1>3, Reads DEF Node!Frame, FrameSet, NodeMade, NodeTyped
    <3>2. nodeStack' = <<x>>
      BY <2>1, <1>1
    <3> HIDE DEF x
    <3>3. nodeStack' = Append(nodeStack, x)
      BY <3>1, <3>2, <1>1, Alone
    <3> QED
      BY <1>1, <1>3, <1>4, <1>8, <3>1, <3>3, StackPush DEF NodeMade
  <2>2. CASE ~objects[o].ready
    <3> DEFINE x == Node!Initialising(o, n)
    <3>1. /\ x \in FrameSet /\ x.obj = o /\ x.check = FALSE
          /\ Node!ToSet(x.wait) = Before(n) /\ Node!ToSet(x.wait) \subseteq Uses(n)
      BY <1>3, FirstFrame
    <3>2. nodeStack' = <<x>>
      BY <2>2, <1>1
    <3> HIDE DEF x
    <3>3. nodeStack' = Append(nodeStack, x)
      BY <3>1, <3>2, <1>1, Alone
    <3> QED
      BY <1>1, <1>3, <1>4, <1>8, <3>1, <3>3, StackPush DEF NodeMade
  <2> QED
    BY <2>1, <2>2
<1>10. NodeTyped'
  BY <1>1, <1>7, <1>9 DEF NodeMade, NodeTyped, NodePhases, InNode, Objects, Node!Configured
<1> QED
  BY <1>5, <1>6, <1>9, <1>10 DEF NodeMade

LEMMA BaseGetModule ==
  ASSUME NodeMade, Node!GetModule, ModuleCount \in Nat
  PROVE  NodeMade' /\ Grown
<1> DEFINE n == Node!Wanted
<1>1. /\ nodeStack # << >> /\ Node!Top.wait # << >> /\ ~Node!Missing(n)
      /\ UNCHANGED <<cfg, known, phase, todos, errors, polled>>
      /\ IF Node!Stored(n)
         THEN /\ nodeStack' = Append(nodeStack, Node!Initialising(Node!ObjectOf(n), n))
              /\ UNCHANGED <<objects, ioDict, modules>>
         ELSE /\ nodeStack' = Append(nodeStack, Node!Initialising(Node!Constructed(n), n))
              /\ Node!Construct(n)
              /\ modules' = modules \o Node!AddedIo(n)
  BY DEF Node!GetModule, Node!Looking
<1>2. /\ n \in Everything /\ phase \in {"scan", "init"} /\ Node!Top = nodeStack[Len(nodeStack)]
      /\ n = Head(nodeStack[Len(nodeStack)].wait)
  BY <1>1, TopIs DEF Node!Wanted
<1> HIDE DEF n
<1>3. CASE Node!Stored(n)
  <2> DEFINE o == Node!ObjectOf(n)
  <2>1. UNCHANGED <<objects, ioDict, modules>> /\ nodeStack' = Append(nodeStack, Node!Initialising(o, n))
    BY <1>1, <1>3
  <2>2. o \in Objects /\ o \in Nat /\ Name(o) = n
    BY <1>3, ObjectIs, ObjectTyped DEF NodeMade, NodeTyped
  <2> HIDE DEF o
  <2>3. Grown
    BY <1>1, <2>1, Unchanged
  <2>4. Dictionary'
    BY <1>1, <2>1, DictionaryStays DEF NodeMade
  <2>5. AllMade'
    BY <1>1, <1>2, <2>1, AllMadeLooking DEF Node!Stored
  <2>6. o \in Objects' /\ objects'[o].name = n
    BY <2>1, <2>2 DEF Objects, Name
  <2>7. Stack' /\ nodeStack' \in Seq(FrameSet)
    <3> DEFINE x == Node!Initialising(o, n)
    <3>1. /\ x \in FrameSet /\ x.obj = o /\ x.check = FALSE
          /\ Node!ToSet(x.wait) = Before(n) /\ Node!ToSet(x.wait) \subseteq Uses(n)
      BY <1>2, <2>2, FirstFrame
    <3>2. nodeStack' = Append(nodeStack, x)
      BY <2>1
    <3> HIDE DEF x
    <3> QED
      BY <1>1, <1>2, <2>3, <2>6, <3>1, <3>2, StackPush DEF NodeMade
  <2>8. NodeTyped'
    BY <1>1, <2>1, <2>7 DEF NodeMade, NodeTyped, InNode, Objects, Node!Configured
  <2> QED
    BY <2>3, <2>4, <2>5, <2>7, <2>8 DEF NodeMade
<1>4. CASE ~Node!Stored(n)
  <2> DEFINE k == Node!Constructed(n)
  <2>1. /\ nodeStack' = Append(nodeStack, Node!Initialising(k, n)) /\ Node!Construct(n)
        /\ modules' = modules \o Node!AddedIo(n) /\ n \in known' \ {cfg.broken} /\ n \in Node!Names
    <3>1. n \in known \ {cfg.broken}
      BY <1>1, <1>4 DEF Node!Missing
    <3> QED
      BY <1>1, <1>4, <3>1 DEF NodeMade, NodeTyped
  <2> HIDE DEF k
  <2> DEFINE here == FALSE
  <2>2. here \in BOOLEAN /\ modules' = modules \o Node!AddedIo(n) \o (IF here THEN <<Node!Constructed(n)>> ELSE << >>)
    <3>1. modules \in Seq(Nat)
      BY DEF NodeMade, NodeTyped
    <3>2. Node!AddedIo(n) \in Seq(Nat)
      <4>1. Len(objects) + 1 \in Nat
        BY ObjectTyped
      <4> QED
        BY <4>1, EmptySet, Alone DEF Node!AddedIo
    <3>3. modules \o Node!AddedIo(n) \in Seq(Nat)
      BY <3>1, <3>2, ConcatProperties
    <3>4. modules \o Node!AddedIo(n) \o << >> = modules \o Node!AddedIo(n)
      BY <3>3, ConcatEmptySeq
    <3> QED
      BY <2>1, <3>4
  <2>3. ~here
    OBVIOUS
  <2> HIDE DEF here
  <2>4. /\ Dictionary'
        /\ modules' \in Seq(Nat) /\ InNode' \subseteq Objects'
        /\ objects' \in Seq(Object) /\ InNode \subseteq InNode'
        /\ Objects \subseteq Objects' /\ \A o \in Objects : objects'[o] = objects[o]
        /\ Node!Constructed(n) \in Objects' /\ objects'[Node!Constructed(n)] = Node!NewObject(n)
        /\ \A m : Node!Stored(m) => Node!Stored(m)'
    BY <2>1, <2>2, <1>1, <1>4, Constructing
  <2>5. Grown
    BY <1>1, <2>4 DEF Grown
  <2>6. AllMade'
    BY <1>1, <1>2, <2>4, AllMadeLooking
  <2>7. k \in Objects' /\ k \in Nat /\ objects'[k].name = n
    BY <2>4 DEF k, Objects, Node!NewObject
  <2>8. Stack' /\ nodeStack' \in Seq(FrameSet)
    <3> DEFINE x == Node!Initialising(k, n)
    <3>1. /\ x \in FrameSet /\ x.obj = k /\ x.check = FALSE
          /\ Node!ToSet(x.wait) = Before(n) /\ Node!ToSet(x.wait) \subseteq Uses(n)
      BY <1>2, <2>7, FirstFrame
    <3>2. nodeStack' = Append(nodeStack, x)
      BY <2>1
    <3> HIDE DEF x
    <3> QED
      BY <1>1, <1>2, <2>5, <2>7, <3>1, <3>2, StackPush DEF NodeMade
  <2>9. NodeTyped'
    <3>1. ioDict' \in BOOLEAN
      BY <2>1 DEF Node!Construct, NodeMade, NodeTyped
    <3>2. phase = "init" => Node!ToSet(todos) \subseteq InNode'
      BY <2>4 DEF NodeMade, NodeTyped
    <3> QED
      BY <1>1, <2>1, <2>4, <2>8, <3>1, <3>2 DEF NodeMade, NodeTyped, Node!Configured
  <2> QED
    BY <2>4, <2>5, <2>6, <2>8, <2>9 DEF NodeMade
<1> QED
  BY <1>3, <1>4

LEMMA ExceptTyped ==
  ASSUME NEW obs \in Seq(Object), NEW o \in DOMAIN obs, NEW x \in Object
  PROVE  /\ [obs EXCEPT ![o] = x] \in Seq(Object) /\ DOMAIN [obs EXCEPT ![o] = x] = DOMAIN obs
         /\ [obs EXCEPT ![o] = x][o] = x
         /\ \A p \in DOMAIN obs : p # o => [obs EXCEPT ![o] = x][p] = obs[p]
<1>1. o \in 1 .. Len(obs)
  OBVIOUS
<1>2. [obs EXCEPT ![o] = x] \in Seq(Object)
  BY <1>1, ExceptSeq
<1> QED
  BY <1>2

\* What initialising the object o does, with L frames on the stack.
Initialises(o, L) ==
  /\ o = Node!Top.obj /\ L = Len(nodeStack)
  /\ nodeStack # << >> /\ Node!Top.wait = << >> /\ ~Node!Top.check
  /\ UNCHANGED <<cfg, known, ioDict, modules, errors, phase, todos>>
  /\ objects' \in Seq(Object) /\ Objects' = Objects
  /\ polled' = polled \cup {<<Node!Poller(o), o>>} /\ polled' \subseteq Nat \X Nat
  /\ \A p \in Objects :
       /\ objects'[p].name = objects[p].name
       /\ objects'[p].ready = IF p = o THEN TRUE ELSE objects[p].ready
       /\ objects'[p].inits = IF p = o THEN objects[p].inits + 1 ELSE objects[p].inits
       /\ objects'[p].attached = IF L > 1 /\ p = nodeStack[L - 1].obj
                                 THEN objects[p].attached \cup {<<Name(o), o>>}
                                 ELSE objects[p].attached
  /\ IF L = 1 THEN nodeStack' = << >> ELSE nodeStack' = Node!Looked(Node!Front(nodeStack))
  /\ L > 1 => nodeStack[L - 1].obj \in Objects

LEMMA InitialisedIs ==
  ASSUME NodeMade, Node!Initialised, ModuleCount \in Nat
  PROVE  \E o, L : Initialises(o, L)
<1>18. PICK o : o = Node!Top.obj
  OBVIOUS
<1>19. PICK L : L = Len(nodeStack)
  OBVIOUS
<1> SUFFICES Initialises(o, L)
  OBVIOUS
<1> USE <1>18, <1>19
<1>1. nodeStack # << >> /\ Node!Top.wait = << >> /\ ~Node!Top.check
      /\ UNCHANGED <<cfg, known, ioDict, modules, errors, phase, todos>>
      /\ polled' = polled \cup {<<Node!Poller(o), o>>}
  BY DEF Node!Initialised
<1>2. /\ o \in Objects /\ L \in Nat /\ L >= 1 /\ nodeStack \in Seq(FrameSet) /\ Node!Below = Node!Front(nodeStack)
      /\ Len(Node!Below) = L - 1 /\ \A i \in 1 .. L - 1 : Node!Below[i] = nodeStack[i] /\ Node!Below \in Seq(FrameSet)
  BY <1>1, TopIs, FrontSeq DEF Node!Below
<1>3. /\ objects \in Seq(Object) /\ objects[o] \in Object /\ Objects = DOMAIN objects
      /\ \A p \in Objects : p \in Nat /\ objects[p] \in Object
  BY <1>2, ObjectTyped DEF Objects
<1> DEFINE r == [objects[o] EXCEPT !.ready = TRUE, !.inits = objects[o].inits + 1]
           ready == [objects EXCEPT ![o].ready = TRUE, ![o].inits = @ + 1]
<1>4. /\ r \in Object /\ r.name = objects[o].name /\ r.ready = TRUE /\ r.inits = objects[o].inits + 1
      /\ r.attached = objects[o].attached
  <2>1. objects[o].inits + 1 \in Nat
    BY <1>2, ObjectTyped
  <2> DEFINE x == objects[o]
  <2>2. x \in Object /\ x.inits + 1 \in Nat
    BY <1>3, <2>1
  <2>3. r = [x EXCEPT !.ready = TRUE, !.inits = x.inits + 1]
    OBVIOUS
  <2> HIDE DEF r, x, ready
  <2>4. /\ [x EXCEPT !.ready = TRUE, !.inits = x.inits + 1] \in Object
        /\ [x EXCEPT !.ready = TRUE, !.inits = x.inits + 1].name = x.name
        /\ [x EXCEPT !.ready = TRUE, !.inits = x.inits + 1].ready = TRUE
        /\ [x EXCEPT !.ready = TRUE, !.inits = x.inits + 1].inits = x.inits + 1
        /\ [x EXCEPT !.ready = TRUE, !.inits = x.inits + 1].attached = x.attached
    BY <2>2 DEF Object
  <2> QED
    BY <2>3, <2>4 DEF x
<1>5. ready = [objects EXCEPT ![o] = r]
  BY <1>2, <1>3 DEF Objects
<1>17. IF Node!Below = << >>
       THEN objects' = ready /\ nodeStack' = << >>
       ELSE /\ objects' = [ready EXCEPT ![Node!Last(Node!Below).obj].attached = @ \cup {<<objects[o].name, o>>}]
            /\ nodeStack' = Node!Looked(Node!Below)
  BY DEF Node!Initialised
<1> HIDE DEF r, ready
<1>6. /\ ready \in Seq(Object) /\ DOMAIN ready = Objects /\ ready[o] = r
      /\ \A p \in Objects : p # o => ready[p] = objects[p]
  BY <1>2, <1>3, <1>4, <1>5, ExceptTyped
<1>7. \A p \in Objects :
              /\ ready[p].name = objects[p].name
              /\ ready[p].ready = IF p = o THEN TRUE ELSE objects[p].ready
              /\ ready[p].inits = IF p = o THEN objects[p].inits + 1 ELSE objects[p].inits
              /\ ready[p].attached = objects[p].attached
  <2> SUFFICES ASSUME NEW p \in Objects
               PROVE  /\ ready[p].name = objects[p].name
                      /\ ready[p].ready = IF p = o THEN TRUE ELSE objects[p].ready
                      /\ ready[p].inits = IF p = o THEN objects[p].inits + 1 ELSE objects[p].inits
                      /\ ready[p].attached = objects[p].attached
    OBVIOUS
  <2>1. CASE p = o
    BY <2>1, <1>4, <1>6
  <2>2. CASE p # o
    <3>1. ready[p] = objects[p] /\ objects[p].ready \in BOOLEAN
      BY <2>2, <1>6, ObjectTyped
    <3> QED
      BY <2>2, <3>1
  <2> QED
    BY <2>1, <2>2
<1>8. polled' \subseteq Nat \X Nat
  <2>1. o \in Nat /\ polled \subseteq Nat \X Nat
    BY <1>2, <1>3 DEF NodeMade, NodeTyped
  <2>2. Node!Poller(o) \in Nat
    <3> DEFINE comms == {e[2] : e \in {e \in objects[o].attached : e[1] \in Node!Io(objects[o].name)}}
    <3>1. comms \subseteq Nat
      BY <1>2, ObjectTyped
    <3>2. Node!Poller(o) = IF comms = {} THEN o ELSE CHOOSE p \in comms : TRUE
      BY DEF Node!Poller
    <3> HIDE DEF comms
    <3> QED
      BY <2>1, <3>1, <3>2
  <2> QED
    BY <2>1, <2>2, <1>1
<1>9. CASE L = 1
  <2>1. Node!Below = << >>
    BY <1>2, <1>9
  <2>2. objects' = ready /\ nodeStack' = << >>
    BY <2>1, <1>17
  <2>3. Objects' = Objects
    BY <2>2, <1>6 DEF Objects
  <2>4. ~(L > 1)
    BY <1>9
  <2>5. \A p \in Objects : objects'[p] = ready[p]
    BY <2>2
  <2> QED
    BY <1>1, <1>6, <1>7, <1>8, <1>9, <2>2, <2>3, <2>4, <2>5 DEF Initialises
<1>10. CASE L > 1
  <2>7. PICK u : u = nodeStack[L - 1].obj
    OBVIOUS
  <2>1. Node!Below # << >> /\ Node!Last(Node!Below).obj = u /\ L - 1 \in DOMAIN nodeStack
    BY <1>2, <1>10, <2>7, FrontSeq
  <2>2. u \in Objects
    BY <2>1, <2>7 DEF NodeMade, Stack
  <2> DEFINE x == [ready[u] EXCEPT !.attached = ready[u].attached \cup {<<Name(o), o>>}]
  <2>3. objects' = [ready EXCEPT ![u] = x] /\ nodeStack' = Node!Looked(Node!Below)
    BY <2>1, <2>2, <1>6, <1>17 DEF Name
  <2>4. ready[u] \in Object /\ <<Name(o), o>> \in Everything \X Nat
    BY <1>2, <1>6, <2>2, ObjectTyped
  <2>5. x \in Object /\ x.name = ready[u].name /\ x.ready = ready[u].ready /\ x.inits = ready[u].inits
        /\ x.attached = ready[u].attached \cup {<<Name(o), o>>}
    BY <2>4 DEF Object
  <2> HIDE DEF x
  <2>6. /\ objects' \in Seq(Object) /\ DOMAIN objects' = Objects /\ objects'[u] = x
        /\ \A p \in Objects : p # u => objects'[p] = ready[p]
    BY <1>6, <2>2, <2>3, <2>5, ExceptTyped
  <2>8. \A p \in Objects :
              /\ objects'[p].name = ready[p].name /\ objects'[p].ready = ready[p].ready
              /\ objects'[p].inits = ready[p].inits
              /\ objects'[p].attached = IF p = u THEN ready[p].attached \cup {<<Name(o), o>>} ELSE ready[p].attached
    BY <2>5, <2>6
  <2>9. Objects' = Objects
    BY <2>6 DEF Objects
  <2>10. \A p \in Objects :
              /\ objects'[p].name = objects[p].name
              /\ objects'[p].ready = IF p = o THEN TRUE ELSE objects[p].ready
              /\ objects'[p].inits = IF p = o THEN objects[p].inits + 1 ELSE objects[p].inits
              /\ objects'[p].attached = IF L > 1 /\ p = u THEN objects[p].attached \cup {<<Name(o), o>>}
                                        ELSE objects[p].attached
    <3> SUFFICES ASSUME NEW p \in Objects
                 PROVE  /\ objects'[p].name = objects[p].name
                        /\ objects'[p].ready = IF p = o THEN TRUE ELSE objects[p].ready
                        /\ objects'[p].inits = IF p = o THEN objects[p].inits + 1 ELSE objects[p].inits
                        /\ objects'[p].attached = IF p = u THEN objects[p].attached \cup {<<Name(o), o>>}
                                                  ELSE objects[p].attached
      BY <1>10
    <3>1. /\ objects'[p].name = ready[p].name /\ objects'[p].ready = ready[p].ready
          /\ objects'[p].inits = ready[p].inits
          /\ objects'[p].attached = IF p = u THEN ready[p].attached \cup {<<Name(o), o>>} ELSE ready[p].attached
      BY <2>8
    <3> QED
      BY <1>7, <3>1
  <2>11. L # 1
    BY <1>10
  <2> QED
    BY <1>1, <1>2, <1>8, <1>10, <2>2, <2>3, <2>6, <2>7, <2>9, <2>10, <2>11 DEF Initialises
<1>11. L = 1 \/ L > 1
  BY <1>2
<1> QED
  BY <1>9, <1>10, <1>11

LEMMA BaseInitialised ==
  ASSUME NodeMade, Node!Initialised, ModuleCount \in Nat
  PROVE  NodeMade' /\ Grown
<1>17. PICK o, L : Initialises(o, L)
  BY InitialisedIs
<1>15. o = Node!Top.obj
  BY <1>17 DEF Initialises
<1>16. L = Len(nodeStack)
  BY <1>17 DEF Initialises
<1>1. /\ nodeStack # << >> /\ UNCHANGED <<cfg, known, ioDict, modules, errors, phase, todos>>
      /\ objects' \in Seq(Object) /\ Objects' = Objects /\ polled' \subseteq Nat \X Nat
      /\ \A p \in Objects :
              /\ objects'[p].name = objects[p].name
              /\ objects'[p].attached = IF L > 1 /\ p = nodeStack[L - 1].obj
                                        THEN objects[p].attached \cup {<<Name(o), o>>}
                                        ELSE objects[p].attached
      /\ IF L = 1 THEN nodeStack' = << >> ELSE nodeStack' = Node!Looked(Node!Front(nodeStack))
      /\ L > 1 => nodeStack[L - 1].obj \in Objects
  BY <1>17 DEF Initialises
<1>2. /\ L \in Nat /\ L >= 1 /\ o \in Objects /\ nodeStack[L].obj = o /\ phase \in {"scan", "init"}
      /\ nodeStack \in Seq(FrameSet)
  BY <1>1, <1>15, <1>16, TopIs
<1>3. Grown
  BY <1>1 DEF Grown
<1>4. ASSUME L > 1
      PROVE  /\ L - 1 \in DOMAIN nodeStack /\ nodeStack[L - 1].wait # << >>
             /\ Head(nodeStack[L - 1].wait) = Name(o) /\ Name(o) \in Uses(Name(nodeStack[L - 1].obj))
  <2>1. L - 1 \in DOMAIN nodeStack /\ L - 1 \in 1 .. Len(nodeStack) - 1 /\ (L - 1) + 1 = L /\ nodeStack[L - 1] \in FrameSet
    BY <1>2, <1>4, <1>16
  <2>2. nodeStack[L - 1].wait # << >> /\ Head(nodeStack[L - 1].wait) = Name(nodeStack[(L - 1) + 1].obj)
    BY <2>1 DEF NodeMade, Stack
  <2>3. Node!ToSet(nodeStack[L - 1].wait) \subseteq Uses(Name(nodeStack[L - 1].obj))
    BY <2>1 DEF NodeMade, Stack
  <2>4. nodeStack[L - 1].wait \in Seq(Everything)
    BY <2>1 DEF FrameSet
  <2>5. Head(nodeStack[L - 1].wait) \in Node!ToSet(nodeStack[L - 1].wait)
    BY <2>2, <2>4, TailSet
  <2> QED
    BY <1>2, <2>1, <2>2, <2>3, <2>5
<1>5. Dictionary' /\ \A x : Node!Stored(x)' = Node!Stored(x)
  <2>1. ASSUME NEW p \in Objects, NEW e \in objects'[p].attached
        PROVE  \/ e \in objects[p].attached
               \/ e[2] \in Objects /\ Name(e[2]) = e[1] /\ e[1] \in Uses(Name(p))
    <3>1. e \in objects[p].attached \/ (L > 1 /\ p = nodeStack[L - 1].obj /\ e = <<Name(o), o>>)
      BY <1>1
    <3> QED
      BY <3>1, <1>2, <1>4
  <2> QED
    BY <2>1, <1>1, DictionaryGrown
<1>6. AllMade'
  BY <1>1, <1>2, <1>5, AllMadeLooking
<1>7. Stack' /\ nodeStack' \in Seq(FrameSet)
  <2>1. CASE L = 1
    BY <2>1, <1>1, EmptySet, StackEmpty
  <2>2. CASE L # 1
    <3> DEFINE F == Node!Front(nodeStack)
    <3>1. L > 1
      BY <2>2, <1>2
    <3>2. /\ F \in Seq(FrameSet) /\ Len(F) = L - 1 /\ \A i \in 1 .. L - 1 : F[i] = nodeStack[i]
      BY <1>1, <1>2, <1>16, FrontSeq
    <3>3. nodeStack' = Node!Looked(F)
      BY <2>2, <1>1
    <3> HIDE DEF F
    <3>4. F # << >> /\ Len(F) <= Len(nodeStack) /\ Len(F) \in 1 .. L - 1 /\ F[Len(F)] = nodeStack[L - 1]
      BY <3>1, <3>2, <1>2, <1>16
    <3>5. <<Name(o), o>> \in objects'[nodeStack[L - 1].obj].attached
      BY <3>1, <1>1
    <3>6. F[Len(F)].wait # << >> /\ \E e \in objects'[F[Len(F)].obj].attached : e[1] = Head(F[Len(F)].wait)
      BY <1>4, <3>1, <3>4, <3>5
    <3>7. phase' = phase
      BY <1>1
    <3> QED
      BY <1>2, <1>3, <3>2, <3>3, <3>4, <3>6, <3>7, StackLooked DEF NodeMade
  <2> QED
    BY <2>1, <2>2
<1>8. NodeTyped'
  BY <1>1, <1>7 DEF NodeMade, NodeTyped, InNode, Node!Configured
<1> QED
  BY <1>3, <1>5, <1>6, <1>7, <1>8 DEF NodeMade

-----------------------------------------------------------------------------
(* Initialising each module once.                                          *)

\* Objects are only added, so there are not fewer objects for a name.
LEMMA OnePerNameBefore ==
  ASSUME Node!OnePerName', \A o \in Objects : o \in Objects' /\ objects'[o].name = objects[o].name
  PROVE  Node!OnePerName
BY DEF Node!OnePerName, Objects

\* A step which initialises nothing.
LEMMA OnceStays ==
  ASSUME NodeInv, cfg' = cfg,
         \A o \in Objects : /\ o \in Objects' /\ objects'[o].name = objects[o].name
                            /\ objects'[o].ready = objects[o].ready /\ objects'[o].inits = objects[o].inits
                            /\ objects[o].attached \subseteq objects'[o].attached,
         \A o \in Objects' \ Objects : ~objects'[o].ready /\ objects'[o].inits = 0,
         phase' \in Up => phase \in Up /\ polled' = polled
  PROVE  Once' /\ Registered' /\ (Node!OnePerName' => Node!OnePerName)
<1>1. Node!OnePerName' => Node!OnePerName
  BY OnePerNameBefore
<1>2. \A o \in Objects : \A n : Node!IsAttached(o, n) => \E e \in objects'[o].attached : e[1] = n
  BY DEF Node!IsAttached
<1>3. \A n : Before(n)' = Before(n)
  BY UsesStay
<1>4. ASSUME Node!OnePerName', NEW o \in Objects'
      PROVE  /\ objects'[o].inits = IF objects'[o].ready THEN 1 ELSE 0
             /\ objects'[o].ready => \A n \in Before(objects'[o].name) : \E e \in objects'[o].attached : e[1] = n
  <2>1. CASE o \in Objects
    <3>1. /\ objects[o].inits = IF objects[o].ready THEN 1 ELSE 0
          /\ objects[o].ready => \A n \in Before(objects[o].name) : Node!IsAttached(o, n)
      BY <1>1, <1>4, <2>1 DEF NodeInv, NodeUp, Once, Name
    <3>2. objects'[o].name = objects[o].name /\ objects'[o].ready = objects[o].ready /\ objects'[o].inits = objects[o].inits
      BY <2>1
    <3> QED
      BY <1>2, <2>1, <3>1, <3>2
  <2>2. CASE o \notin Objects
    BY <2>2
  <2> QED
    BY <2>1, <2>2
<1>5. Once'
  BY <1>3, <1>4 DEF Once, Name, Node!IsAttached
<1>6. ASSUME Node!OnePerName', phase' \in Up
      PROVE  /\ \A p \in polled :
                  /\ p[2] \in Objects' /\ objects'[p[2]].ready
                  /\ p[1] = p[2] \/ \E e \in objects'[p[2]].attached : e[2] = p[1]
                  /\ \A q \in polled : p[2] = q[2] => p = q
             /\ \A o \in Objects' : objects'[o].ready => \E p \in polled : p[2] = o
             /\ polled' = polled
  <2>1. /\ \A p \in polled :
             /\ p[2] \in Objects /\ objects[p[2]].ready
             /\ p[1] = p[2] \/ \E e \in objects[p[2]].attached : e[2] = p[1]
             /\ \A q \in polled : p[2] = q[2] => p = q
        /\ \A o \in Objects : objects[o].ready => \E p \in polled : p[2] = o
    BY <1>1, <1>6 DEF NodeInv, NodeUp, Registered
  <2>2. ASSUME NEW p \in polled
        PROVE  /\ p[2] \in Objects' /\ objects'[p[2]].ready
               /\ p[1] = p[2] \/ \E e \in objects'[p[2]].attached : e[2] = p[1]
               /\ \A q \in polled : p[2] = q[2] => p = q
    <3>1. /\ p[2] \in Objects /\ objects[p[2]].ready
          /\ p[1] = p[2] \/ \E e \in objects[p[2]].attached : e[2] = p[1]
          /\ \A q \in polled : p[2] = q[2] => p = q
      BY <2>1
    <3>2. objects'[p[2]].ready = objects[p[2]].ready /\ objects[p[2]].attached \subseteq objects'[p[2]].attached
          /\ p[2] \in Objects'
      BY <3>1
    <3> QED
      BY <3>1, <3>2
  <2>3. ASSUME NEW o \in Objects', objects'[o].ready
        PROVE  \E p \in polled : p[2] = o
    <3>1. o \in Objects
      BY <2>3
    <3>2. objects[o].ready
      BY <2>3, <3>1
    <3> QED
      BY <2>1, <3>1, <3>2
  <2> QED
    BY <2>2, <2>3, <1>6
<1>7. Registered'
  BY <1>6 DEF Registered
<1> QED
  BY <1>1, <1>5, <1>7

\* A step which touches no object.
LEMMA OnceUnchanged ==
  ASSUME NodeInv, UNCHANGED <<cfg, objects>>, phase' \in Up => phase \in Up /\ polled' = polled
  PROVE  Once' /\ Registered' /\ Node!OnePerName' = Node!OnePerName
<1>1. Objects' = Objects /\ \A o \in Objects : objects'[o] = objects[o]
  BY DEF Objects
<1>2. Once' /\ Registered'
  BY <1>1, OnceStays
<1> QED
  BY <1>2 DEF Node!OnePerName

LEMMA WaitingEmpty ==
  ASSUME nodeStack' = << >>
  PROVE  Waiting'
BY DEF Waiting

LEMMA WaitingIs ==
  ASSUME cfg' = cfg,
         Node!OnePerName' =>
           /\ \A i \in 1 .. Len(nodeStack') - 1 :
                ~ \E e \in objects'[nodeStack'[i].obj].attached : e[1] = Head(nodeStack'[i].wait)
           /\ \A i \in DOMAIN nodeStack' :
                /\ objects'[nodeStack'[i].obj].ready = nodeStack'[i].check
                /\ ~nodeStack'[i].check => Node!ToSet(nodeStack'[i].wait) \subseteq Before(objects'[nodeStack'[i].obj].name)
  PROVE  Waiting'
<1>1. \A n : Before(n)' = Before(n)
  BY UsesStay
<1> QED
  BY <1>1 DEF Waiting, Name, Node!IsAttached

\* Outside of the start there is nothing to look at any more.
LEMMA LookedAtStays ==
  ASSUME NodeInv, UNCHANGED <<cfg, objects, modules>>, nodeStack = << >>, nodeStack' = << >>,
         errors => errors',
         phase' \in Made => phase \in Made /\ (phase = "init" => todos = << >> \/ (phase' = "init" /\ todos' = todos)),
         phase' \in Up => phase \in Up /\ polled' = polled, Running'
  PROVE  NodeUp'
<1>1. Once' /\ Registered' /\ Node!OnePerName' = Node!OnePerName
  BY OnceUnchanged
<1>2. Waiting'
  BY WaitingEmpty
<1>3. \A n : Uses(n)' = Uses(n)
  BY UsesStay
<1>4. ASSUME Node!OnePerName, phase' \in Made, ~errors', NEW o \in InNode
      PROVE  \/ phase' = "init" /\ o \in Node!ToSet(todos')
             \/ objects'[o].ready /\ \A n \in Uses(objects'[o].name) : \E e \in objects'[o].attached : e[1] = n
  <2>1. LookedAt(o)
    BY <1>4 DEF NodeInv, NodeUp, AllLookedAt
  <2> QED
    BY <2>1, <1>4, EmptySet DEF LookedAt, Name, Node!IsAttached
<1>5. InNode' = InNode
  BY DEF InNode
<1>6. AllLookedAt'
  BY <1>1, <1>3, <1>4, <1>5 DEF AllLookedAt, LookedAt, Name, Node!IsAttached
<1> QED
  BY <1>1, <1>2, <1>6 DEF NodeUp

\* Creating the modules.
LEMMA RestWhileCreating ==
  ASSUME NodeInv, Node!AlreadyCreated \/ Node!NotAClass \/ Node!ScanModules, ModuleCount \in Nat
  PROVE  NodeUp'
<1>1. /\ UNCHANGED <<cfg, objects, modules, polled>> /\ phase \in {"create", "scan"} /\ phase' = "create"
      /\ nodeStack' = nodeStack /\ (errors => errors') /\ (phase = "scan" => nodeStack = << >>)
  BY DEF Node!AlreadyCreated, Node!NotAClass, Node!ScanModules, Node!Creating, Node!nodeVars
<1>2. nodeStack = << >>
  BY <1>1, NotLooking DEF NodeInv
<1>3. Running'
  BY <1>1 DEF Running
<1> QED
  BY <1>1, <1>2, <1>3, LookedAtStays DEF Made, Up

LEMMA RestAllCreated ==
  ASSUME NodeInv, Node!AllCreated, ModuleCount \in Nat
  PROVE  NodeUp'
<1>1. /\ UNCHANGED <<cfg, objects, modules, polled>> /\ phase = "create" /\ phase' = "init"
      /\ nodeStack' = nodeStack /\ todos' = modules
  BY DEF Node!AllCreated, Node!nodeVars
<1>2. nodeStack' = << >>
  BY <1>1, NotLooking DEF NodeInv
<1>3. Running'
  BY <1>1 DEF Running
<1>4. Once' /\ Registered'
  BY <1>1, OnceUnchanged DEF Up
<1>5. AllLookedAt'
  BY <1>1 DEF AllLookedAt, LookedAt, InNode
<1> QED
  BY <1>2, <1>3, <1>4, <1>5, WaitingEmpty DEF NodeUp

LEMMA RestStartModules ==
  ASSUME NodeInv, Node!StartModules, ModuleCount \in Nat
  PROVE  NodeUp'
<1>1. /\ UNCHANGED <<cfg, objects, modules, polled, errors>> /\ phase = "init" /\ todos = << >>
      /\ nodeStack = << >> /\ nodeStack' = << >>
      /\ IF errors
         THEN phase' = "failed" /\ UNCHANGED running
         ELSE phase' = "run" /\ running' = {o \in InNode : \E p \in polled : p[1] = o}
  BY DEF Node!StartModules, Node!nodeVars, InNode
<1>2. Running'
  BY <1>1 DEF Running, InNode
<1> QED
  BY <1>1, <1>2, LookedAtStays DEF Made, Up

\* ShutdownInv down.
LEMMA RestAtShutdown ==
  ASSUME NodeInv, phase \in Made \ {"init"}, phase' \in Made \ {"init", "run"},
         UNCHANGED <<cfg, objects, modules, errors, nodeStack>>
  PROVE  NodeUp'
<1>1. nodeStack = << >>
  BY NotLooking DEF NodeInv, Made
<1>2. Running'
  BY DEF Running
<1> QED
  BY <1>1, <1>2, LookedAtStays DEF Made, Up

LEMMA NothingYet ==
  ASSUME objects = << >>, modules = << >>, nodeStack = << >>, polled = {}, phase = "create"
  PROVE  NodeUp
<1>1. Objects = {} /\ Len(nodeStack) = 0 /\ DOMAIN nodeStack = {}
  BY DEF Objects
<1> QED
  BY <1>1 DEF NodeUp, Waiting, Once, AllLookedAt, Registered, Running, Made

LEMMA RestRestart ==
  ASSUME NodeInv, Node!Restart, ModuleCount \in Nat
  PROVE  NodeUp'
<1>1. objects' = << >> /\ modules' = << >> /\ nodeStack' = nodeStack /\ polled' = {} /\ phase' = "create"
      /\ phase = "down"
  BY DEF Node!Restart
<1>2. nodeStack' = << >>
  BY <1>1, NotLooking DEF NodeInv
<1>3. Objects' = {} /\ Len(nodeStack') = 0 /\ DOMAIN nodeStack' = {}
  BY <1>1, <1>2 DEF Objects
<1> QED
  BY <1>1, <1>2, <1>3 DEF NodeUp, Waiting, Once, AllLookedAt, Registered, Running, Made

LEMMA RestInit ==
  ASSUME Node!Init
  PROVE  NodeUp
BY NothingYet DEF Node!Init

LEMMA RestFailed ==
  ASSUME NodeInv, phase' = "failed", nodeStack' = << >>, UNCHANGED <<cfg, objects>>
  PROVE  NodeUp'
<1>1. Once' /\ Registered'
  BY OnceUnchanged DEF Up
<1> QED
  BY <1>1, WaitingEmpty DEF NodeUp, AllLookedAt, Running, Made

\* Modules looking at others.
LEMMA AllLookedAtLooking ==
  ASSUME NodeInv, phase \in {"scan", "init"}, phase' = phase, UNCHANGED <<cfg, todos>>,
         phase = "init" => modules' = modules, errors => errors', Node!OnePerName' => Node!OnePerName,
         \A o \in Objects : /\ objects'[o].name = objects[o].name
                            /\ objects[o].ready => objects'[o].ready
                            /\ objects[o].attached \subseteq objects'[o].attached,
         nodeStack # << >> /\ nodeStack[1].check /\ ~errors' =>
           \/ nodeStack' # << >> /\ nodeStack'[1].check /\ nodeStack'[1].obj = nodeStack[1].obj
           \/ LET o == nodeStack[1].obj IN
              objects'[o].ready /\ \A n \in Uses(objects'[o].name) : \E e \in objects'[o].attached : e[1] = n
  PROVE  AllLookedAt'
<1>1. \A n : Uses(n)' = Uses(n)
  BY UsesStay
<1>2. ASSUME Node!OnePerName', phase = "init", ~errors', NEW o \in InNode
      PROVE  \/ o \in Node!ToSet(todos)
             \/ nodeStack' # << >> /\ nodeStack'[1].check /\ nodeStack'[1].obj = o
             \/ objects'[o].ready /\ \A n \in Uses(objects'[o].name) : \E e \in objects'[o].attached : e[1] = n
  <2>1. LookedAt(o)
    BY <1>2 DEF NodeInv, NodeUp, AllLookedAt, Made
  <2>2. o \in Objects
    BY DEF NodeInv, NodeMade, NodeTyped
  <2>3. CASE o \in Node!ToSet(todos)
    BY <2>3
  <2>4. CASE nodeStack # << >> /\ nodeStack[1].check /\ nodeStack[1].obj = o
    BY <2>4, <1>2
  <2>5. CASE objects[o].ready /\ \A n \in Uses(Name(o)) : Node!IsAttached(o, n)
    BY <2>2, <2>5 DEF Name, Node!IsAttached
  <2> QED
    BY <2>1, <2>3, <2>4, <2>5 DEF LookedAt
<1>3. phase = "init" => InNode' = InNode
  BY DEF InNode
<1> QED
  BY <1>1, <1>2, <1>3 DEF AllLookedAt, LookedAt, Made, Name, Node!IsAttached

LEMMA RunningLooking ==
  ASSUME phase \in {"scan", "init"}, phase' = phase
  PROVE  Running'
BY DEF Running

LEMMA WaitingLooked ==
  ASSUME NodeInv, cfg' = cfg, ModuleCount \in Nat,
         NEW F \in Seq(FrameSet), F # << >>, Len(F) <= Len(nodeStack),
         \A i \in 1 .. Len(F) : F[i] = nodeStack[i],
         F[Len(F)].wait # << >>, nodeStack' = Node!Looked(F), Node!OnePerName' => Node!OnePerName,
         Node!OnePerName' =>
           /\ \A i \in 1 .. Len(F) - 1 :
                ~ \E e \in objects'[nodeStack[i].obj].attached : e[1] = Head(nodeStack[i].wait)
           /\ \A i \in 1 .. Len(F) :
                LET o == nodeStack[i].obj IN
                objects'[o].ready = objects[o].ready /\ objects'[o].name = objects[o].name
  PROVE  Waiting'
<1> DEFINE G == nodeStack'
<1>1. /\ G \in Seq(FrameSet) /\ Len(G) = Len(F)
      /\ \A i \in 1 .. Len(F) : /\ G[i].obj = F[i].obj
                                /\ G[i].check = F[i].check
                                /\ G[i].wait = IF i = Len(F) THEN Tail(F[i].wait) ELSE F[i].wait
  BY LookedIs
<1> HIDE DEF G
<1>2. DOMAIN nodeStack = 1 .. Len(nodeStack) /\ Len(nodeStack) \in Nat /\ Len(F) \in Nat /\ Len(F) >= 1
      /\ DOMAIN G = 1 .. Len(F) /\ DOMAIN F = 1 .. Len(F)
  BY <1>1 DEF NodeInv, NodeMade, NodeTyped
<1>3. ASSUME Node!OnePerName', NEW i \in 1 .. Len(F) - 1
      PROVE  ~ \E e \in objects'[G[i].obj].attached : e[1] = Head(G[i].wait)
  <2>1. i \in 1 .. Len(F) /\ i # Len(F)
    BY <1>2
  <2>2. G[i].obj = nodeStack[i].obj /\ G[i].wait = nodeStack[i].wait
    BY <1>1, <2>1
  <2> QED
    BY <1>3, <2>2
<1>4. ASSUME Node!OnePerName', NEW i \in 1 .. Len(F)
      PROVE  /\ objects'[G[i].obj].ready = G[i].check
             /\ ~G[i].check => Node!ToSet(G[i].wait) \subseteq Before(objects'[G[i].obj].name)
  <2> DEFINE f == nodeStack[i]
  <2>1. /\ objects[f.obj].ready = f.check
        /\ ~f.check => Node!ToSet(f.wait) \subseteq Before(Name(f.obj))
    <3>1. i \in DOMAIN nodeStack
      BY <1>2
    <3>2. Node!OnePerName
      BY <1>4
    <3> QED
      BY <3>1, <3>2 DEF NodeInv, NodeUp, Waiting
  <2>2. objects'[f.obj].ready = objects[f.obj].ready /\ objects'[f.obj].name = Name(f.obj)
    BY <1>4 DEF Name
  <2>3. G[i].obj = f.obj /\ G[i].check = f.check
    BY <1>1
  <2>4. Node!ToSet(G[i].wait) \subseteq Node!ToSet(f.wait)
    <3>1. f = F[i]
      OBVIOUS
    <3> HIDE DEF f
    <3>2. CASE i = Len(F)
      <4>1. f \in FrameSet /\ f = F[Len(F)]
        BY <1>2, <3>1, <3>2
      <4>2. f.wait \in Seq(Everything) /\ f.wait # << >>
        BY <4>1 DEF FrameSet
      <4>3. G[i].wait = Tail(f.wait)
        BY <1>1, <3>1, <3>2
      <4> QED
        BY <4>2, <4>3, TailSet
    <3>3. CASE i # Len(F)
      BY <1>1, <3>1, <3>3
    <3> QED
      BY <3>2, <3>3
  <2> HIDE DEF f
  <2> QED
    BY <2>1, <2>2, <2>3, <2>4
<1> QED
  BY <1>1, <1>2, <1>3, <1>4, WaitingIs DEF G

LEMMA WaitingPushed ==
  ASSUME NodeInv, cfg' = cfg, ModuleCount \in Nat, NEW x \in FrameSet,
         nodeStack' = Append(nodeStack, x), Node!OnePerName' => Node!OnePerName,
         \A i \in DOMAIN nodeStack : LET o == nodeStack[i].obj IN objects'[o] = objects[o],
         objects'[x.obj].ready = x.check,
         ~x.check => Node!ToSet(x.wait) \subseteq Before(objects'[x.obj].name),
         nodeStack # << >> => ~Node!IsAttached(Node!Top.obj, Node!Wanted)
  PROVE  Waiting'
<1> DEFINE G == nodeStack'  L == Len(nodeStack)
<1>1. nodeStack \in Seq(FrameSet)
  BY DEF NodeInv, NodeMade, NodeTyped
<1>2. G = Append(nodeStack, x)
  OBVIOUS
<1> HIDE DEF G, L
<1>3. /\ G \in Seq(FrameSet) /\ Len(G) = L + 1 /\ G[L + 1] = x
      /\ \A i \in 1 .. L : G[i] = nodeStack[i]
  BY <1>1, <1>2, AppendSet DEF L
<1>4. DOMAIN nodeStack = 1 .. L /\ DOMAIN G = 1 .. L + 1 /\ L \in Nat /\ (L # 0 => nodeStack # << >>)
  BY <1>1, <1>3 DEF L
<1>5. ASSUME Node!OnePerName', NEW i \in 1 .. L
      PROVE  ~ \E e \in objects'[G[i].obj].attached : e[1] = Head(G[i].wait)
  <2>1. G[i] = nodeStack[i] /\ objects'[nodeStack[i].obj] = objects[nodeStack[i].obj] /\ nodeStack # << >>
    BY <1>3, <1>4
  <2>2. CASE i = L
    BY <2>1, <2>2, TopIs DEF NodeInv, Node!IsAttached, Node!Wanted, L
  <2>3. CASE i # L
    <3>1. i \in 1 .. L - 1
      BY <2>3, <1>4
    <3>2. ~Node!IsAttached(nodeStack[i].obj, Head(nodeStack[i].wait))
      BY <1>5, <3>1 DEF NodeInv, NodeUp, Waiting, L
    <3> QED
      BY <2>1, <3>2 DEF Node!IsAttached
  <2> QED
    BY <2>2, <2>3
<1>6. ASSUME Node!OnePerName', NEW i \in 1 .. L + 1
      PROVE  /\ objects'[G[i].obj].ready = G[i].check
             /\ ~G[i].check => Node!ToSet(G[i].wait) \subseteq Before(objects'[G[i].obj].name)
  <2>1. CASE i = L + 1
    BY <2>1, <1>3
  <2>2. CASE i # L + 1
    <3>1. i \in DOMAIN nodeStack /\ G[i] = nodeStack[i] /\ objects'[nodeStack[i].obj] = objects[nodeStack[i].obj]
      BY <2>2, <1>3, <1>4
    <3>2. /\ objects[nodeStack[i].obj].ready = nodeStack[i].check
          /\ ~nodeStack[i].check => Node!ToSet(nodeStack[i].wait) \subseteq Before(objects[nodeStack[i].obj].name)
      BY <1>6, <3>1 DEF NodeInv, NodeUp, Waiting, Name
    <3> QED
      BY <3>1, <3>2
  <2> QED
    BY <2>1, <2>2
<1>7. Len(G) - 1 = L
  BY <1>3, <1>4
<1> QED
  BY <1>4, <1>5, <1>6, <1>7, WaitingIs DEF G

LEMMA RestRecursionError ==
  ASSUME NodeInv, Node!RecursionError
  PROVE  NodeUp'
<1>1. nodeStack' = << >> /\ phase' = "failed" /\ UNCHANGED <<cfg, objects>>
  BY DEF Node!RecursionError, Node!nodeVars
<1> QED
  BY <1>1, RestFailed

LEMMA RestAlreadyAttached ==
  ASSUME NodeInv, Node!AlreadyAttached, ModuleCount \in Nat
  PROVE  NodeUp'
<1>1. /\ nodeStack # << >> /\ Node!Top.wait # << >> /\ nodeStack' = Node!Looked(nodeStack)
      /\ UNCHANGED <<cfg, phase, todos, objects, modules, errors, polled>>
  BY DEF Node!AlreadyAttached, Node!Looking, Node!nodeVars
<1>2. /\ nodeStack \in Seq(FrameSet) /\ Len(nodeStack) \in Nat /\ Node!Top = nodeStack[Len(nodeStack)]
      /\ phase \in {"scan", "init"} /\ DOMAIN nodeStack = 1 .. Len(nodeStack) /\ Len(nodeStack) >= 1
  BY <1>1, TopIs DEF NodeInv
<1>3. Once' /\ Registered' /\ Node!OnePerName' = Node!OnePerName
  BY <1>1, OnceUnchanged DEF Up
<1>4. Waiting'
  <2>1. Node!OnePerName => \A i \in 1 .. Len(nodeStack) - 1 :
          ~ \E e \in objects'[nodeStack[i].obj].attached : e[1] = Head(nodeStack[i].wait)
    BY <1>1 DEF NodeInv, NodeUp, Waiting, Node!IsAttached
  <2> QED
    BY <1>1, <1>2, <1>3, <2>1, WaitingLooked
<1>5. nodeStack' # << >> /\ nodeStack'[1].check = nodeStack[1].check /\ nodeStack'[1].obj = nodeStack[1].obj
  BY <1>1, <1>2, LookedIs
<1>6. AllLookedAt'
  BY <1>1, <1>2, <1>3, <1>5, AllLookedAtLooking
<1> QED
  BY <1>1, <1>2, <1>3, <1>4, <1>6, RunningLooking DEF NodeUp

LEMMA RestNoSuchModule ==
  ASSUME NodeInv, Node!NoSuchModule, ModuleCount \in Nat
  PROVE  NodeUp'
<1>1. /\ nodeStack # << >> /\ Node!Top.wait # << >> /\ errors' = TRUE
      /\ UNCHANGED <<cfg, todos, objects, modules, polled>>
  BY DEF Node!NoSuchModule, Node!Looking
<1>2. /\ nodeStack \in Seq(FrameSet) /\ Len(nodeStack) \in Nat /\ Node!Top = nodeStack[Len(nodeStack)]
      /\ phase \in {"scan", "init"} /\ DOMAIN nodeStack = 1 .. Len(nodeStack) /\ Len(nodeStack) >= 1
  BY <1>1, TopIs DEF NodeInv
<1>3. CASE ~Head(nodeStack).check
  BY <1>1, <1>3, RestFailed DEF Node!NoSuchModule
<1>4. CASE Head(nodeStack).check
  <2>1. nodeStack' = Node!Looked(<<Head(nodeStack)>>) /\ phase' = phase
    BY <1>4 DEF Node!NoSuchModule
  <2>2. Once' /\ Registered' /\ Node!OnePerName' = Node!OnePerName
    BY <1>1, <2>1, OnceUnchanged DEF Up
  <2> DEFINE F == <<Head(nodeStack)>>
  <2>5. /\ F \in Seq(FrameSet) /\ F # << >> /\ Len(F) <= Len(nodeStack) /\ Len(F) = 1 /\ F[1] = nodeStack[1]
        /\ \A i \in 1 .. Len(F) : F[i] = nodeStack[i]
    BY <1>2
  <2>6. nodeStack[1].wait # << >>
    <3>1. CASE Len(nodeStack) = 1
      BY <3>1, <1>1, <1>2
    <3>2. CASE Len(nodeStack) # 1
      <4>1. 1 \in 1 .. Len(nodeStack) - 1
        BY <3>2, <1>2
      <4> QED
        BY <4>1 DEF NodeInv, NodeMade, Stack
    <3> QED
      BY <3>1, <3>2
  <2>7. F[Len(F)].wait # << >> /\ nodeStack' = Node!Looked(F)
    BY <2>1, <2>5, <2>6
  <2> HIDE DEF F
  <2>8. \A i \in 1 .. Len(F) - 1 : FALSE
    BY <2>5
  <2>9. Waiting'
    BY <1>1, <2>2, <2>5, <2>7, <2>8, WaitingLooked
  <2>10. AllLookedAt'
    BY <1>1 DEF AllLookedAt
  <2> QED
    BY <1>2, <2>1, <2>2, <2>9, <2>10, RunningLooking DEF NodeUp
<1> QED
  BY <1>3, <1>4

LEMMA RestChecked ==
  ASSUME NodeInv, Node!Checked, ModuleCount \in Nat
  PROVE  NodeUp'
<1>1. /\ nodeStack # << >> /\ Node!Top.wait = << >> /\ Node!Top.check /\ nodeStack' = << >>
      /\ UNCHANGED <<cfg, phase, todos, objects, modules, errors, polled>>
  BY DEF Node!Checked, Node!nodeVars
<1>2. /\ nodeStack \in Seq(FrameSet) /\ Len(nodeStack) \in Nat /\ Node!Top = nodeStack[Len(nodeStack)]
      /\ phase \in {"scan", "init"} /\ DOMAIN nodeStack = 1 .. Len(nodeStack) /\ Len(nodeStack) >= 1
      /\ Len(nodeStack) \in DOMAIN nodeStack /\ Node!Top.obj \in Objects
  BY <1>1, TopIs DEF NodeInv
<1>3. Once' /\ Registered' /\ Node!OnePerName' = Node!OnePerName
  BY <1>1, OnceUnchanged DEF Up
<1>4. Len(nodeStack) = 1
  BY <1>1, <1>2 DEF NodeInv, NodeMade, Stack
<1>5. ASSUME Node!OnePerName, ~errors
      PROVE  LET o == nodeStack[1].obj IN
             objects'[o].ready /\ \A n \in Uses(objects'[o].name) : \E e \in objects'[o].attached : e[1] = n
  <2> DEFINE o == nodeStack[1].obj
  <2>1. objects[o].ready
    BY <1>1, <1>2, <1>4, <1>5 DEF NodeInv, NodeUp, Waiting
  <2>2. \A n \in Uses(Name(o)) : n \in Node!ToSet(nodeStack[1].wait) \/ Node!IsAttached(o, n)
    BY <1>1, <1>2, <1>4, <1>5 DEF NodeInv, NodeMade, Stack
  <2>3. Node!ToSet(nodeStack[1].wait) = {}
    BY <1>1, <1>2, <1>4, EmptySet
  <2> QED
    BY <1>1, <2>1, <2>2, <2>3 DEF Name, Node!IsAttached
<1>6. AllLookedAt'
  <2>1. CASE Node!OnePerName
    BY <1>1, <1>2, <1>3, <1>5, <2>1, AllLookedAtLooking
  <2>2. CASE ~Node!OnePerName
    BY <1>3, <2>2 DEF AllLookedAt
  <2> QED
    BY <2>1, <2>2
<1> QED
  BY <1>1, <1>2, <1>3, <1>6, WaitingEmpty, RunningLooking DEF NodeUp

LEMMA RestInitialise ==
  ASSUME NodeInv, Node!Initialise, ModuleCount \in Nat
  PROVE  NodeUp'
<1>15. PICK o : o = Head(todos)
  OBVIOUS
<1>16. PICK n : n = objects[o].name
  OBVIOUS
<1>1. /\ phase = "init" /\ phase' = "init" /\ nodeStack = << >> /\ todos # << >>
      /\ UNCHANGED <<cfg, objects, modules, errors, polled>>
      /\ IF objects[o].ready
         THEN /\ nodeStack' = <<[Node!Frame(o, Node!AllProperties(n)) EXCEPT !.check = TRUE]>>
              /\ todos' = Tail(todos)
         ELSE nodeStack' = <<Node!Initialising(o, n)>> /\ UNCHANGED todos
  BY <1>15, <1>16 DEF Node!Initialise, Node!nodeVars
<1>2. /\ todos \in Seq(Nat) /\ o \in InNode /\ Node!ToSet(todos) = {o} \cup Node!ToSet(Tail(todos))
  <2>1. todos \in Seq(Nat) /\ Node!ToSet(todos) \subseteq InNode
    BY <1>1 DEF NodeInv, NodeMade, NodeTyped
  <2> QED
    BY <1>1, <1>15, <2>1, TailSet
<1>3. o \in Objects /\ o \in Nat /\ n = Name(o) /\ n \in Everything /\ objects[o].ready \in BOOLEAN
  BY <1>2, <1>16, ObjectTyped DEF NodeInv, NodeMade, NodeTyped, Name
<1>4. Once' /\ Registered' /\ Node!OnePerName' = Node!OnePerName
  BY <1>1, OnceUnchanged DEF Up
<1>5. PICK x \in FrameSet : nodeStack' = <<x>> /\ x.obj = o /\ x.check = objects[o].ready
                            /\ (~x.check => Node!ToSet(x.wait) = Before(n))
  <2>1. CASE objects[o].ready
    <3> DEFINE x == [Node!Frame(o, Node!AllProperties(n)) EXCEPT !.check = TRUE]
    <3>1. x \in FrameSet /\ x.obj = o /\ x.check = TRUE
      BY <1>3, Reads DEF Node!Frame, FrameSet, NodeInv, NodeMade, NodeTyped
    <3>2. nodeStack' = <<x>> /\ objects[o].ready = TRUE
      BY <2>1, <1>1, <1>3
    <3> HIDE DEF x
    <3> QED
      BY <3>1, <3>2
  <2>2. CASE ~objects[o].ready
    <3> DEFINE x == Node!Initialising(o, n)
    <3>1. x \in FrameSet /\ x.obj = o /\ x.check = FALSE /\ Node!ToSet(x.wait) = Before(n)
      BY <1>3, FirstFrame DEF NodeInv
    <3>2. nodeStack' = <<x>> /\ objects[o].ready = FALSE
      BY <2>2, <1>1, <1>3
    <3> HIDE DEF x
    <3> QED
      BY <3>1, <3>2
  <2> QED
    BY <2>1, <2>2
<1>6. Waiting'
  <2>1. nodeStack' = Append(nodeStack, x)
    BY <1>1, <1>5, Alone
  <2>2. \A i \in DOMAIN nodeStack : FALSE
    BY <1>1
  <2>3. objects'[x.obj].ready = x.check /\ objects'[x.obj].name = n
    BY <1>1, <1>5, <1>16
  <2> QED
    BY <1>1, <1>4, <1>5, <2>1, <2>2, <2>3, WaitingPushed
<1>7. AllLookedAt'
  <2>1. \A m : Uses(m)' = Uses(m)
    BY <1>1, UsesStay
  <2>2. InNode' = InNode
    BY <1>1 DEF InNode
  <2>3. ASSUME Node!OnePerName, ~errors, NEW p \in InNode
        PROVE  \/ p \in Node!ToSet(todos')
               \/ nodeStack' # << >> /\ nodeStack'[1].check /\ nodeStack'[1].obj = p
               \/ objects'[p].ready /\ \A m \in Uses(objects'[p].name) : \E e \in objects'[p].attached : e[1] = m
    <3>1. LookedAt(p)
      BY <1>1, <2>3 DEF NodeInv, NodeUp, AllLookedAt, Made
    <3>2. CASE objects[p].ready /\ \A m \in Uses(Name(p)) : Node!IsAttached(p, m)
      BY <1>1, <3>2 DEF Name, Node!IsAttached
    <3>3. CASE p \in Node!ToSet(todos)
      <4>1. CASE objects[o].ready
        BY <1>1, <1>2, <1>5, <3>3, <4>1
      <4>2. CASE ~objects[o].ready
        BY <1>1, <3>3, <4>2
      <4> QED
        BY <4>1, <4>2
    <3> QED
      BY <1>1, <3>1, <3>2, <3>3 DEF LookedAt
  <2> QED
    BY <1>1, <1>4, <2>1, <2>2, <2>3 DEF AllLookedAt, LookedAt, Name, Node!IsAttached
<1> QED
  BY <1>1, <1>4, <1>6, <1>7, RunningLooking DEF NodeUp

LEMMA ConstructedObjects ==
  ASSUME NodeMade, ModuleCount \in Nat, NEW n \in Node!Names, Node!Construct(n), NEW k, k = Node!Constructed(n)
  PROVE  /\ \A o \in Objects : o \in Objects' /\ objects'[o] = objects[o]
         /\ \A o \in Objects' \ Objects : ~objects'[o].ready /\ objects'[o].inits = 0
         /\ k \in Objects' /\ k \in Nat /\ objects'[k].name = n /\ objects'[k].ready = FALSE
<1> DEFINE L == Len(objects)
<1>1. /\ objects'[k] = Node!NewObject(n)
      /\ \A o \in Objects : objects'[o] = objects[o]
      /\ Objects = 1 .. L /\ L \in Nat /\ Objects' = 1 .. k
      /\ IF Node!MakesIo(n)
         THEN k = L + 2 /\ objects'[L + 1] = Node!NewObject(Node!Auto)
         ELSE k = L + 1
  BY ConstructIs
<1> HIDE DEF L
<1>2. \A m : ~Node!NewObject(m).ready /\ Node!NewObject(m).inits = 0 /\ Node!NewObject(m).name = m
             /\ Node!NewObject(m).ready = FALSE
  BY DEF Node!NewObject
<1>3. \A o \in Objects' \ Objects : o = k \/ (o = L + 1 /\ objects'[L + 1] = Node!NewObject(Node!Auto))
  BY <1>1
<1>4. \A o \in Objects : o \in Objects'
  BY <1>1
<1>5. k \in Objects' /\ k \in Nat
  BY <1>1
<1> QED
  BY <1>1, <1>2, <1>3, <1>4, <1>5

LEMMA RestCreate ==
  ASSUME NodeInv, Node!Create, ModuleCount \in Nat
  PROVE  NodeUp'
<1>14. PICK n : n = Head(todos)
  OBVIOUS
<1>15. PICK k : k = Node!Constructed(n)
  OBVIOUS
<1>1. /\ phase = "create" /\ todos # << >> /\ todos \in Seq(Node!Names)
      /\ Node!Construct(n) /\ UNCHANGED <<cfg, errors, polled>> /\ phase' \in {"create", "scan"}
      /\ nodeStack' = <<Node!Initialising(k, n)>> \/ nodeStack' = nodeStack
  BY <1>14, <1>15 DEF NodeInv, NodeMade, NodeTyped, Node!Create, Node!Creating
<1>2. n \in Node!Names /\ n \in Everything
  BY <1>1, <1>14, TailSet DEF Everything
<1>3. nodeStack = << >>
  BY <1>1, NotLooking DEF NodeInv
<1>4. /\ \A o \in Objects : o \in Objects' /\ objects'[o] = objects[o]
      /\ \A o \in Objects' \ Objects : ~objects'[o].ready /\ objects'[o].inits = 0
      /\ k \in Objects' /\ k \in Nat /\ objects'[k].name = n /\ objects'[k].ready = FALSE
  BY <1>1, <1>2, <1>15, ConstructedObjects DEF NodeInv
<1>5. Once' /\ Registered' /\ (Node!OnePerName' => Node!OnePerName)
  BY <1>1, <1>4, OnceStays DEF Up
<1>6. Waiting'
  <2>1. CASE nodeStack' = nodeStack
    BY <1>3, <2>1, WaitingEmpty
  <2>2. CASE nodeStack' = <<Node!Initialising(k, n)>>
    <3> DEFINE x == Node!Initialising(k, n)
    <3>1. /\ x \in FrameSet /\ x.obj = k /\ x.check = FALSE /\ Node!ToSet(x.wait) = Before(n)
      BY <1>2, <1>4, FirstFrame DEF NodeInv
    <3>2. nodeStack' = <<x>>
      BY <2>2
    <3> HIDE DEF x
    <3>3. nodeStack' = Append(nodeStack, x)
      BY <3>1, <3>2, <1>3, Alone
    <3>4. \A i \in DOMAIN nodeStack : FALSE
      BY <1>3
    <3> QED
      BY <1>1, <1>3, <1>4, <1>5, <3>1, <3>3, <3>4, WaitingPushed
  <2> QED
    BY <1>1, <2>1, <2>2
<1>7. AllLookedAt' /\ Running'
  BY <1>1 DEF AllLookedAt, Running, Made
<1> QED
  BY <1>5, <1>6, <1>7 DEF NodeUp

LEMMA RestGetModule ==
  ASSUME NodeInv, Node!GetModule, ModuleCount \in Nat
  PROVE  NodeUp'
<1>14. PICK n : n = Node!Wanted
  OBVIOUS
<1>1. /\ nodeStack # << >> /\ Node!Top.wait # << >> /\ ~Node!Missing(n)
      /\ UNCHANGED <<cfg, phase, todos, errors, polled>> /\ ~Node!IsAttached(Node!Top.obj, n)
      /\ IF Node!Stored(n)
         THEN /\ nodeStack' = Append(nodeStack, Node!Initialising(Node!ObjectOf(n), n))
              /\ ~objects[Node!ObjectOf(n)].ready
              /\ UNCHANGED <<objects, modules>>
         ELSE /\ nodeStack' = Append(nodeStack, Node!Initialising(Node!Constructed(n), n))
              /\ Node!Construct(n)
  BY <1>14 DEF Node!GetModule, Node!Looking
<1>2. /\ n \in Everything /\ phase \in {"scan", "init"}
      /\ DOMAIN nodeStack = 1 .. Len(nodeStack) /\ Len(nodeStack) >= 1 /\ Len(nodeStack) \in Nat
      /\ nodeStack \in Seq(FrameSet)
  BY <1>1, <1>14, TopIs DEF NodeInv
<1>3. PICK o : /\ nodeStack' = Append(nodeStack, Node!Initialising(o, n))
               /\ \A p \in Objects : p \in Objects' /\ objects'[p] = objects[p]
               /\ \A p \in Objects' \ Objects : ~objects'[p].ready /\ objects'[p].inits = 0
               /\ o \in Nat /\ objects'[o].ready = FALSE /\ objects'[o].name = n
               /\ phase = "init" => modules' = modules
  <2>1. CASE Node!Stored(n)
    <3> DEFINE o == Node!ObjectOf(n)
    <3>1. UNCHANGED <<objects, modules>> /\ nodeStack' = Append(nodeStack, Node!Initialising(o, n))
          /\ ~objects[o].ready
      BY <1>1, <2>1
    <3>2. o \in Objects /\ o \in Nat /\ objects[o].name = n /\ objects[o].ready \in BOOLEAN
      BY <2>1, ObjectIs, ObjectTyped DEF NodeInv, NodeMade, NodeTyped, Name
    <3> HIDE DEF o
    <3>3. Objects' = Objects
      BY <3>1 DEF Objects
    <3> QED
      BY <3>1, <3>2, <3>3
  <2>2. CASE ~Node!Stored(n)
    <3>1. PICK k : k = Node!Constructed(n)
      OBVIOUS
    <3>2. n \in known \ {cfg.broken} /\ n \in Node!Names
      BY <1>1, <2>2 DEF Node!Missing, NodeInv, NodeMade, NodeTyped
    <3>3. phase # "init"
      BY <2>2, <3>2 DEF NodeInv, NodeMade, AllMade, Made
    <3>4. /\ \A p \in Objects : p \in Objects' /\ objects'[p] = objects[p]
          /\ \A p \in Objects' \ Objects : ~objects'[p].ready /\ objects'[p].inits = 0
          /\ k \in Objects' /\ k \in Nat /\ objects'[k].name = n /\ objects'[k].ready = FALSE
      BY <1>1, <2>2, <3>1, <3>2, ConstructedObjects DEF NodeInv
    <3>5. nodeStack' = Append(nodeStack, Node!Initialising(k, n))
      BY <1>1, <2>2, <3>1
    <3> QED
      BY <3>3, <3>4, <3>5
  <2> QED
    BY <2>1, <2>2
<1>4. Once' /\ Registered' /\ (Node!OnePerName' => Node!OnePerName)
  BY <1>1, <1>2, <1>3, OnceStays DEF Up
<1>5. \A i \in DOMAIN nodeStack : nodeStack[i].obj \in Objects
  BY DEF NodeInv, NodeMade, Stack
<1> DEFINE x == Node!Initialising(o, n)
<1>6. /\ x \in FrameSet /\ x.obj = o /\ x.check = FALSE /\ Node!ToSet(x.wait) = Before(n)
  BY <1>2, <1>3, FirstFrame DEF NodeInv
<1>7. nodeStack' = Append(nodeStack, x)
  BY <1>3
<1> HIDE DEF x
<1>8. Waiting'
  BY <1>1, <1>3, <1>4, <1>5, <1>6, <1>7, <1>14, WaitingPushed
<1>9. AllLookedAt'
  <2>1. nodeStack' # << >> /\ nodeStack'[1] = nodeStack[1]
    BY <1>2, <1>6, <1>7
  <2>2. \A p \in Objects : /\ objects'[p].name = objects[p].name
                            /\ objects[p].ready => objects'[p].ready
                            /\ objects[p].attached \subseteq objects'[p].attached
    BY <1>3
  <2> QED
    BY <1>1, <1>2, <1>3, <1>4, <2>1, <2>2, AllLookedAtLooking
<1> QED
  BY <1>1, <1>2, <1>4, <1>8, <1>9, RunningLooking DEF NodeUp

LEMMA RestAttachReady ==
  ASSUME NodeInv, Node!AttachReady, ModuleCount \in Nat
  PROVE  NodeUp'
<1>10. PICK o, n, m : Attaches(o, n, m)
  BY AttachReadyIs DEF NodeInv
<1>1. /\ nodeStack # << >> /\ Node!Top.wait # << >> /\ ~Node!IsAttached(o, n)
      /\ nodeStack' = Node!Looked(nodeStack) /\ UNCHANGED <<cfg, phase, todos, modules, errors, polled>>
      /\ o = Node!Top.obj /\ n = Node!Wanted /\ o \in Objects /\ m \in Objects /\ Name(m) = n /\ objects[m].ready
      /\ Objects' = Objects
  BY <1>10 DEF Attaches
<1>2. \A p \in Objects :
       /\ objects'[p].name = objects[p].name
       /\ objects'[p].ready = objects[p].ready
       /\ objects'[p].inits = objects[p].inits
       /\ objects'[p].attached = IF p = o THEN objects[p].attached \cup {<<n, m>>}
                                 ELSE objects[p].attached
  BY <1>10 DEF Attaches
<1>3. /\ phase \in {"scan", "init"} /\ Node!Top = nodeStack[Len(nodeStack)]
      /\ DOMAIN nodeStack = 1 .. Len(nodeStack) /\ Len(nodeStack) >= 1 /\ Len(nodeStack) \in Nat
      /\ nodeStack \in Seq(FrameSet)
  BY <1>1, TopIs DEF NodeInv
<1>4. Once' /\ Registered' /\ (Node!OnePerName' => Node!OnePerName)
  BY <1>1, <1>2, <1>3, OnceStays DEF Up
<1>5. ASSUME Node!OnePerName, NEW i \in 1 .. Len(nodeStack) - 1
      PROVE  ~ \E e \in objects'[nodeStack[i].obj].attached : e[1] = Head(nodeStack[i].wait)
  <2>1. /\ i \in DOMAIN nodeStack /\ i + 1 \in DOMAIN nodeStack /\ i + 1 # 1
        /\ nodeStack[i].obj \in Objects /\ nodeStack[i + 1].obj \in Objects
    <3>1. i \in DOMAIN nodeStack /\ i + 1 \in DOMAIN nodeStack /\ i + 1 # 1
      BY <1>3
    <3> QED
      BY <3>1 DEF NodeInv, NodeMade, Stack
  <2>2. Head(nodeStack[i].wait) = Name(nodeStack[i + 1].obj)
    BY DEF NodeInv, NodeMade, Stack
  <2>3. ~Node!IsAttached(nodeStack[i].obj, Head(nodeStack[i].wait))
    BY <1>5 DEF NodeInv, NodeUp, Waiting
  <2>4. ~objects[nodeStack[i + 1].obj].ready
    <3>1. ~nodeStack[i + 1].check
      BY <2>1 DEF NodeInv, NodeMade, Stack
    <3>2. objects[nodeStack[i + 1].obj].ready = nodeStack[i + 1].check
      BY <1>5, <2>1 DEF NodeInv, NodeUp, Waiting
    <3> QED
      BY <3>1, <3>2
  <2>5. Name(nodeStack[i + 1].obj) # n
    <3>1. \A p \in Objects : Name(p) = n => p = m
      BY <1>1, <1>5 DEF Node!OnePerName, Name, Objects
    <3> QED
      BY <1>1, <2>1, <2>4, <3>1
  <2> QED
    <3> DEFINE p == nodeStack[i].obj
    <3>1. p \in Objects /\ \A e \in objects[p].attached : e[1] # Head(nodeStack[i].wait)
      BY <2>1, <2>3 DEF Node!IsAttached
    <3> HIDE DEF p
    <3>2. \A e \in objects'[p].attached : e \in objects[p].attached \/ e = <<n, m>>
      BY <1>2, <3>1
    <3>3. Head(nodeStack[i].wait) # n
      BY <2>2, <2>5
    <3>4. \A e \in objects'[p].attached : e[1] # Head(nodeStack[i].wait)
      BY <3>1, <3>2, <3>3
    <3> QED
      BY <3>4 DEF p
<1>6. Waiting'
  <2>1. \A i \in 1 .. Len(nodeStack) : nodeStack[i].obj \in Objects
    BY <1>3 DEF NodeInv, NodeMade, Stack
  <2>2. \A i \in 1 .. Len(nodeStack) :
          LET p == nodeStack[i].obj IN
          objects'[p].ready = objects[p].ready /\ objects'[p].name = objects[p].name
    BY <1>2, <2>1
  <2>3. cfg' = cfg /\ nodeStack[Len(nodeStack)].wait # << >> /\ Len(nodeStack) <= Len(nodeStack)
    BY <1>1, <1>3
  <2> QED
    BY <1>1, <1>3, <1>4, <1>5, <2>2, <2>3, WaitingLooked
<1>7. AllLookedAt'
  <2>1. nodeStack' # << >> /\ nodeStack'[1].check = nodeStack[1].check /\ nodeStack'[1].obj = nodeStack[1].obj
    BY <1>1, <1>3, LookedIs
  <2>2. \A p \in Objects : /\ objects'[p].name = objects[p].name
                           /\ objects[p].ready => objects'[p].ready
                           /\ objects[p].attached \subseteq objects'[p].attached
    BY <1>2
  <2> QED
    BY <1>1, <1>3, <1>4, <2>1, <2>2, AllLookedAtLooking
<1> QED
  BY <1>1, <1>3, <1>4, <1>6, <1>7, RunningLooking DEF NodeUp

\* A module which has looked at all it wants is nowhere else on the stack.
LEMMA TopIsAlone ==
  ASSUME NodeInv, nodeStack # << >>, Node!Top.wait = << >>, ~Node!Top.check, ModuleCount \in Nat,
         Node!OnePerName, NEW i \in 1 .. Len(nodeStack) - 1
  PROVE  nodeStack[i].obj # Node!Top.obj
<1> DEFINE L == Len(nodeStack)  o == Node!Top.obj
<1>1. /\ Node!Top = nodeStack[L] /\ L \in DOMAIN nodeStack /\ i \in DOMAIN nodeStack /\ L \in Nat
      /\ nodeStack[i] \in FrameSet /\ nodeStack[L] \in FrameSet
  BY TopIs DEF NodeInv
<1>2. objects[o].ready = FALSE
  BY <1>1 DEF NodeInv, NodeUp, Waiting, FrameSet
<1>3. \A n \in Uses(Name(o)) : n \in Before(Name(o)) => Node!IsAttached(o, n)
  <2>1. Node!ToSet(nodeStack[L].wait) = {}
    BY <1>1, EmptySet
  <2>2. \A n \in Uses(Name(o)) : n \in Before(Name(o)) =>
          n \in Node!ToSet(nodeStack[L].wait) \/ Node!IsAttached(o, n)
    BY <1>1 DEF NodeInv, NodeMade, Stack
  <2> QED
    BY <2>1, <2>2
<1> HIDE DEF o
<1>4. SUFFICES ASSUME nodeStack[i].obj = o PROVE FALSE
  BY DEF o
<1>5. ~nodeStack[i].check
  <2>1. objects[o].ready = nodeStack[i].check
    BY <1>1, <1>4 DEF NodeInv, NodeUp, Waiting
  <2> QED
    BY <1>2, <2>1
<1>6. /\ nodeStack[i].wait # << >> /\ nodeStack[i].wait \in Seq(Everything)
      /\ Node!ToSet(nodeStack[i].wait) \subseteq Uses(Name(o))
  BY <1>1, <1>4 DEF NodeInv, NodeMade, Stack, FrameSet
<1>7. Node!ToSet(nodeStack[i].wait) \subseteq Before(Name(o)) /\ ~Node!IsAttached(o, Head(nodeStack[i].wait))
  BY <1>1, <1>4, <1>5 DEF NodeInv, NodeUp, Waiting
<1>8. Head(nodeStack[i].wait) \in Node!ToSet(nodeStack[i].wait)
  BY <1>6, TailSet
<1> QED
  BY <1>3, <1>6, <1>7, <1>8

LEMMA PollerIs ==
  ASSUME NEW o
  PROVE  Node!Poller(o) = o \/ \E e \in objects[o].attached : e[2] = Node!Poller(o)
<1> DEFINE comms == {e[2] : e \in {e \in objects[o].attached : e[1] \in Node!Io(objects[o].name)}}
<1>1. Node!Poller(o) = IF comms = {} THEN o ELSE CHOOSE p \in comms : TRUE
  BY DEF Node!Poller
<1>2. \A p \in comms : \E e \in objects[o].attached : e[2] = p
  OBVIOUS
<1> HIDE DEF comms
<1> QED
  BY <1>1, <1>2

LEMMA RestInitialised ==
  ASSUME NodeInv, Node!Initialised, ModuleCount \in Nat
  PROVE  NodeUp'
<1>10. PICK o, L : Initialises(o, L)
  BY InitialisedIs DEF NodeInv
<1>1. /\ o = Node!Top.obj /\ L = Len(nodeStack) /\ nodeStack # << >> /\ Node!Top.wait = << >> /\ ~Node!Top.check
      /\ UNCHANGED <<cfg, modules, errors, phase, todos>> /\ Objects' = Objects
      /\ polled' = polled \cup {<<Node!Poller(o), o>>}
      /\ IF L = 1 THEN nodeStack' = << >> ELSE nodeStack' = Node!Looked(Node!Front(nodeStack))
      /\ L > 1 => nodeStack[L - 1].obj \in Objects
  BY <1>10 DEF Initialises
<1>2. \A p \in Objects :
       /\ objects'[p].name = objects[p].name
       /\ objects'[p].ready = IF p = o THEN TRUE ELSE objects[p].ready
       /\ objects'[p].inits = IF p = o THEN objects[p].inits + 1 ELSE objects[p].inits
       /\ objects'[p].attached = IF L > 1 /\ p = nodeStack[L - 1].obj
                                 THEN objects[p].attached \cup {<<Name(o), o>>}
                                 ELSE objects[p].attached
  BY <1>10 DEF Initialises
<1>3. /\ L \in Nat /\ L >= 1 /\ o \in Objects /\ nodeStack[L].obj = o /\ phase \in {"scan", "init"}
      /\ nodeStack \in Seq(FrameSet) /\ Node!Top = nodeStack[L] /\ L \in DOMAIN nodeStack
      /\ DOMAIN nodeStack = 1 .. L /\ Node!Top \in FrameSet
  BY <1>1, TopIs DEF NodeInv
<1>4. Node!OnePerName' => Node!OnePerName
  BY <1>1, <1>2, OnePerNameBefore
<1>5. \A p \in Objects : objects[p].attached \subseteq objects'[p].attached
  BY <1>2
<1>6. \A n : Uses(n)' = Uses(n) /\ Before(n)' = Before(n)
  BY <1>1, UsesStay
<1>7. ASSUME Node!OnePerName PROVE objects[o].ready = FALSE
  BY <1>1, <1>3, <1>7 DEF NodeInv, NodeUp, Waiting, FrameSet
<1>8. Once'
  <2>1. ASSUME Node!OnePerName, NEW p \in Objects
        PROVE  /\ objects'[p].inits = IF objects'[p].ready THEN 1 ELSE 0
               /\ objects'[p].ready => \A n \in Before(objects'[p].name) : \E e \in objects'[p].attached : e[1] = n
    <3>1. /\ objects[p].inits = IF objects[p].ready THEN 1 ELSE 0
          /\ objects[p].ready => \A n \in Before(Name(p)) : Node!IsAttached(p, n)
      BY <2>1 DEF NodeInv, NodeUp, Once
    <3>2. objects'[p].name = Name(p)
      BY <1>2 DEF Name
    <3>3. \A n : Node!IsAttached(p, n) => \E e \in objects'[p].attached : e[1] = n
      BY <1>5 DEF Node!IsAttached
    <3>4. CASE p # o
      BY <1>2, <3>1, <3>2, <3>3, <3>4
    <3>5. CASE p = o
      <4>1. objects'[p].inits = 1 /\ objects'[p].ready
        <5>1. objects[o].ready = FALSE
          BY <1>7, <2>1
        <5>2. objects[o].inits = 0
          BY <3>1, <3>5, <5>1
        <5>3. objects'[o].inits = objects[o].inits + 1 /\ objects'[o].ready = TRUE
          BY <1>2, <1>3
        <5> QED
          BY <3>5, <5>2, <5>3
      <4>2. \A n \in Before(Name(p)) : n \in Node!ToSet(nodeStack[L].wait) \/ Node!IsAttached(p, n)
        BY <1>1, <1>3, <3>5 DEF NodeInv, NodeMade, Stack, Uses
      <4>3. Node!ToSet(nodeStack[L].wait) = {}
        BY <1>1, <1>3, EmptySet
      <4> QED
        BY <3>2, <3>3, <4>1, <4>2, <4>3
    <3> QED
      BY <3>4, <3>5
  <2> QED
    BY <1>1, <1>4, <1>6, <2>1 DEF Once, Name, Node!IsAttached
<1>9. Registered'
  <2>1. SUFFICES ASSUME Node!OnePerName
                 PROVE  /\ \A p \in polled' :
                             /\ p[2] \in Objects /\ objects'[p[2]].ready
                             /\ p[1] = p[2] \/ \E e \in objects'[p[2]].attached : e[2] = p[1]
                             /\ \A q \in polled' : p[2] = q[2] => p = q
                        /\ \A p \in Objects : objects'[p].ready => \E q \in polled' : q[2] = p
    BY <1>1, <1>4 DEF Registered
  <2>2. /\ \A p \in polled :
             /\ p[2] \in Objects /\ objects[p[2]].ready
             /\ p[1] = p[2] \/ \E e \in objects[p[2]].attached : e[2] = p[1]
             /\ \A q \in polled : p[2] = q[2] => p = q
        /\ \A p \in Objects : objects[p].ready => \E q \in polled : q[2] = p
    BY <1>3, <2>1 DEF NodeInv, NodeUp, Registered, Up
  <2> DEFINE x == <<Node!Poller(o), o>>
  <2>3. x[2] = o /\ (x[1] = o \/ \E e \in objects[o].attached : e[2] = x[1])
    BY PollerIs
  <2>4. polled' = polled \cup {x}
    BY <1>1
  <2> HIDE DEF x
  <2>5. \A p \in polled : p[2] # o /\ p[2] \in Objects /\ objects'[p[2]].ready
    BY <1>2, <1>7, <2>1, <2>2
  <2>6. objects'[o].ready
    BY <1>2, <1>3
  <2>7. ASSUME NEW p \in polled'
        PROVE  /\ p[2] \in Objects /\ objects'[p[2]].ready
               /\ p[1] = p[2] \/ \E e \in objects'[p[2]].attached : e[2] = p[1]
               /\ \A q \in polled' : p[2] = q[2] => p = q
    <3>1. CASE p \in polled
      <4>1. /\ p[1] = p[2] \/ \E e \in objects[p[2]].attached : e[2] = p[1]
            /\ \A q \in polled : p[2] = q[2] => p = q
        BY <2>2, <3>1
      <4>2. p[2] # o /\ p[2] \in Objects /\ objects'[p[2]].ready
        BY <2>5, <3>1
      <4>3. objects[p[2]].attached \subseteq objects'[p[2]].attached
        BY <1>5, <4>2
      <4> QED
        BY <2>3, <2>4, <4>1, <4>2, <4>3
    <3>2. CASE p = x
      <4>1. objects[o].attached \subseteq objects'[o].attached
        BY <1>3, <1>5
      <4>2. \A q \in polled : q[2] # p[2]
        BY <2>3, <2>5, <3>2
      <4> QED
        BY <1>3, <2>3, <2>4, <2>6, <3>2, <4>1, <4>2
    <3> QED
      BY <2>4, <3>1, <3>2
  <2>8. ASSUME NEW p \in Objects, objects'[p].ready
        PROVE  \E q \in polled' : q[2] = p
    <3>1. CASE p = o
      BY <2>3, <2>4, <3>1
    <3>2. CASE p # o
      <4>1. objects[p].ready
        BY <1>2, <2>8, <3>2
      <4> QED
        BY <2>2, <2>4, <4>1
    <3> QED
      BY <3>1, <3>2
  <2> QED
    BY <2>7, <2>8
<1>11. \A i \in 1 .. L - 1 : Node!OnePerName => nodeStack[i].obj # o
  BY <1>1, TopIsAlone
<1>12. \A i \in 1 .. L : nodeStack[i].obj \in Objects
  BY <1>3 DEF NodeInv, NodeMade, Stack
<1>13. ASSUME L # 1
       PROVE  LET F == Node!Front(nodeStack) IN
              /\ F \in Seq(FrameSet) /\ F # << >> /\ Len(F) = L - 1 /\ L > 1 /\ L - 1 \in 1 .. L - 1
              /\ \A i \in 1 .. L - 1 : F[i] = nodeStack[i]
              /\ F[Len(F)].wait # << >> /\ nodeStack' = Node!Looked(F)
  <2> DEFINE F == Node!Front(nodeStack)
  <2>1. /\ F \in Seq(FrameSet) /\ Len(F) = L - 1 /\ \A i \in 1 .. L - 1 : F[i] = nodeStack[i]
    BY <1>1, <1>3, FrontSeq
  <2>2. nodeStack' = Node!Looked(F)
    BY <1>1, <1>13
  <2> HIDE DEF F
  <2>3. L > 1 /\ L - 1 \in 1 .. L - 1 /\ F # << >> /\ F[Len(F)] = nodeStack[L - 1]
    BY <1>3, <1>13, <2>1
  <2>4. nodeStack[L - 1].wait # << >>
    BY <1>1, <2>3 DEF NodeInv, NodeMade, Stack
  <2> QED
    BY <2>1, <2>2, <2>3, <2>4 DEF F
<1>14. Waiting'
  <2>1. CASE L = 1
    BY <1>1, <2>1, WaitingEmpty
  <2>2. CASE L # 1
    <3> DEFINE F == Node!Front(nodeStack)
    <3>1. /\ F \in Seq(FrameSet) /\ F # << >> /\ Len(F) = L - 1 /\ L > 1 /\ L - 1 \in 1 .. L - 1
          /\ \A i \in 1 .. L - 1 : F[i] = nodeStack[i]
          /\ F[Len(F)].wait # << >> /\ nodeStack' = Node!Looked(F)
      BY <1>13, <2>2
    <3> HIDE DEF F
    <3>2. ASSUME Node!OnePerName, NEW i \in 1 .. L - 2
          PROVE  ~ \E e \in objects'[nodeStack[i].obj].attached : e[1] = Head(nodeStack[i].wait)
      <4>1. i \in 1 .. L - 1 /\ i + 1 \in 1 .. L - 1 /\ i \in 1 .. L /\ i + 1 \in 1 .. L
        BY <1>3
      <4>2. Head(nodeStack[i].wait) = Name(nodeStack[i + 1].obj)
        BY <1>1, <4>1 DEF NodeInv, NodeMade, Stack
      <4>3. ~Node!IsAttached(nodeStack[i].obj, Head(nodeStack[i].wait))
        BY <1>1, <3>2, <4>1 DEF NodeInv, NodeUp, Waiting
      <4>4. Name(nodeStack[i + 1].obj) # Name(o)
        <5>1. nodeStack[i + 1].obj # o /\ nodeStack[i + 1].obj \in Objects
          BY <1>11, <1>12, <3>2, <4>1
        <5> QED
          BY <1>3, <3>2, <5>1 DEF Node!OnePerName, Name, Objects
      <4> DEFINE p == nodeStack[i].obj
      <4>5. p \in Objects /\ \A e \in objects[p].attached : e[1] # Head(nodeStack[i].wait)
        BY <1>12, <4>1, <4>3 DEF Node!IsAttached
      <4> HIDE DEF p
      <4>6. \A e \in objects'[p].attached : e \in objects[p].attached \/ e = <<Name(o), o>>
        BY <1>2, <4>5
      <4>7. \A e \in objects'[p].attached : e[1] # Head(nodeStack[i].wait)
        BY <4>2, <4>4, <4>5, <4>6
      <4> QED
        BY <4>7 DEF p
    <3>3. ASSUME Node!OnePerName, NEW i \in 1 .. L - 1
          PROVE  LET p == nodeStack[i].obj IN
                 objects'[p].ready = objects[p].ready /\ objects'[p].name = objects[p].name
      <4>1. nodeStack[i].obj # o /\ nodeStack[i].obj \in Objects
        BY <1>3, <1>11, <1>12, <3>3
      <4> QED
        BY <1>2, <4>1
    <3>4. Len(F) - 1 = L - 2 /\ Len(F) <= Len(nodeStack) /\ cfg' = cfg
      BY <1>1, <1>3, <3>1
    <3>5. Node!OnePerName' =>
           /\ \A i \in 1 .. Len(F) - 1 :
                ~ \E e \in objects'[nodeStack[i].obj].attached : e[1] = Head(nodeStack[i].wait)
           /\ \A i \in 1 .. Len(F) :
                LET p == nodeStack[i].obj IN
                objects'[p].ready = objects[p].ready /\ objects'[p].name = objects[p].name
      BY <1>4, <3>1, <3>2, <3>3, <3>4
    <3>6. \A i \in 1 .. Len(F) : F[i] = nodeStack[i]
      BY <3>1
    <3> QED
      BY <1>4, <3>1, <3>4, <3>5, <3>6, WaitingLooked
  <2> QED
    BY <2>1, <2>2
<1>15. AllLookedAt'
  <2>1. nodeStack # << >> /\ nodeStack[1].check =>
          nodeStack' # << >> /\ nodeStack'[1].check /\ nodeStack'[1].obj = nodeStack[1].obj
    <3>1. CASE L = 1
      BY <1>1, <1>3, <3>1
    <3>2. CASE L # 1
      <4> DEFINE F == Node!Front(nodeStack)
      <4>1. /\ F \in Seq(FrameSet) /\ F # << >> /\ Len(F) = L - 1 /\ L > 1 /\ L - 1 \in 1 .. L - 1
            /\ \A i \in 1 .. L - 1 : F[i] = nodeStack[i]
            /\ F[Len(F)].wait # << >> /\ nodeStack' = Node!Looked(F)
        BY <1>13, <3>2
      <4> HIDE DEF F
      <4>2. /\ nodeStack' \in Seq(FrameSet) /\ Len(nodeStack') = L - 1
            /\ \A i \in 1 .. L - 1 : nodeStack'[i].obj = F[i].obj /\ nodeStack'[i].check = F[i].check
        BY <4>1, LookedIs
      <4>3. 1 \in 1 .. L - 1
        BY <1>3, <4>1
      <4>4. nodeStack' # << >>
        BY <4>1, <4>2
      <4> QED
        BY <4>1, <4>2, <4>3, <4>4
    <3> QED
      BY <3>1, <3>2
  <2>2. \A p \in Objects : /\ objects'[p].name = objects[p].name
                           /\ objects[p].ready => objects'[p].ready
                           /\ objects[p].attached \subseteq objects'[p].attached
    BY <1>2, <1>5
  <2> QED
    BY <1>1, <1>3, <1>4, <2>1, <2>2, AllLookedAtLooking
<1> QED
  BY <1>1, <1>3, <1>8, <1>9, <1>14, <1>15, RunningLooking DEF NodeUp

LEMMA InvNext ==
  ASSUME NodeInv, Node!Next, ModuleCount \in Nat
  PROVE  NodeInv'
<1>1. NodeMade
  BY DEF NodeInv
<1>2. CASE Node!CreateModules
  <2>1. CASE Node!AlreadyCreated
    BY <1>1, <2>1, BaseAlreadyCreated, RestWhileCreating DEF NodeInv
  <2>2. CASE Node!NotAClass
    BY <1>1, <2>2, BaseNotAClass, RestWhileCreating DEF NodeInv
  <2>3. CASE Node!Create
    BY <1>1, <2>3, BaseCreate, RestCreate DEF NodeInv
  <2>4. CASE Node!ScanModules
    BY <1>1, <2>4, BaseScanModules, RestWhileCreating DEF NodeInv
  <2>5. CASE Node!AllCreated
    BY <1>1, <2>5, BaseAllCreated, RestAllCreated DEF NodeInv
  <2>6. CASE Node!Initialise
    BY <1>1, <2>6, BaseInitialise, RestInitialise DEF NodeInv
  <2> QED
    BY <1>2, <2>1, <2>2, <2>3, <2>4, <2>5, <2>6 DEF Node!CreateModules
<1>3. CASE Node!GetModules
  <2>1. CASE Node!AlreadyAttached
    BY <1>1, <2>1, BaseAlreadyAttached, RestAlreadyAttached DEF NodeInv
  <2>2. CASE Node!AttachReady
    BY <1>1, <2>2, BaseAttachReady, RestAttachReady DEF NodeInv
  <2>3. CASE Node!GetModule
    BY <1>1, <2>3, BaseGetModule, RestGetModule DEF NodeInv
  <2>4. CASE Node!NoSuchModule
    BY <1>1, <2>4, BaseNoSuchModule, RestNoSuchModule DEF NodeInv
  <2>5. CASE Node!RecursionError
    BY <1>1, <2>5, BaseRecursionError, RestRecursionError DEF NodeInv
  <2>6. CASE Node!Initialised
    BY <1>1, <2>6, BaseInitialised, RestInitialised DEF NodeInv
  <2>7. CASE Node!Checked
    BY <1>1, <2>7, BaseChecked, RestChecked DEF NodeInv
  <2> QED
    BY <1>3, <2>1, <2>2, <2>3, <2>4, <2>5, <2>6, <2>7 DEF Node!GetModules
<1>4. CASE Node!StartModules
  BY <1>1, <1>4, BaseStartModules, RestStartModules DEF NodeInv
<1>5. CASE Node!ShutdownModules
  <2>1. /\ phase \in Made \ {"init"} /\ phase' \in Made \ {"init", "run"} /\ polled' \subseteq polled
        /\ UNCHANGED <<cfg, known, ioDict, objects, modules, errors, nodeStack>>
    BY <1>5 DEF Node!ShutdownModules, Node!StopPollThreads, Node!JoinPollThreads, Node!PickUnmarked,
                Node!Descend, Node!Leave, Node!AllSorted, Node!Cycle, Node!ShutdownModule,
                Node!ShutDown, Node!nodeVars, Made
  <2>2. NodeMade'
    BY <1>1, <2>1, BaseAtShutdown
  <2>3. NodeUp'
    BY <2>1, RestAtShutdown
  <2> QED
    BY <2>2, <2>3 DEF NodeInv
<1>6. CASE Node!Restart
  BY <1>1, <1>6, BaseRestart, RestRestart DEF NodeInv
<1> QED
  BY <1>2, <1>3, <1>4, <1>5, <1>6 DEF Node!Next

LEMMA InvStutters ==
  ASSUME NodeInv, UNCHANGED nodeVars
  PROVE  NodeInv'
<1>1. UNCHANGED <<cfg, known, ioDict, phase, todos, objects, modules, nodeStack, errors, polled, running>>
  BY DEF nodeVars
<1>2. UNCHANGED <<Node!OnePerName, Objects, InNode>> /\ \A n : Uses(n)' = Uses(n) /\ Before(n)' = Before(n)
  BY <1>1, UsesStay DEF Node!OnePerName, Objects, InNode
<1>3. \A n : Node!Stored(n)' = Node!Stored(n)
  BY <1>1 DEF Node!Stored
<1>4. \A o : Name(o)' = Name(o) /\ \A n : Node!IsAttached(o, n)' = Node!IsAttached(o, n)
  BY <1>1 DEF Name, Node!IsAttached
<1>5. NodeTyped'
  BY <1>1 DEF NodeInv, NodeMade, NodeTyped, InNode, Objects, Node!Configured
<1>6. Dictionary'
  BY <1>1, DictionaryStays DEF NodeInv, NodeMade
<1>7. AllMade'
  BY <1>1, <1>3 DEF NodeInv, NodeMade, AllMade
<1>8. Stack'
  <2>1. Stack
    BY DEF NodeInv, NodeMade
  <2>2. \A i \in DOMAIN nodeStack : LET f == nodeStack[i]  n == objects'[f.obj].name IN
           /\ f.obj \in Objects' /\ Node!ToSet(f.wait) \subseteq Uses(n)
           /\ f.check => i = 1 /\ phase' = "init"
           /\ \A m \in Uses(n) : m \in Before(n) \/ f.check =>
                \/ m \in Node!ToSet(f.wait)
                \/ \E e \in objects'[f.obj].attached : e[1] = m
                \/ f.check /\ errors'
    BY <1>1, <1>2, <2>1 DEF Stack, Name, Node!IsAttached
  <2> QED
    BY <1>1, <2>1, <2>2, StackIs DEF Stack, Name
<1>9. Once' /\ Registered'
  BY <1>1, OnceUnchanged
<1>10. Waiting'
  <2>1. Node!OnePerName =>
           /\ \A i \in 1 .. Len(nodeStack) - 1 :
                ~ \E e \in objects'[nodeStack[i].obj].attached : e[1] = Head(nodeStack[i].wait)
           /\ \A i \in DOMAIN nodeStack :
                /\ objects'[nodeStack[i].obj].ready = nodeStack[i].check
                /\ ~nodeStack[i].check => Node!ToSet(nodeStack[i].wait) \subseteq Before(objects'[nodeStack[i].obj].name)
    BY <1>1 DEF NodeInv, NodeUp, Waiting, Name, Node!IsAttached
  <2> QED
    BY <1>1, <1>2, <2>1, WaitingIs
<1>11. Running'
  BY <1>1, <1>2 DEF NodeInv, NodeUp, Running
<1>12. AllLookedAt'
  <2>1. AllLookedAt
    BY DEF NodeInv, NodeUp
  <2>2. \A o : LookedAt(o) => LookedAt(o)'
    <3> SUFFICES ASSUME NEW o, LookedAt(o) PROVE LookedAt(o)'
      OBVIOUS
    <3>1. LookedAt(o)' <=>
            \/ phase' = "init" /\ o \in Node!ToSet(todos')
            \/ phase' = "init" /\ nodeStack' # << >> /\ nodeStack'[1].check /\ nodeStack'[1].obj = o
            \/ objects'[o].ready /\ \A n \in Uses(objects'[o].name) : \E e \in objects'[o].attached : e[1] = n
      BY <1>2 DEF LookedAt, Name, Node!IsAttached
    <3> QED
      BY <1>1, <3>1 DEF LookedAt, Name, Node!IsAttached
  <2> QED
    BY <1>1, <1>2, <2>1, <2>2 DEF AllLookedAt
<1> QED
  BY <1>5, <1>6, <1>7, <1>8, <1>9, <1>10, <1>11, <1>12 DEF NodeInv, NodeMade, NodeUp

LEMMA RunsComplete ==
  ASSUME NodeInv, ModuleCount \in Nat
  PROVE  NodeComplete
<1>1. SUFFICES ASSUME phase = "run", Node!OnePerName
               PROVE  /\ Node!Names \subseteq {objects[o].name : o \in InNode}
                      /\ \A o \in InNode : Node!Complete(o)
  BY DEF NodeComplete, Node!NodeComplete, InNode
<1>2. errors = FALSE /\ running = {o \in InNode : \E p \in polled : p[1] = o}
  BY <1>1 DEF NodeInv, NodeUp, Running, NodeMade, NodeTyped
<1>3. /\ \A n \in known \ {cfg.broken} : Node!Stored(n)
      /\ cfg.broken \notin known /\ (cfg.pinata = Node!None \/ ModuleCount \in known)
  BY <1>1, <1>2 DEF NodeInv, NodeMade, AllMade, Made
<1>4. \A n \in known : Node!Stored(n)
  BY <1>3
<1>5. Node!Names \subseteq known
  <2>1. Node!Configured \subseteq known
    BY DEF NodeInv, NodeMade, NodeTyped
  <2> QED
    BY <1>3, <2>1 DEF Node!Configured
<1>6. \A n \in Everything : \A o \in Objects : Name(o) = n => Node!Stored(n)
  <2> SUFFICES ASSUME NEW n \in Everything, NEW o \in Objects, Name(o) = n PROVE Node!Stored(n)
    OBVIOUS
  <2>1. CASE n \in Node!Names
    BY <1>4, <1>5, <2>1
  <2>2. CASE n = Node!Auto
    BY <2>2 DEF NodeInv, NodeMade, Dictionary
  <2> QED
    BY <2>1, <2>2 DEF Everything
<1>7. \A o \in Objects : o \in InNode
  <2> SUFFICES ASSUME NEW o \in Objects PROVE o \in InNode
    OBVIOUS
  <2>1. Name(o) \in Everything
    BY ObjectTyped DEF NodeInv
  <2>2. Node!Stored(Name(o))
    BY <1>6, <2>1
  <2>3. PICK q \in InNode : objects[q].name = Name(o)
    BY <2>2 DEF Node!Stored, InNode
  <2>4. q \in Objects
    BY <2>3 DEF NodeInv, NodeMade, NodeTyped
  <2> QED
    BY <1>1, <2>3, <2>4 DEF Node!OnePerName, Objects, Name
<1>8. ASSUME NEW o \in InNode PROVE Node!Complete(o)
  <2>1. o \in Objects
    BY DEF NodeInv, NodeMade, NodeTyped
  <2>2. LookedAt(o)
    BY <1>1, <1>2 DEF NodeInv, NodeUp, AllLookedAt, Made
  <2>3. objects[o].ready /\ \A n \in Uses(Name(o)) : Node!IsAttached(o, n)
    BY <1>1, <2>2 DEF LookedAt
  <2>4. objects[o].inits = 1
    BY <1>1, <2>1, <2>3 DEF NodeInv, NodeUp, Once
  <2>5. \A e \in objects[o].attached : e[2] \in InNode /\ e[1] \in Uses(Name(o))
    BY <1>7, <2>1 DEF NodeInv, NodeMade, Dictionary
  <2>6. {e[1] : e \in objects[o].attached} = Uses(Name(o))
    BY <2>3, <2>5 DEF Node!IsAttached
  <2>7. \E p \in polled : {q \in polled : q[2] = o /\ q[1] \in running} = {p}
    <3>1. /\ \A p \in polled :
               /\ p[2] \in Objects /\ objects[p[2]].ready
               /\ p[1] = p[2] \/ \E e \in objects[p[2]].attached : e[2] = p[1]
               /\ \A q \in polled : p[2] = q[2] => p = q
          /\ \A x \in Objects : objects[x].ready => \E p \in polled : p[2] = x
      BY <1>1 DEF NodeInv, NodeUp, Registered, Up
    <3>2. PICK p \in polled : p[2] = o
      BY <2>1, <2>3, <3>1
    <3>3. p[1] \in InNode
      BY <2>5, <3>1, <3>2
    <3>4. p[1] \in running
      BY <1>2, <3>3
    <3> QED
      BY <3>1, <3>2, <3>4
  <2>8. Node!Cardinality({q \in polled : q[2] = o /\ q[1] \in running}) = 1
    BY <2>7, FS_Singleton, SameCardinality
  <2> QED
    BY <2>3, <2>4, <2>5, <2>6, <2>8 DEF Node!Complete, InNode, Uses, Before, Name
<1> QED
  BY <1>4, <1>5, <1>8 DEF Node!Stored, InNode

\* A node in operation has all modules of its configuration, each of them initialised once,
\* with the modules attached to it being the ones of the node, and polled by one running
\* thread, for every configuration - unless a module has two objects (create_modules,
\* get_module and start_modules of secnode.py, Attached.__get__, initModule).
THEOREM NodeIsComplete == NodeSpec => []NodeComplete
<1> USE ModulesAssumption
<1>1. Node!Init => NodeInv
  BY BaseInit, RestInit DEF NodeInv
<1>2. NodeInv /\ [Node!Next]_nodeVars => NodeInv'
  BY InvNext, InvStutters
<1>3. NodeInv => NodeComplete
  BY RunsComplete
<1> QED
  BY <1>1, <1>2, <1>3, PTL DEF NodeSpec

-----------------------------------------------------------------------------
(* The search of _getSortedModules.                                        *)

\* The top of a stack is replaced.
LEMMA TopReplaced ==
  ASSUME NEW S, NEW q \in Seq(S), q # << >>, NEW x \in S
  PROVE  LET r == Append(Node!Front(q), x) IN
         /\ r \in Seq(S) /\ Len(r) = Len(q) /\ r[Len(q)] = x
         /\ \A i \in 1 .. Len(q) - 1 : r[i] = q[i]
<1> DEFINE f == Node!Front(q)
<1>1. f \in Seq(S) /\ Len(f) = Len(q) - 1 /\ (\A i \in 1 .. Len(q) - 1 : f[i] = q[i])
      /\ Len(q) \in Nat
  BY FrontSeq
<1> HIDE DEF f
<1>2. /\ Append(f, x) \in Seq(S) /\ Len(Append(f, x)) = Len(f) + 1 /\ Append(f, x)[Len(f) + 1] = x
      /\ \A i \in 1 .. Len(f) : Append(f, x)[i] = f[i]
  BY <1>1, AppendSet
<1>3. Append(f, x) \in Seq(S) /\ Len(Append(f, x)) = Len(q) /\ Append(f, x)[Len(q)] = x
      /\ \A i \in 1 .. Len(q) - 1 : Append(f, x)[i] = q[i]
  BY <1>1, <1>2
<1> QED
  BY <1>3 DEF f

LEMMA ReverseIs ==
  ASSUME NEW S, NEW q \in Seq(S)
  PROVE  /\ Node!Reverse(q) \in Seq(S) /\ Len(Node!Reverse(q)) = Len(q)
         /\ \A i \in 1 .. Len(q) : Node!Reverse(q)[i] = q[Len(q) - i + 1]
         /\ Node!ToSet(Node!Reverse(q)) = Node!ToSet(q)
         /\ Injective(q) => Injective(Node!Reverse(q))
<1> DEFINE r == Node!Reverse(q)  L == Len(q)
<1>1. L \in Nat /\ DOMAIN q = 1 .. L /\ \A i \in 1 .. L : q[i] \in S
  OBVIOUS
<1>2. r = [i \in 1 .. L |-> q[(L - i) + 1]]
  BY DEF Node!Reverse
<1> HIDE DEF r, L
<1>3. \A i \in 1 .. L : (L - i) + 1 \in 1 .. L /\ L - ((L - i) + 1) + 1 = i
  BY <1>1
<1>4. r \in Seq(S) /\ Len(r) = L /\ DOMAIN r = 1 .. L /\ \A i \in 1 .. L : r[i] = q[(L - i) + 1]
  BY <1>1, <1>2, <1>3
<1>5. Node!ToSet(r) = Node!ToSet(q)
  BY <1>1, <1>3, <1>4 DEF Node!ToSet
<1>6. ASSUME Injective(q) PROVE Injective(r)
  <2> SUFFICES ASSUME NEW i \in 1 .. L, NEW j \in 1 .. L, r[i] = r[j] PROVE i = j
    BY <1>4 DEF Injective
  <2>1. (L - i) + 1 = (L - j) + 1
    BY <1>1, <1>3, <1>4, <1>6 DEF Injective
  <2> QED
    BY <1>1, <2>1
<1>7. \A i \in 1 .. L : r[i] = q[L - i + 1]
  BY <1>4
<1> QED
  BY <1>4, <1>5, <1>6, <1>7 DEF r, L

\* Two lists without a common element.
LEMMA ConcatInjective ==
  ASSUME NEW S, NEW q \in Seq(S), NEW r \in Seq(S), Injective(q), Injective(r),
         Node!ToSet(q) \cap Node!ToSet(r) = {}
  PROVE  Injective(q \o r)
<1> DEFINE c == q \o r  L == Len(q)  M == Len(r)
<1>1. /\ Len(c) = L + M /\ DOMAIN c = 1 .. L + M
      /\ \A i \in 1 .. L + M : c[i] = IF i <= L THEN q[i] ELSE r[i - L]
      /\ L \in Nat /\ M \in Nat /\ DOMAIN q = 1 .. L /\ DOMAIN r = 1 .. M
  BY ConcatProperties
<1> HIDE DEF c, L, M
<1> SUFFICES ASSUME NEW i \in 1 .. L + M, NEW j \in 1 .. L + M, c[i] = c[j] PROVE i = j
  BY <1>1 DEF Injective, c
<1>2. CASE i <= L /\ j <= L
  <2>1. i \in 1 .. L /\ j \in 1 .. L /\ q[i] = q[j]
    BY <1>1, <1>2
  <2> QED
    BY <1>1, <2>1 DEF Injective
<1>3. CASE ~(i <= L) /\ ~(j <= L)
  <2>1. i - L \in 1 .. M /\ j - L \in 1 .. M /\ r[i - L] = r[j - L]
    BY <1>1, <1>3
  <2>2. i - L = j - L
    BY <1>1, <2>1 DEF Injective
  <2> QED
    BY <1>1, <2>2
<1>4. CASE i <= L /\ ~(j <= L)
  <2>1. i \in 1 .. L /\ j - L \in 1 .. M /\ q[i] = r[j - L]
    BY <1>1, <1>4
  <2>2. q[i] \in Node!ToSet(q) /\ r[j - L] \in Node!ToSet(r)
    BY <1>1, <2>1 DEF Node!ToSet
  <2> QED
    BY <2>1, <2>2
<1>5. CASE ~(i <= L) /\ j <= L
  <2>1. j \in 1 .. L /\ i - L \in 1 .. M /\ q[j] = r[i - L]
    BY <1>1, <1>5
  <2>2. q[j] \in Node!ToSet(q) /\ r[i - L] \in Node!ToSet(r)
    BY <1>1, <2>1 DEF Node!ToSet
  <2> QED
    BY <2>1, <2>2
<1> QED
  BY <1>2, <1>3, <1>4, <1>5

\* What a module uses is in the node once all of them are made.
LEMMA UsedAreStored ==
  ASSUME NodeMade, phase \in Made, ModuleCount \in Nat
  PROVE  /\ Stored \subseteq Everything /\ IsFiniteSet(Stored)
         /\ \A n \in Stored : Node!UsedBy(n) \subseteq Stored /\ Node!UsedBy(n) \subseteq Uses(n)
<1>1. \A o \in InNode : o \in Objects /\ Name(o) \in Everything
  BY ObjectTyped DEF NodeMade, NodeTyped
<1>2. Stored \subseteq Everything
  BY <1>1 DEF Stored
<1>3. IsFiniteSet(Stored)
  <2>1. Everything \subseteq 1 .. ModuleCount + 1
    BY DEF Everything, Node!Names, Node!Auto
  <2>2. IsFiniteSet(1 .. ModuleCount + 1)
    BY FS_Interval
  <2>3. Stored \subseteq 1 .. ModuleCount + 1
    BY <1>2, <2>1
  <2> QED
    BY <2>2, <2>3, FS_Subset, Zenon
<1>4. \A n : n \in Stored <=> Node!Stored(n)
  BY DEF Stored, Node!Stored, Name, InNode
<1>5. \A o \in Objects : Node!Stored(Name(o))
  <2> SUFFICES ASSUME NEW o \in Objects PROVE Node!Stored(Name(o))
    OBVIOUS
  <2>1. CASE Name(o) \in Node!Names
    BY <2>1 DEF NodeMade, Dictionary, AllMade
  <2>2. CASE Name(o) = Node!Auto
    BY <2>2 DEF NodeMade, Dictionary
  <2> QED
    BY <2>1, <2>2, ObjectTyped DEF Everything
<1>6. ASSUME NEW n \in Stored
      PROVE  Node!UsedBy(n) \subseteq Stored /\ Node!UsedBy(n) \subseteq Uses(n)
  <2> DEFINE o == Node!ObjectOf(n)
  <2>1. o \in InNode /\ Name(o) = n
    BY <1>4, ObjectIs
  <2>2. o \in Objects
    BY <1>1, <2>1
  <2>3. Node!UsedBy(n) = {e[1] : e \in objects[o].attached}
    BY DEF Node!UsedBy
  <2> HIDE DEF o
  <2>4. \A e \in objects[o].attached : e[2] \in Objects /\ Name(e[2]) = e[1] /\ e[1] \in Uses(n)
    BY <2>1, <2>2 DEF NodeMade, Dictionary
  <2>5. \A e \in objects[o].attached : e[1] \in Stored
    BY <1>4, <1>5, <2>4
  <2> QED
    BY <2>3, <2>4, <2>5
<1> QED
  BY <1>2, <1>3, <1>6

LEMMA UsedStays ==
  ASSUME UNCHANGED <<objects, modules>>
  PROVE  (\A n : Node!UsedBy(n)' = Node!UsedBy(n)) /\ Stored' = Stored
<1>1. \A n : Node!ObjectOf(n)' = Node!ObjectOf(n)
  BY DEF Node!ObjectOf
<1> QED
  BY <1>1 DEF Node!UsedBy, Stored, InNode, Name

\* What Sorting says while the modules stay as they are.
LEMMA SortingIs ==
  ASSUME UNCHANGED <<objects, modules>>, Sorts(unmarked', path', sorted')
  PROVE  Sorting'
<1>1. (\A n : Node!UsedBy(n)' = Node!UsedBy(n)) /\ Stored' = Stored
  BY UsedStays
<1>2. Sorts(unmarked, path, sorted)' <=> Sorts(unmarked', path', sorted')
  BY <1>1 DEF Sorts, UsedFirst, OnPath, Placed, OncePlaced, Remembered, Linked
<1> QED
  BY <1>2 DEF Sorting

LEMMA PathIs ==
  ASSUME NEW un, NEW p, NEW q, Placed(un, p, q)
  PROVE  /\ p \in Seq(PathSet) /\ Len(p) \in Nat /\ DOMAIN p = 1 .. Len(p)
         /\ \A i \in 1 .. Len(p) : /\ p[i] \in PathSet /\ p[i].name \in OnPath(p)
                                   /\ p[i].name \in Stored /\ p[i].name \in Everything
<1>1. p \in Seq(PathSet)
  BY DEF Placed
<1>2. Len(p) \in Nat /\ DOMAIN p = 1 .. Len(p) /\ \A i \in 1 .. Len(p) : p[i] \in PathSet
  BY <1>1
<1>3. \A i \in 1 .. Len(p) : p[i].name \in OnPath(p)
  BY <1>2 DEF OnPath
<1>4. OnPath(p) \subseteq Stored
  BY DEF Placed
<1>5. \A i \in 1 .. Len(p) : p[i].name \in Everything
  BY <1>2 DEF PathSet
<1> QED
  BY <1>1, <1>2, <1>3, <1>4, <1>5

\* The path, after the module n was taken from those the top still has to look at.
LEMMA RestTaken ==
  ASSUME NEW p \in Seq(PathSet), p # << >>, NEW n
  PROVE  LET L == Len(p)  r == Append(Node!Front(p), [p[L] EXCEPT !.rest = @ \ {n}]) IN
         /\ r \in Seq(PathSet) /\ Len(r) = L
         /\ \A i \in 1 .. L : /\ r[i].name = p[i].name
                              /\ r[i].rest = IF i = L THEN p[i].rest \ {n} ELSE p[i].rest
<1> DEFINE L == Len(p)  top == [p[L] EXCEPT !.rest = @ \ {n}]  r == Append(Node!Front(p), top)
<1>1. L \in Nat /\ L >= 1 /\ p[L] \in PathSet
  BY FrontSeq
<1>2. top \in PathSet /\ top.name = p[L].name /\ top.rest = p[L].rest \ {n}
  BY <1>1 DEF PathSet
<1> HIDE DEF top
<1>3. r \in Seq(PathSet) /\ Len(r) = L /\ r[L] = top /\ \A i \in 1 .. L - 1 : r[i] = p[i]
  BY <1>2, TopReplaced
<1> HIDE DEF r, L
<1>4. ASSUME NEW i \in 1 .. L
      PROVE  /\ r[i].name = p[i].name
             /\ r[i].rest = IF i = L THEN p[i].rest \ {n} ELSE p[i].rest
  <2>1. CASE i = L
    BY <1>2, <1>3, <2>1
  <2>2. CASE i # L
    <3>1. i \in 1 .. L - 1
      BY <1>1, <2>2
    <3> QED
      BY <1>3, <2>2, <3>1
  <2> QED
    BY <2>1, <2>2
<1>5. /\ r \in Seq(PathSet) /\ Len(r) = L
      /\ \A i \in 1 .. L : /\ r[i].name = p[i].name
                           /\ r[i].rest = IF i = L THEN p[i].rest \ {n} ELSE p[i].rest
  BY <1>3, <1>4
<1> QED
  BY <1>5 DEF r, L, top

\* A module which is sorted already needs not be visited.
LEMMA SortsTaken ==
  ASSUME NEW un, NEW p, NEW q, Sorts(un, p, q), NEW n \in Node!ToSet(q),
         NEW r \in Seq(PathSet), NEW L, L = Len(p), Len(r) = L,
         \A i \in 1 .. L : /\ r[i].name = p[i].name
                           /\ r[i].rest = IF i = L THEN p[i].rest \ {n} ELSE p[i].rest
  PROVE  Sorts(un, r, q)
<1>1. L \in Nat /\ DOMAIN p = 1 .. L /\ DOMAIN r = 1 .. L
  BY PathIs DEF Sorts
<1>2. Placed(un, r, q)
  <2>1. OnPath(r) = OnPath(p)
    BY <1>1 DEF OnPath
  <2> QED
    BY <2>1 DEF Sorts, Placed
<1>3. OncePlaced(r, q)
  BY DEF Sorts, OncePlaced
<1>4. Linked(r)
  <2> SUFFICES ASSUME NEW i \in 1 .. L - 1 PROVE r[i+1].name \in Node!UsedBy(r[i].name)
    BY DEF Linked
  <2>1. i \in 1 .. L /\ i + 1 \in 1 .. L
    BY <1>1
  <2>2. p[i+1].name \in Node!UsedBy(p[i].name)
    BY DEF Sorts, Linked
  <2> QED
    BY <2>1, <2>2
<1>5. Remembered(r, q)
  <2> SUFFICES ASSUME NEW i \in 1 .. L
               PROVE  /\ r[i].rest \subseteq Node!UsedBy(p[i].name)
                      /\ \A m \in Node!UsedBy(p[i].name) \ r[i].rest :
                           m \in Node!ToSet(q) \/ (i < L /\ m = r[i+1].name)
    BY DEF Remembered
  <2>1. /\ p[i].rest \subseteq Node!UsedBy(p[i].name)
        /\ \A m \in Node!UsedBy(p[i].name) \ p[i].rest :
             m \in Node!ToSet(q) \/ (i < L /\ m = p[i+1].name)
    BY DEF Sorts, Remembered
  <2>2. i < L => r[i+1].name = p[i+1].name
    <3>1. i < L => i + 1 \in 1 .. L
      BY <1>1
    <3> QED
      BY <3>1
  <2>3. r[i].rest \subseteq p[i].rest /\ \A m \in p[i].rest \ r[i].rest : m = n
    OBVIOUS
  <2> QED
    BY <2>1, <2>2, <2>3
<1> QED
  BY <1>2, <1>3, <1>4, <1>5 DEF Sorts

\* A module is visited, from the top or as the first one.
Deepens(p, n, s) ==
  LET L == Len(p) IN
  /\ L > 0 => n \in Node!UsedBy(p[L].name)
  /\ s \in Seq(PathSet) /\ Len(s) = L + 1
  /\ s[L + 1].name = n /\ s[L + 1].rest = Node!UsedBy(n)
  /\ \A i \in 1 .. L : /\ s[i].name = p[i].name
                        /\ s[i].rest = IF i = L THEN p[i].rest \ {n} ELSE p[i].rest

LEMMA SortsDeeper ==
  ASSUME UsedKnown, NEW un, NEW p, NEW q, Sorts(un, p, q), NEW n, n \in un, NEW s, Deepens(p, n, s)
  PROVE  Sorts(un \ {n}, s, q)
<1> DEFINE L == Len(p)
<1>0. /\ L > 0 => n \in Node!UsedBy(p[L].name)
      /\ s \in Seq(PathSet) /\ Len(s) = L + 1 /\ L = Len(p)
      /\ s[L + 1].name = n /\ s[L + 1].rest = Node!UsedBy(n)
      /\ \A i \in 1 .. L : /\ s[i].name = p[i].name
                            /\ s[i].rest = IF i = L THEN p[i].rest \ {n} ELSE p[i].rest
  BY DEF Deepens
<1> HIDE DEF L
<1> USE <1>0
<1>1. L \in Nat /\ DOMAIN p = 1 .. L /\ DOMAIN s = 1 .. L + 1 /\ \A i \in 1 .. L : p[i].name \in OnPath(p)
  BY PathIs DEF Sorts
<1>2. n \notin OnPath(p) /\ n \notin Node!ToSet(q) /\ n \in Stored
  BY DEF Sorts, Placed
<1>3. \A i \in 1 .. L + 1 : i = L + 1 \/ i \in 1 .. L
  BY <1>1
<1>4. \A i \in 1 .. L : i \in 1 .. L + 1
  BY <1>1
<1>5. L + 1 \in 1 .. L + 1
  BY <1>1
<1>6. Placed(un \ {n}, s, q)
  <2>1. \A x \in OnPath(s) : x \in OnPath(p) \/ x = n
    <3>1. \A i \in 1 .. L + 1 : s[i].name = n \/ s[i].name \in OnPath(p)
      <4>1. \A i \in 1 .. L : s[i].name \in OnPath(p)
        BY <1>1
      <4> QED
        BY <1>3, <4>1
    <3>2. OnPath(s) = {s[i].name : i \in 1 .. L + 1}
      BY <1>1 DEF OnPath
    <3> QED
      BY <3>1, <3>2
  <2>2. \A x \in OnPath(p) : x \in OnPath(s)
    BY <1>1, <1>4 DEF OnPath
  <2>3. n \in OnPath(s)
    BY <1>1, <1>5 DEF OnPath
  <2>4. OnPath(s) = OnPath(p) \cup {n}
    BY <2>1, <2>2, <2>3
  <2> QED
    BY <1>2, <2>4 DEF Sorts, Placed
<1>7. OncePlaced(s, q)
  <2>1. \A i, j \in 1 .. L : p[i].name = p[j].name => i = j
    BY DEF Sorts, OncePlaced
  <2>2. \A i \in 1 .. L : s[i].name = p[i].name /\ s[i].name # n
    BY <1>1, <1>2
  <2>3. \A i, j \in 1 .. L + 1 : s[i].name = s[j].name => i = j
    <3> SUFFICES ASSUME NEW i \in 1 .. L + 1, NEW j \in 1 .. L + 1, s[i].name = s[j].name PROVE i = j
      OBVIOUS
    <3>1. (i = L + 1 \/ i \in 1 .. L) /\ (j = L + 1 \/ j \in 1 .. L)
      BY <1>3
    <3> QED
      BY <2>1, <2>2, <3>1
  <2> QED
    BY <2>3 DEF Sorts, OncePlaced
<1>8. Linked(s)
  <2> SUFFICES ASSUME NEW i \in 1 .. L PROVE s[i+1].name \in Node!UsedBy(s[i].name)
    BY <1>1 DEF Linked
  <2>1. CASE i = L
    <3>1. L > 0 /\ s[i].name = p[L].name
      <4>1. s[i].name = p[i].name
        OBVIOUS
      <4>2. L > 0
        BY <1>1
      <4> QED
        BY <2>1, <4>1, <4>2
    <3>2. s[i+1].name = n
      BY <2>1
    <3> QED
      BY <3>1, <3>2
  <2>2. CASE i # L
    <3>1. i \in 1 .. L - 1 /\ i + 1 \in 1 .. L
      BY <1>1, <2>2
    <3>2. p[i+1].name \in Node!UsedBy(p[i].name)
      BY <3>1 DEF Sorts, Linked
    <3> QED
      BY <3>1, <3>2
  <2> QED
    BY <2>1, <2>2
<1>9. Remembered(s, q)
  <2> SUFFICES ASSUME NEW i \in 1 .. L + 1
               PROVE  /\ s[i].rest \subseteq Node!UsedBy(s[i].name)
                      /\ \A m \in Node!UsedBy(s[i].name) \ s[i].rest :
                           m \in Node!ToSet(q) \/ (i < L + 1 /\ m = s[i+1].name)
    BY DEF Remembered
  <2>1. CASE i = L + 1
    BY <2>1
  <2>2. CASE i \in 1 .. L
    <3>1. /\ p[i].rest \subseteq Node!UsedBy(p[i].name)
          /\ \A m \in Node!UsedBy(p[i].name) \ p[i].rest :
               m \in Node!ToSet(q) \/ (i < L /\ m = p[i+1].name)
      BY <2>2 DEF Sorts, Remembered
    <3>2. i < L + 1 /\ (i < L => i + 1 \in 1 .. L) /\ (~(i < L) => i = L)
      BY <1>1, <2>2
    <3>3. s[i].name = p[i].name /\ s[i].rest = IF i = L THEN p[i].rest \ {n} ELSE p[i].rest
      BY <2>2
    <3>4. CASE i = L
      BY <3>1, <3>2, <3>3, <3>4
    <3>5. CASE i < L
      <4>1. s[i+1].name = p[i+1].name /\ s[i].rest = p[i].rest
        <5>1. i # L /\ i + 1 \in 1 .. L
          BY <1>1, <3>2, <3>5
        <5>2. s[i+1].name = p[i+1].name
          BY <5>1
        <5> QED
          BY <3>3, <5>1, <5>2
      <4> QED
        BY <3>1, <3>2, <3>3, <4>1
    <3> QED
      BY <3>2, <3>4, <3>5
  <2> QED
    BY <1>3, <2>1, <2>2
<1> QED
  BY <1>6, <1>7, <1>8, <1>9 DEF Sorts

\* A module is sorted after all it uses.
LEMMA SortsLeft ==
  ASSUME NEW un, NEW p, NEW q, Sorts(un, p, q), p # << >>, NEW L, L = Len(p), p[L].rest = {}
  PROVE  Sorts(un, Node!Front(p), Append(q, p[L].name))
<1> DEFINE f == Node!Front(p)  n == p[L].name  r == Append(q, n)
<1>1. /\ p \in Seq(PathSet) /\ L \in Nat /\ DOMAIN p = 1 .. L
      /\ \A i \in 1 .. L : p[i] \in PathSet /\ p[i].name \in OnPath(p)
                           /\ p[i].name \in Stored /\ p[i].name \in Everything
  BY PathIs DEF Sorts
<1>2. /\ f \in Seq(PathSet) /\ Len(f) = L - 1 /\ L >= 1 /\ \A i \in 1 .. L - 1 : f[i] = p[i]
  BY <1>1, FrontSeq
<1>3. L \in 1 .. L /\ \A i \in 1 .. L : i = L \/ i \in 1 .. L - 1
  BY <1>1, <1>2
<1>4. n \in OnPath(p) /\ n \in Everything
  BY <1>1, <1>3
<1>5. q \in Seq(Everything)
  BY DEF Sorts, Placed
<1>6. /\ r \in Seq(Everything) /\ Node!ToSet(r) = Node!ToSet(q) \cup {n} /\ Len(r) = Len(q) + 1
      /\ r[Len(q) + 1] = n /\ \A i \in 1 .. Len(q) : r[i] = q[i]
  BY <1>4, <1>5, AppendSet
<1>7. DOMAIN r = 1 .. Len(q) + 1 /\ DOMAIN q = 1 .. Len(q) /\ Len(q) \in Nat
      /\ DOMAIN f = 1 .. L - 1
  BY <1>2, <1>5, <1>6
<1>8. n \notin Node!ToSet(q)
  BY <1>4 DEF Sorts, Placed
<1> HIDE DEF f, r
<1>9. \A i \in 1 .. L - 1 : i \in 1 .. L /\ i # L
  BY <1>1
<1>10. \A i, j \in 1 .. L : p[i].name = p[j].name => i = j
  BY DEF Sorts, OncePlaced
<1>11. \A i \in 1 .. L - 1 : f[i].name = p[i].name /\ f[i].name # n
  BY <1>2, <1>3, <1>9, <1>10
<1> HIDE DEF n
<1>12. Placed(un, f, r)
  <2>1. OnPath(f) = {p[i].name : i \in 1 .. L - 1}
    BY <1>2, <1>7 DEF OnPath
  <2>2. OnPath(p) = OnPath(f) \cup {n}
    <3>1. \A x \in OnPath(p) : x \in OnPath(f) \/ x = n
      BY <1>1, <1>3, <2>1 DEF OnPath, n
    <3>2. \A x \in OnPath(f) : x \in OnPath(p)
      BY <1>1, <1>9, <2>1 DEF OnPath
    <3> QED
      BY <1>4, <3>1, <3>2
  <2>3. n \notin OnPath(f)
    <3>1. OnPath(f) = {f[i].name : i \in 1 .. L - 1}
      BY <1>7 DEF OnPath
    <3> QED
      BY <1>11, <3>1
  <2> QED
    BY <1>2, <1>6, <2>2, <2>3 DEF Sorts, Placed
<1>13. OncePlaced(f, r)
  <2>1. \A i, j \in 1 .. L - 1 : f[i].name = f[j].name => i = j
    BY <1>9, <1>10, <1>11
  <2>2. \A i \in 1 .. Len(q) : r[i] # n
    BY <1>6, <1>7, <1>8 DEF Node!ToSet
  <2>3. \A i, j \in 1 .. Len(q) : r[i] = r[j] => i = j
    BY <1>6, <1>7 DEF Sorts, OncePlaced, Injective
  <2>4. Injective(r)
    <3> SUFFICES ASSUME NEW i \in 1 .. Len(q) + 1, NEW j \in 1 .. Len(q) + 1, r[i] = r[j] PROVE i = j
      BY <1>7 DEF Injective
    <3>1. (i = Len(q) + 1 \/ i \in 1 .. Len(q)) /\ (j = Len(q) + 1 \/ j \in 1 .. Len(q))
      BY <1>7
    <3> QED
      BY <1>6, <2>2, <2>3, <3>1
  <2> QED
    BY <1>2, <2>1, <2>4 DEF OncePlaced
<1>14. Linked(f)
  <2> SUFFICES ASSUME NEW i \in 1 .. L - 1 - 1 PROVE f[i+1].name \in Node!UsedBy(f[i].name)
    BY <1>2 DEF Linked
  <2>1. i \in 1 .. L - 1 /\ i + 1 \in 1 .. L - 1
    BY <1>1
  <2>2. p[i+1].name \in Node!UsedBy(p[i].name)
    BY <2>1 DEF Sorts, Linked
  <2> QED
    BY <1>11, <2>1, <2>2
<1>15. \A i \in 1 .. L : /\ p[i].rest \subseteq Node!UsedBy(p[i].name)
                         /\ \A m \in Node!UsedBy(p[i].name) \ p[i].rest :
                              m \in Node!ToSet(q) \/ (i < L /\ m = p[i+1].name)
  BY DEF Sorts, Remembered
<1>16. Remembered(f, r)
  <2> SUFFICES ASSUME NEW i \in 1 .. L - 1
               PROVE  /\ f[i].rest \subseteq Node!UsedBy(f[i].name)
                      /\ \A m \in Node!UsedBy(f[i].name) \ f[i].rest :
                           m \in Node!ToSet(r) \/ (i < L - 1 /\ m = f[i+1].name)
    BY <1>2 DEF Remembered
  <2>1. f[i] = p[i] /\ i \in 1 .. L
    BY <1>2, <1>9
  <2>2. \/ i + 1 = L
        \/ i < L - 1 /\ i + 1 \in 1 .. L - 1
    BY <1>1
  <2>3. CASE i + 1 = L
    BY <1>6, <1>15, <2>1, <2>3 DEF n
  <2>4. CASE i < L - 1 /\ i + 1 \in 1 .. L - 1
    <3>1. f[i+1] = p[i+1]
      BY <1>2, <2>4
    <3> QED
      BY <1>6, <1>15, <2>1, <2>4, <3>1
  <2> QED
    BY <2>2, <2>3, <2>4
<1>17. UsedFirst(r)
  <2> SUFFICES ASSUME NEW i \in 1 .. Len(q) + 1, NEW m \in Node!UsedBy(r[i])
               PROVE  \E j \in 1 .. Len(q) + 1 : j < i /\ r[j] = m
    BY <1>7 DEF UsedFirst
  <2>1. \A j \in 1 .. Len(q) : j \in 1 .. Len(q) + 1 /\ j < Len(q) + 1
    BY <1>7
  <2>2. CASE i = Len(q) + 1
    <3>1. m \in Node!UsedBy(p[L].name)
      BY <1>6, <2>2 DEF n
    <3>2. m \in Node!ToSet(q)
      BY <1>1, <1>3, <1>15, <3>1
    <3>3. PICK j \in 1 .. Len(q) : q[j] = m
      BY <1>7, <3>2 DEF Node!ToSet
    <3> QED
      BY <1>6, <2>1, <2>2, <3>3
  <2>3. CASE i \in 1 .. Len(q)
    <3>1. PICK j \in 1 .. Len(q) : j < i /\ q[j] = m
      BY <1>6, <1>7, <2>3 DEF Sorts, UsedFirst
    <3> QED
      BY <1>6, <2>1, <3>1
  <2>4. i = Len(q) + 1 \/ i \in 1 .. Len(q)
    BY <1>7
  <2> QED
    BY <2>2, <2>3, <2>4
<1> QED
  BY <1>12, <1>13, <1>14, <1>16, <1>17 DEF Sorts, f, r, n

\* When all are sorted, each one comes before those it uses in the reversed order.
LEMMA SortedReversed ==
  ASSUME NEW q, Sorts({}, << >>, q), NEW r, r = Node!Reverse(q)
  PROVE  r \in Seq(Everything) /\ Injective(r) /\ Node!ToSet(r) = Stored /\ Ordered(r)
<1> DEFINE L == Len(q)
<1>1. /\ q \in Seq(Everything) /\ Injective(q) /\ UsedFirst(q) /\ Node!ToSet(q) = Stored
  <2>1. OnPath(<< >>) = {}
    BY DEF OnPath
  <2> QED
    BY <2>1 DEF Sorts, Placed, OncePlaced
<1>2. /\ r \in Seq(Everything) /\ Len(r) = L /\ \A i \in 1 .. L : r[i] = q[L - i + 1]
      /\ Node!ToSet(r) = Node!ToSet(q) /\ Injective(r)
  BY <1>1, ReverseIs
<1>3. L \in Nat /\ DOMAIN q = 1 .. L /\ DOMAIN r = 1 .. L
  BY <1>1, <1>2
<1> HIDE DEF L
<1>4. ASSUME NEW i \in 1 .. L, NEW n \in Node!UsedBy(r[i])
      PROVE  \E j \in 1 .. L : i < j /\ r[j] = n
  <2>1. L - i + 1 \in 1 .. L /\ r[i] = q[L - i + 1]
    BY <1>2, <1>3
  <2>2. PICK k \in 1 .. L : k < L - i + 1 /\ q[k] = n
    BY <1>1, <1>3, <2>1 DEF UsedFirst
  <2>3. L - k + 1 \in 1 .. L /\ i < L - k + 1 /\ L - (L - k + 1) + 1 = k
    BY <1>3, <2>2
  <2> QED
    BY <1>2, <2>2, <2>3
<1>5. Ordered(r)
  BY <1>3, <1>4 DEF Ordered
<1> QED
  BY <1>1, <1>2, <1>5

\* The search gives up only when modules are attached to each other.
LEMMA CycleFound ==
  ASSUME NodeMade, phase \in Made, ModuleCount \in Nat, NEW un, NEW p, NEW q, Sorts(un, p, q),
         NEW L, L = Len(p), p # << >>, NEW n \in p[L].rest, n \in OnPath(p)
  PROVE  ~Node!Acyclic
<1>1. /\ p \in Seq(PathSet) /\ L \in Nat /\ L >= 1 /\ DOMAIN p = 1 .. L
      /\ \A i \in 1 .. L : p[i].name \in Stored /\ p[i].name \in Everything
  BY PathIs, FrontSeq DEF Sorts
<1>2. PICK k \in 1 .. L : p[k].name = n
  BY <1>1 DEF OnPath
<1>3. n \in Node!UsedBy(p[L].name)
  <2>1. L \in 1 .. L
    BY <1>1
  <2> QED
    BY <2>1 DEF Sorts, Remembered
<1> DEFINE s == {p[i].name : i \in k .. L}
<1>4. \A i \in k .. L : i \in 1 .. L /\ (i = L \/ (i \in 1 .. L - 1 /\ i + 1 \in k .. L))
  BY <1>1
<1>5. k \in k .. L
  BY <1>1
<1>6. \A i \in k .. L : \E m \in s : m \in Node!UsedBy(p[i].name)
  <2> SUFFICES ASSUME NEW i \in k .. L PROVE \E m \in s : m \in Node!UsedBy(p[i].name)
    OBVIOUS
  <2>1. CASE i = L
    BY <1>2, <1>3, <1>5, <2>1
  <2>2. CASE i \in 1 .. L - 1 /\ i + 1 \in k .. L
    <3>1. p[i+1].name \in Node!UsedBy(p[i].name)
      BY <2>2 DEF Sorts, Linked
    <3> QED
      BY <2>2, <3>1
  <2> QED
    BY <1>4, <2>1, <2>2
<1>7. \A i \in k .. L : p[i].name \in Node!Names
  <2> SUFFICES ASSUME NEW i \in k .. L PROVE p[i].name \in Node!Names
    OBVIOUS
  <2>1. Node!UsedBy(p[i].name) # {}
    BY <1>6
  <2>2. p[i].name \in Stored /\ p[i].name \in Everything
    BY <1>1, <1>4
  <2>3. Uses(p[i].name) # {}
    BY <2>1, <2>2, UsedAreStored
  <2>4. Uses(Node!Auto) = {}
    BY Reads DEF NodeMade, NodeTyped, Everything
  <2> QED
    BY <2>2, <2>3, <2>4 DEF Everything
<1>8. s \in SUBSET Node!Names /\ s # {}
  BY <1>5, <1>7
<1>9. \A x \in s : \E m \in s : m \in Node!UsedBy(x)
  BY <1>6
<1> HIDE DEF s
<1> QED
  BY <1>8, <1>9 DEF Node!Acyclic

LEMMA CycleOrder ==
  ASSUME UsedKnown, NEW un, NEW p, NEW q, Sorts(un, p, q),
         NEW v \in Node!SetToSeqs(OnPath(p)), NEW w \in Node!SetToSeqs(un), NEW r,
         r = Node!Reverse(q) \o v \o w
  PROVE  r \in Seq(Everything) /\ Injective(r) /\ Node!ToSet(r) = Stored
<1>1. /\ q \in Seq(Everything) /\ Injective(q) /\ un \subseteq Stored /\ OnPath(p) \subseteq Stored
      /\ un \cup OnPath(p) \cup Node!ToSet(q) = Stored
      /\ un \cap OnPath(p) = {} /\ un \cap Node!ToSet(q) = {} /\ OnPath(p) \cap Node!ToSet(q) = {}
  BY DEF Sorts, Placed, OncePlaced
<1>2. IsFiniteSet(un) /\ IsFiniteSet(OnPath(p))
  BY <1>1, FS_Subset DEF UsedKnown
<1>3. v \in Seq(Everything) /\ Node!ToSet(v) = OnPath(p) /\ Injective(v)
  <2>1. v \in Seq(OnPath(p)) /\ Node!ToSet(v) = OnPath(p) /\ Injective(v)
    BY <1>2, ListsAreComplete
  <2>2. OnPath(p) \subseteq Everything
    BY <1>1 DEF UsedKnown
  <2> QED
    BY <2>1, <2>2, SeqMonotonic
<1>4. w \in Seq(Everything) /\ Node!ToSet(w) = un /\ Injective(w)
  <2>1. w \in Seq(un) /\ Node!ToSet(w) = un /\ Injective(w)
    BY <1>2, ListsAreComplete
  <2>2. un \subseteq Everything
    BY <1>1 DEF UsedKnown
  <2> QED
    BY <2>1, <2>2, SeqMonotonic
<1> DEFINE b == Node!Reverse(q)  c == b \o v
<1>5. b \in Seq(Everything) /\ Node!ToSet(b) = Node!ToSet(q) /\ Injective(b)
  BY <1>1, ReverseIs
<1>6. r = c \o w
  OBVIOUS
<1> HIDE DEF b
<1>7. c \in Seq(Everything) /\ Node!ToSet(c) = Node!ToSet(q) \cup OnPath(p) /\ Injective(c)
  <2>1. Node!ToSet(b) \cap Node!ToSet(v) = {}
    BY <1>1, <1>3, <1>5
  <2>2. Injective(b \o v)
    BY <1>3, <1>5, <2>1, ConcatInjective
  <2>3. b \o v \in Seq(Everything) /\ Node!ToSet(b \o v) = Node!ToSet(b) \cup Node!ToSet(v)
    BY <1>3, <1>5, ConcatSet
  <2> QED
    BY <1>3, <1>5, <2>2, <2>3
<1> HIDE DEF c
<1>8. Node!ToSet(c) \cap Node!ToSet(w) = {}
  BY <1>1, <1>4, <1>7
<1>9. Injective(c \o w)
  BY <1>4, <1>7, <1>8, ConcatInjective
<1>10. c \o w \in Seq(Everything) /\ Node!ToSet(c \o w) = Node!ToSet(c) \cup Node!ToSet(w)
  BY <1>4, <1>7, ConcatSet
<1>11. Node!ToSet(c \o w) = Stored
  BY <1>1, <1>4, <1>7, <1>10
<1> QED
  BY <1>6, <1>9, <1>10, <1>11

\* Modules are shut down one by one.
LEMMA OneShut ==
  ASSUME NEW S, NEW q \in Seq(S), NEW r \in Seq(S), r # << >>
  PROVE  /\ Append(q, Head(r)) \o Tail(r) = q \o r
         /\ Append(q, Head(r)) \in Seq(S) /\ Tail(r) \in Seq(S)
<1> DEFINE a == Append(q, Head(r))  t == Tail(r)
<1>1. Head(r) \in S /\ t \in Seq(S) /\ Len(t) = Len(r) - 1 /\ (\A i \in 1 .. Len(r) - 1 : t[i] = r[i + 1])
      /\ Len(r) \in Nat /\ Len(r) >= 1 /\ Head(r) = r[1]
  BY TailSet
<1>2. a \in Seq(S) /\ Len(a) = Len(q) + 1 /\ a[Len(q) + 1] = r[1] /\ \A i \in 1 .. Len(q) : a[i] = q[i]
      /\ Len(q) \in Nat
  BY <1>1, AppendSet
<1> HIDE DEF a, t
<1>3. /\ Len(a \o t) = Len(q) + Len(r) /\ a \o t \in Seq(S)
      /\ \A i \in 1 .. Len(q) + Len(r) : (a \o t)[i] = IF i <= Len(a) THEN a[i] ELSE t[i - Len(a)]
  <2>1. /\ Len(a \o t) = Len(a) + Len(t) /\ a \o t \in Seq(S)
        /\ \A i \in 1 .. Len(a) + Len(t) : (a \o t)[i] = IF i <= Len(a) THEN a[i] ELSE t[i - Len(a)]
    BY <1>1, <1>2, ConcatProperties
  <2>2. Len(a) + Len(t) = Len(q) + Len(r)
    BY <1>1, <1>2
  <2> QED
    BY <2>1, <2>2
<1>4. /\ Len(q \o r) = Len(q) + Len(r) /\ q \o r \in Seq(S)
      /\ \A i \in 1 .. Len(q) + Len(r) : (q \o r)[i] = IF i <= Len(q) THEN q[i] ELSE r[i - Len(q)]
  BY ConcatProperties
<1>5. ASSUME NEW i \in 1 .. Len(q) + Len(r) PROVE (a \o t)[i] = (q \o r)[i]
  <2>1. CASE i <= Len(q)
    <3>1. i \in 1 .. Len(q) /\ i <= Len(a)
      BY <1>1, <1>2, <2>1
    <3> QED
      BY <1>2, <1>3, <1>4, <2>1, <3>1
  <2>2. CASE i = Len(q) + 1
    <3>1. i <= Len(a) /\ ~(i <= Len(q)) /\ i - Len(q) = 1
      BY <1>1, <1>2, <2>2
    <3> QED
      BY <1>2, <1>3, <1>4, <2>2, <3>1
  <2>3. CASE i > Len(q) + 1
    <3>1. ~(i <= Len(a)) /\ ~(i <= Len(q)) /\ i - Len(a) \in 1 .. Len(r) - 1 /\ i - Len(a) + 1 = i - Len(q)
      BY <1>1, <1>2, <2>3
    <3> QED
      BY <1>1, <1>3, <1>4, <3>1
  <2> QED
    BY <1>1, <1>2, <2>1, <2>2, <2>3
<1>6. a \o t = q \o r
  <2> DEFINE x == a \o t  y == q \o r
  <2>1. x \in Seq(S) /\ y \in Seq(S) /\ Len(x) = Len(y) /\ \A i \in 1 .. Len(x) : x[i] = y[i]
    BY <1>3, <1>4, <1>5
  <2> HIDE DEF x, y
  <2>2. x = y
    BY <2>1, SeqEqual
  <2> QED
    BY <2>2 DEF x, y
<1> QED
  BY <1>1, <1>2, <1>6 DEF a, t

LEMMA AcyclicStays ==
  ASSUME UNCHANGED <<objects, modules>>
  PROVE  Node!Acyclic' = Node!Acyclic /\ \A q : Ordered(q)' = Ordered(q)
<1>1. \A n : Node!UsedBy(n)' = Node!UsedBy(n)
  BY UsedStays
<1>2. Node!Acyclic' = Node!Acyclic
  BY <1>1 DEF Node!Acyclic, Node!Names
<1> QED
  BY <1>1, <1>2 DEF Ordered

\* What Closing says once the order is known.
LEMMA ClosingIs ==
  ASSUME UNCHANGED <<objects, modules>>, phase' \in {"shutdown", "down"},
         phase' = "down" => order' = << >>,
         shut' \in Seq(Everything), order' \in Seq(Everything),
         NEW r, r = shut' \o order', Injective(r), Node!ToSet(r) = Stored, Ordered(r)
  PROVE  Closing' /\ Sorting'
<1>1. Stored' = Stored /\ Ordered(r)' = Ordered(r)
  BY UsedStays, AcyclicStays
<1>2. Final' = r
  BY DEF Final
<1>3. Ordered(Final)' <=> Ordered(r)
  BY <1>1, <1>2, AcyclicStays
<1>4. Everything' = Everything
  BY DEF Everything, Node!Names, Node!Auto
<1> QED
  BY <1>1, <1>2, <1>3, <1>4 DEF Closing, Sorting, Injective

LEMMA ShutNothing ==
  ASSUME phase' \notin {"shutdown", "down"}, shut' = << >>
  PROVE  Closing'
BY DEF Closing

LEMMA NotSorting ==
  ASSUME phase' # "sort"
  PROVE  Sorting'
BY DEF Sorting

LEMMA KnownIs ==
  ASSUME NodeMade, phase \in Made, ModuleCount \in Nat
  PROVE  UsedKnown
BY UsedAreStored DEF UsedKnown

\* Not yet shutting down: nothing was shut down.
LEMMA BeforeShutdown ==
  ASSUME ShutdownInv,
         Node!CreateModules \/ Node!GetModules \/ Node!StartModules \/ Node!StopPollThreads
  PROVE  Sorting' /\ Closing'
<1>1. /\ phase \in {"create", "scan", "init", "run"}
      /\ shut' = shut /\ phase' \in {"create", "scan", "init", "run", "failed", "join"}
  <2>1. nodeStack # << >> => phase \in {"scan", "init"}
    BY DEF ShutdownInv, NodeInv, NodeMade, Stack
  <2>2. CASE Node!CreateModules
    BY <2>2 DEF Node!CreateModules, Node!AlreadyCreated, Node!NotAClass, Node!Create, Node!Creating,
                Node!ScanModules, Node!AllCreated, Node!Initialise
  <2>3. CASE Node!GetModules
    BY <2>1, <2>3 DEF Node!GetModules, Node!AlreadyAttached, Node!AttachReady, Node!GetModule,
                Node!NoSuchModule, Node!RecursionError, Node!Initialised, Node!Checked, Node!Looking
  <2>4. CASE Node!StartModules
    BY <2>4 DEF Node!StartModules
  <2>5. CASE Node!StopPollThreads
    BY <2>5 DEF Node!StopPollThreads
  <2> QED
    BY <2>2, <2>3, <2>4, <2>5
<1>2. shut = << >>
  BY <1>1 DEF ShutdownInv, Closing
<1> QED
  BY <1>1, <1>2, ShutNothing, NotSorting

LEMMA SortingBegins ==
  ASSUME ShutdownInv, Node!JoinPollThreads, ModuleCount \in Nat
  PROVE  Sorting' /\ Closing'
<1>1. /\ phase = "join" /\ phase' = "sort" /\ shut' = shut /\ UNCHANGED <<objects, modules>>
      /\ unmarked' = Stored /\ path' = << >> /\ sorted' = << >>
  BY DEF Node!JoinPollThreads, Node!nodeVars, Stored, InNode, Name
<1>2. shut' = << >>
  BY <1>1 DEF ShutdownInv, Closing
<1>3. Stored \subseteq Everything
  BY <1>1, UsedAreStored DEF ShutdownInv, NodeInv, Made
<1>4. Sorts(Stored, << >>, << >>)
  <2>1. OnPath(<< >>) = {} /\ Node!ToSet(<< >>) = {}
    BY EmptySet DEF OnPath
  <2> QED
    BY <1>3, <2>1, EmptySet DEF Sorts, Placed, OncePlaced, Injective, UsedFirst, Remembered, Linked
<1> QED
  BY <1>1, <1>2, <1>4, ShutNothing, SortingIs

\* One step of the search.
LEMMA SortingGoesOn ==
  ASSUME ShutdownInv, Node!PickUnmarked \/ Node!Descend \/ Node!Leave, ModuleCount \in Nat
  PROVE  Sorting' /\ Closing'
<1>1. /\ phase = "sort" /\ phase' = "sort" /\ shut' = shut /\ UNCHANGED <<objects, modules>>
  BY DEF Node!PickUnmarked, Node!Descend, Node!Leave, Node!nodeVars
<1>2. shut' = << >>
  BY <1>1 DEF ShutdownInv, Closing
<1>3. UsedKnown
  BY <1>1, KnownIs DEF ShutdownInv, NodeInv, Made
<1>4. Sorts(unmarked, path, sorted)
  BY <1>1 DEF ShutdownInv, Sorting
<1>5. path \in Seq(PathSet)
  BY <1>4 DEF Sorts, Placed
<1>6. SUFFICES Sorts(unmarked', path', sorted')
  BY <1>1, <1>2, ShutNothing, SortingIs
<1>7. \A n \in Stored : LET x == Node!Visit(n) IN
         x \in PathSet /\ x.name = n /\ x.rest = Node!UsedBy(n)
  BY <1>3 DEF Node!Visit, PathSet, UsedKnown
<1>8. CASE Node!PickUnmarked
  <2>1. PICK n \in unmarked : path' = <<Node!Visit(n)>> /\ unmarked' = unmarked \ {n}
    BY <1>8 DEF Node!PickUnmarked
  <2>2. path = << >> /\ sorted' = sorted
    BY <1>8 DEF Node!PickUnmarked
  <2>3. n \in Stored
    BY <1>4 DEF Sorts, Placed
  <2> DEFINE x == Node!Visit(n)
  <2>4. x \in PathSet /\ x.name = n /\ x.rest = Node!UsedBy(n) /\ path' = <<x>>
    BY <1>7, <2>1, <2>3
  <2> HIDE DEF x
  <2>5. path' \in Seq(PathSet) /\ Len(path') = 0 + 1 /\ path'[0 + 1] = x /\ Len(path) = 0
    BY <2>2, <2>4
  <2>6. \A i \in 1 .. 0 : FALSE
    OBVIOUS
  <2>7. Sorts(unmarked \ {n}, path', sorted)
    <3>1. Deepens(path, n, path')
      BY <2>4, <2>5, <2>6 DEF Deepens
    <3> QED
      BY <1>3, <1>4, <3>1, SortsDeeper
  <2> QED
    BY <2>1, <2>2, <2>7
<1>9. CASE Node!Descend
  <2>1. path # << >> /\ sorted' = sorted /\ Node!Last(path) = path[Len(path)]
    BY <1>9 DEF Node!Descend, Node!Last
  <2> DEFINE L == Len(path)
  <2>2. PICK n \in path[L].rest :
          LET r == Append(Node!Front(path), [path[L] EXCEPT !.rest = @ \ {n}]) IN
          /\ n \in Node!ToSet(sorted) \/ n \notin Node!Visited
          /\ path' = IF n \in Node!ToSet(sorted) THEN r ELSE Append(r, Node!Visit(n))
          /\ unmarked' = unmarked \ {n}
    BY <1>9, <2>1 DEF Node!Descend
  <2> DEFINE r == Append(Node!Front(path), [path[L] EXCEPT !.rest = @ \ {n}])
  <2>3. /\ r \in Seq(PathSet) /\ Len(r) = L
        /\ \A i \in 1 .. L : /\ r[i].name = path[i].name
                             /\ r[i].rest = IF i = L THEN path[i].rest \ {n} ELSE path[i].rest
    BY <1>5, <2>1, RestTaken
  <2>4. /\ n \in Node!ToSet(sorted) \/ n \notin OnPath(path)
        /\ path' = IF n \in Node!ToSet(sorted) THEN r ELSE Append(r, Node!Visit(n))
        /\ unmarked' = unmarked \ {n}
    BY <2>2 DEF Node!Visited, OnPath
  <2> HIDE DEF r
  <2>5. L \in Nat /\ L >= 1 /\ L \in 1 .. L
    BY <1>5, <2>1
  <2>6. path[L].name \in Stored
    BY <1>4, <2>5, PathIs DEF Sorts
  <2>7. n \in Node!UsedBy(path[L].name) /\ n \in Stored
    BY <1>3, <1>4, <2>5, <2>6 DEF Sorts, Remembered, UsedKnown
  <2>8. CASE n \in Node!ToSet(sorted)
    <3>1. path' = r /\ unmarked' = unmarked
      BY <1>4, <2>4, <2>8 DEF Sorts, Placed
    <3>2. Sorts(unmarked, r, sorted)
      BY <1>4, <2>3, <2>8, SortsTaken
    <3> QED
      BY <2>1, <3>1, <3>2
  <2>9. CASE n \notin Node!ToSet(sorted)
    <3>1. n \in unmarked
      BY <1>4, <2>4, <2>7, <2>9 DEF Sorts, Placed
    <3> DEFINE x == Node!Visit(n)
    <3>2. x \in PathSet /\ x.name = n /\ x.rest = Node!UsedBy(n) /\ path' = Append(r, x)
      BY <1>7, <2>4, <2>7, <2>9
    <3> HIDE DEF x
    <3>3. /\ path' \in Seq(PathSet) /\ Len(path') = L + 1 /\ path'[L + 1] = x
          /\ \A i \in 1 .. L : path'[i] = r[i]
      BY <2>3, <3>2, AppendSet
    <3>4. \A i \in 1 .. L : /\ path'[i].name = path[i].name
                            /\ path'[i].rest = IF i = L THEN path[i].rest \ {n} ELSE path[i].rest
      BY <2>3, <3>3
    <3>5. path'[L + 1].name = n /\ path'[L + 1].rest = Node!UsedBy(n)
      BY <3>2, <3>3
    <3> HIDE DEF L
    <3>6. Deepens(path, n, path')
      BY <2>7, <3>3, <3>4, <3>5 DEF Deepens, L
    <3>7. Sorts(unmarked \ {n}, path', sorted)
      BY <1>3, <1>4, <3>1, <3>6, SortsDeeper
    <3> QED
      BY <2>1, <2>4, <3>7
  <2> QED
    BY <2>8, <2>9
<1>10. CASE Node!Leave
  <2>1. /\ path # << >> /\ path[Len(path)].rest = {} /\ path' = Node!Front(path)
        /\ sorted' = Append(sorted, path[Len(path)].name) /\ unmarked' = unmarked
    BY <1>10 DEF Node!Leave, Node!Last
  <2> QED
    BY <1>4, <2>1, SortsLeft
<1> QED
  BY <1>8, <1>9, <1>10

LEMMA EmptyConcat ==
  ASSUME NEW S, NEW q \in Seq(S)
  PROVE  << >> \o q = q /\ q \o << >> = q /\ << >> \in Seq(S)
BY ConcatEmptySeq, EmptySet

\* The order is known.
LEMMA SortingEnds ==
  ASSUME ShutdownInv, Node!AllSorted \/ Node!Cycle, ModuleCount \in Nat
  PROVE  Sorting' /\ Closing'
<1>1. /\ phase = "sort" /\ phase' = "shutdown" /\ shut' = shut /\ UNCHANGED <<objects, modules>>
  BY DEF Node!AllSorted, Node!Cycle, Node!nodeVars
<1>2. shut' = << >>
  BY <1>1 DEF ShutdownInv, Closing
<1>3. NodeMade /\ phase \in Made
  BY <1>1 DEF ShutdownInv, NodeInv, Made
<1>4. Sorts(unmarked, path, sorted)
  BY <1>1 DEF ShutdownInv, Sorting
<1>5. SUFFICES order' \in Seq(Everything) /\ Injective(order') /\ Node!ToSet(order') = Stored
               /\ Ordered(order')
  <2>1. order' = shut' \o order' /\ shut' \in Seq(Everything)
    BY <1>2, <1>5, EmptyConcat
  <2> QED
    BY <1>1, <1>5, <2>1, ClosingIs
<1>6. CASE Node!AllSorted
  <2>1. path = << >> /\ unmarked = {} /\ order' = Node!Reverse(sorted)
    BY <1>6 DEF Node!AllSorted
  <2> QED
    BY <1>4, <2>1, SortedReversed
<1>7. CASE Node!Cycle
  <2> DEFINE L == Len(path)
  <2>1. path # << >> /\ \E n \in path[L].rest : n \in OnPath(path)
    BY <1>7 DEF Node!Cycle, Node!Last, Node!Visited, OnPath
  <2>2. PICK n \in path[L].rest : n \in OnPath(path)
    BY <2>1
  <2>3. PICK v \in Node!SetToSeqs(OnPath(path)), w \in Node!SetToSeqs(unmarked) :
          order' = Node!Reverse(sorted) \o v \o w
    BY <1>7 DEF Node!Cycle, Node!Visited, OnPath
  <2>4. ~Node!Acyclic
    BY <1>3, <1>4, <2>1, <2>2, CycleFound
  <2>5. UsedKnown
    BY <1>3, KnownIs
  <2>6. order' \in Seq(Everything) /\ Injective(order') /\ Node!ToSet(order') = Stored
    BY <1>4, <2>3, <2>5, CycleOrder
  <2> QED
    BY <2>4, <2>6 DEF Ordered
<1> QED
  BY <1>6, <1>7

LEMMA ShuttingDown ==
  ASSUME ShutdownInv, Node!ShutdownModule \/ Node!ShutDown
  PROVE  Sorting' /\ Closing'
<1>1. /\ phase = "shutdown" /\ phase' \in {"shutdown", "down"} /\ UNCHANGED <<objects, modules>>
  BY DEF Node!ShutdownModule, Node!ShutDown, Node!nodeVars
<1>2. /\ shut \in Seq(Everything) /\ order \in Seq(Everything)
      /\ Injective(Final) /\ Node!ToSet(Final) = Stored /\ Ordered(Final)
  BY <1>1 DEF ShutdownInv, Closing
<1>3. CASE Node!ShutdownModule
  <2>1. order # << >> /\ shut' = Append(shut, Head(order)) /\ order' = Tail(order) /\ phase' = "shutdown"
    BY <1>3 DEF Node!ShutdownModule
  <2>2. shut' \o order' = Final /\ shut' \in Seq(Everything) /\ order' \in Seq(Everything)
    BY <1>2, <2>1, OneShut DEF Final
  <2> QED
    BY <1>1, <1>2, <2>1, <2>2, ClosingIs
<1>4. CASE Node!ShutDown
  <2>1. order = << >> /\ shut' = shut /\ order' = order
    BY <1>4 DEF Node!ShutDown, Node!sortVars
  <2> QED
    BY <1>1, <1>2, <2>1, ClosingIs DEF Final
<1> QED
  BY <1>3, <1>4

LEMMA ShuttingStutters ==
  ASSUME ShutdownInv, UNCHANGED nodeVars
  PROVE  Sorting' /\ Closing'
<1>1. UNCHANGED <<objects, modules, phase, unmarked, path, sorted, shut, order>>
  BY DEF nodeVars
<1>2. CASE phase \in {"shutdown", "down"}
  <2>1. /\ shut \in Seq(Everything) /\ order \in Seq(Everything) /\ (phase = "down" => order = << >>)
        /\ Injective(Final) /\ Node!ToSet(Final) = Stored /\ Ordered(Final)
    BY <1>2 DEF ShutdownInv, Closing
  <2>2. shut' \o order' = Final
    BY <1>1 DEF Final
  <2> QED
    BY <1>1, <1>2, <2>1, <2>2, ClosingIs
<1>3. CASE phase \notin {"shutdown", "down"}
  <2>1. shut' = << >>
    <3>1. phase \in NodePhases
      BY DEF ShutdownInv, NodeInv, NodeMade, NodeTyped
    <3> QED
      BY <1>1, <1>3, <3>1 DEF ShutdownInv, Closing, NodePhases
  <2>2. phase = "sort" => Sorts(unmarked', path', sorted')
    BY <1>1 DEF ShutdownInv, Sorting
  <2> QED
    BY <1>1, <1>3, <2>1, <2>2, ShutNothing, SortingIs, NotSorting
<1> QED
  BY <1>2, <1>3

LEMMA ShuttingNext ==
  ASSUME ShutdownInv, [Node!Next]_nodeVars, ModuleCount \in Nat
  PROVE  ShutdownInv'
<1>1. NodeInv'
  BY InvNext, InvStutters DEF ShutdownInv
<1>2. Sorting' /\ Closing'
  <2>1. CASE Node!Restart
    <3>1. phase' = "create" /\ shut' = << >>
      BY <2>1 DEF Node!Restart
    <3> QED
      BY <3>1, ShutNothing, NotSorting
  <2> QED
    BY <2>1, BeforeShutdown, SortingBegins, SortingGoesOn, SortingEnds, ShuttingDown, ShuttingStutters
       DEF Node!Next, Node!ShutdownModules
<1> QED
  BY <1>1, <1>2 DEF ShutdownInv

LEMMA DownInOrder ==
  ASSUME ShutdownInv
  PROVE  UsersFirst
<1>1. SUFFICES ASSUME phase = "down"
               PROVE  /\ Node!IsInjective(shut) /\ Node!ToSet(shut) = Stored
                      /\ Node!Acyclic => \A m \in Node!ToSet(shut) : \A n \in Node!UsedBy(m) :
                                           Node!Position(m) < Node!Position(n)
  BY DEF UsersFirst, Node!UsersFirst, Stored, InNode, Name
<1>2. shut \in Seq(Everything) /\ order = << >> /\ Injective(Final) /\ Node!ToSet(Final) = Stored
      /\ Ordered(Final)
  BY <1>1 DEF ShutdownInv, Closing
<1>3. Final = shut
  BY <1>2, EmptyConcat DEF Final
<1>4. \A i \in DOMAIN shut : Node!Position(shut[i]) = i
  BY <1>2, <1>3 DEF Node!Position, Injective
<1>5. ASSUME Node!Acyclic, NEW m \in Node!ToSet(shut), NEW n \in Node!UsedBy(m)
      PROVE  Node!Position(m) < Node!Position(n)
  <2>1. PICK i \in DOMAIN shut : shut[i] = m
    BY DEF Node!ToSet
  <2>2. PICK j \in DOMAIN shut : i < j /\ shut[j] = n
    BY <1>2, <1>3, <1>5, <2>1 DEF Ordered
  <2> QED
    BY <1>4, <2>1, <2>2
<1> QED
  BY <1>2, <1>3, <1>5 DEF Injective, Node!IsInjective

\* When a node is down each of its modules was shut down once, and before the modules
\* attached to it as long as modules are not attached to each other (_getSortedModules and
\* shutdown_modules of secnode.py), for every configuration.
THEOREM UsersComeFirst == NodeSpec => []UsersFirst
<1> USE ModulesAssumption
<1>1. Node!Init => ShutdownInv
  <2> SUFFICES ASSUME Node!Init PROVE ShutdownInv
    OBVIOUS
  <2>1. NodeInv
    BY BaseInit, RestInit DEF NodeInv
  <2>2. phase = "create" /\ shut = << >>
    BY DEF Node!Init
  <2> QED
    BY <2>1, <2>2 DEF ShutdownInv, Sorting, Closing
<1>2. ShutdownInv /\ [Node!Next]_nodeVars => ShutdownInv'
  BY ShuttingNext
<1>3. ShutdownInv => UsersFirst
  BY DownInOrder
<1> QED
  BY <1>1, <1>2, <1>3, PTL DEF NodeSpec

(***************************************************************************)
(* Proxy, as NodeLife has it.  The invariant follows a connection through  *)
(* its stages, and says who is still to tell the proxy what.               *)
(***************************************************************************)

Accessibles == Follower!Accessibles
FThreads == Follower!Threads
Remotes == RemoteValues \cup {"failed"}

\* where a thread within _set_state goes on
Stage(t) == IF proc[t].at \in {"online", "show", "offline", "errors"} THEN proc[t].back ELSE proc[t].at
Connecting == {"open", "activate", "starting", "release", "raise"}

ProcPlaces == {"none", "enter", "open", "activate", "starting", "release", "raise", "failed",
               "give up", "online", "show", "offline", "errors", "send", "reply", "announce"}
Backs == {"none", "enter", "open", "activate", "release", "raise"}
Replies == {"none", "active", "aborted", "refused", "done"} \cup Remotes
ProcFrames == [at : ProcPlaces, back : Backs, left : SUBSET Params, reply : Replies,
               op : {"none", "read", "change"}, param : Accessibles,
               item : Remotes \cup Follower!Errors \cup {"undefined", "none"}]
MessageSet == [to : FThreads \cup {NoThread}, param : Accessibles \cup {"none"},
               item : Remotes \cup {"active", "refused"}]
IsMessage(m) ==
  /\ m \in MessageSet
  /\ m.param # "none" => m.item \in Remotes
  /\ m.param = "status" => m.item # "failed"
  /\ m.param = "none" => m.item \in {"active", "refused"}

ThreadsTyped ==
  /\ proc \in [FThreads -> ProcFrames]
  /\ \A t \in FThreads : proc[t].at \in {"online", "show", "offline", "errors"} => proc[t].back # "none"
  /\ proc[Handler].op = "change" /\ proc[Handler].at # "announce" => proc[Handler].item \in RemoteValues
FeedTyped == feed \in Seq(MessageSet) /\ \A i \in 1 .. Len(feed) : IsMessage(feed[i])
RemoteTyped == remote \in [Accessibles -> Remotes] /\ remote["status"] # "failed"
CacheTyped ==
  cache \in [Accessibles -> Remotes \cup Follower!Errors \cup {"undefined"}] /\ cache["status"] # "failed"
ParametersTyped ==
  /\ DOMAIN parameters = Accessibles
  /\ \A p \in Accessibles :
       /\ parameters[p] = [value |-> parameters[p].value, readerror |-> parameters[p].readerror]
       /\ parameters[p].readerror \in Follower!Errors \cup {"none"}
ClientTyped ==
  /\ io \in BOOLEAN /\ online \in BOOLEAN /\ disconnected \in BOOLEAN /\ raced \in BOOLEAN
  /\ lock \in FThreads \cup {NoThread}
  /\ wire \in {"none", "open", "active", "lost"} /\ reader \in {"off", "read", "announce"}
  /\ shownLate \subseteq Accessibles
ProxyTyped ==
  ThreadsTyped /\ FeedTyped /\ RemoteTyped /\ CacheTyped /\ ParametersTyped /\ ClientTyped

\* The connection of the client; who connects has the lock.
Connection ==
  /\ io = (reader # "off") /\ io = (wire # "none")
  /\ ~io => feed = << >>
  /\ reader = "announce" => feed # << >>
  /\ \A t \in FThreads : Stage(t) \in Connecting <=> lock = t

\* How far a thread which connects has come.
Stages == \A t \in FThreads :
  /\ Stage(t) \in {"open", "raise"} => ~io
  /\ Stage(t) = "activate" => wire # "active"
  /\ proc[t].at = "starting" /\ proc[t].reply = "aborted" => ~io
  /\ proc[t].at \in {"online", "show"} => proc[t].back # "enter"
  /\ proc[t].at \in {"offline", "errors"} => proc[t].back \in {"enter", "open", "raise"}

\* Unless it is raced, the client is online as long as it has a connection, and from the
\* first one to the moment when a thread begins to take it offline.
OnlineKnown == ~raced =>
  /\ io => online
  /\ \A t \in FThreads :
       /\ proc[t].at \in {"online", "show"} => online
       /\ Stage(t) \in {"activate", "starting", "release"} => online
       /\ proc[t].at \in {"offline", "errors"} => ~online /\ ~io

HeadIsStatus == reader = "announce" /\ feed[1].param = "status"

\* The status of the connection is shown only until the one of the remote module has come.
StatusComes ==
  /\ ~raced => \A i \in 1 .. Len(feed) : feed[i].param = "none" /\ feed[i].item = "active" =>
       ~disconnected \/ \E j \in 1 .. i - 1 : feed[j].param = "status"
  /\ ~raced => \A t \in FThreads :
       /\ proc[t].at = "starting" /\ proc[t].reply = "active" => ~disconnected
       /\ proc[t].at \in {"online", "show"} /\ proc[t].back = "release" => ~disconnected
       /\ proc[t].at = "show" => proc[t].back # "release"
  /\ ~raced /\ HeadIsStatus => ~disconnected
  /\ ~disconnected => parameters["status"].value # Follower!DISCONNECTED \/ HeadIsStatus
  /\ ~raced /\ online =>
       \/ parameters["status"].value # Follower!DISCONNECTED \/ HeadIsStatus
       \/ \E t \in FThreads : proc[t].at \in {"online", "show"}

\* A client which is offline has told the proxy, or a thread is about to.
SaysOffline(p) == Follower!Shown(p) = "offline" \/ p \in shownLate
Telling(t) == proc[t].at \in {"offline", "errors"}
OfflineTold ==
  /\ ~raced /\ ~online =>
       /\ parameters["status"].value = Follower!DISCONNECTED => \A p \in Params : SaysOffline(p)
       /\ \A t \in FThreads : proc[t].at = "errors" => \A p \in Params \ proc[t].left : SaysOffline(p)
       /\ (\A p \in Params : SaysOffline(p)) \/ \E t \in FThreads : Telling(t)
       /\ \/ parameters["status"].value = Follower!DISCONNECTED \/ "status" \in shownLate
          \/ \E t \in FThreads : Telling(t)
  /\ parameters["status"].readerror # "none" => "status" \in shownLate

\* What the remote module has is on the way, or shown, and in the cache.
LastFor(p, i) == feed[i].param = p /\ \A j \in 1 .. Len(feed) : feed[j].param = p => j <= i
OnTheWay(p) == \E i \in 1 .. Len(feed) : feed[i].param = p
Cached(p, item) == cache[p] = item \/ cache[p] \notin Remotes
UpToDate ==
  /\ wire = "active" => \A p \in Accessibles :
       /\ \A i \in 1 .. Len(feed) : LastFor(p, i) => feed[i].item = remote[p]
       /\ ~OnTheWay(p) => /\ Cached(p, remote[p])
                          /\ ~raced => p \in shownLate \/ Follower!Shown(p) = remote[p]
  /\ reader = "announce" /\ feed[1].param # "none" => Cached(feed[1].param, feed[1].item)

ProxyInv ==
  ProxyTyped /\ Connection /\ Stages /\ OnlineKnown /\ StatusComes /\ OfflineTold /\ UpToDate

-----------------------------------------------------------------------------

\* What a step of a thread does to it.
Becomes(t, at, back, left, reply) ==
  /\ ThreadsTyped'
  /\ \A s \in FThreads : s # t => proc'[s] = proc[s]
  /\ proc'[t].at = at /\ proc'[t].back = back /\ proc'[t].left = left /\ proc'[t].reply = reply

LEMMA HandlerIsOne == Handler \in FThreads /\ NoThread \notin FThreads
  BY ProxyAssumption DEF FThreads, Follower!Threads

LEMMA GoesTo ==
  ASSUME ThreadsTyped, NEW t \in FThreads, NEW place \in ProcPlaces, Follower!Goto(t, place),
         place \in {"online", "show", "offline", "errors"} => proc[t].back # "none",
         proc[t].at # "announce"
  PROVE  Becomes(t, place, proc[t].back, proc[t].left, proc[t].reply)
<1>1. proc' = [proc EXCEPT ![t].at = place]
  BY DEF Follower!Goto
<1>2. /\ \A s \in FThreads : s # t => proc'[s] = proc[s]
      /\ proc'[t] = [proc[t] EXCEPT !.at = place] /\ proc' \in [FThreads -> ProcFrames]
  BY <1>1 DEF ThreadsTyped, ProcFrames
<1>3. /\ proc'[t].at = place /\ proc'[t].back = proc[t].back /\ proc'[t].left = proc[t].left
      /\ proc'[t].reply = proc[t].reply /\ proc'[t].op = proc[t].op /\ proc'[t].item = proc[t].item
  BY <1>2 DEF ThreadsTyped, ProcFrames
<1> QED
  BY <1>2, <1>3, HandlerIsOne DEF ThreadsTyped, Becomes

LEMMA SetsState ==
  ASSUME ThreadsTyped, NEW t \in FThreads, NEW isOnline \in BOOLEAN, NEW back \in Backs \ {"none"},
         Follower!SetState(t, isOnline, back), proc[t].at # "announce"
  PROVE  /\ Becomes(t, IF isOnline THEN "online" ELSE "offline", back, proc[t].left, proc[t].reply)
         /\ online' = isOnline
<1> DEFINE place == IF isOnline THEN "online" ELSE "offline"
<1>1. proc' = [proc EXCEPT ![t].at = place, ![t].back = back] /\ online' = isOnline
  BY DEF Follower!SetState
<1>2. place \in ProcPlaces
  BY DEF ProcPlaces
<1> HIDE DEF place
<1>3. /\ \A s \in FThreads : s # t => proc'[s] = proc[s]
      /\ proc'[t] = [proc[t] EXCEPT !.at = place, !.back = back] /\ proc' \in [FThreads -> ProcFrames]
  BY <1>1, <1>2 DEF ThreadsTyped, ProcFrames
<1>4. /\ proc'[t].at = place /\ proc'[t].back = back /\ proc'[t].left = proc[t].left
      /\ proc'[t].reply = proc[t].reply /\ proc'[t].op = proc[t].op /\ proc'[t].item = proc[t].item
  BY <1>3 DEF ThreadsTyped, ProcFrames
<1>5. Becomes(t, place, back, proc[t].left, proc[t].reply)
  BY <1>3, <1>4, HandlerIsOne DEF ThreadsTyped, Becomes
<1> QED
  BY <1>1, <1>5 DEF place

LEMMA Sends ==
  ASSUME ThreadsTyped, NEW t \in FThreads, NEW place \in {"starting", "reply", "enter"},
         Follower!Send(t, place), proc[t].at # "announce"
  PROVE  Becomes(t, place, proc[t].back, proc[t].left, "none")
<1>1. proc' = [proc EXCEPT ![t].at = place, ![t].reply = "none"] /\ place \in ProcPlaces
  BY DEF Follower!Send, ProcPlaces
<1>2. /\ \A s \in FThreads : s # t => proc'[s] = proc[s]
      /\ proc'[t] = [proc[t] EXCEPT !.at = place, !.reply = "none"]
  BY <1>1 DEF ThreadsTyped, ProcFrames
<1>3. proc'[t] \in ProcFrames
  BY <1>1, <1>2 DEF ThreadsTyped, ProcFrames, Replies
<1>4. /\ proc'[t].at = place /\ proc'[t].back = proc[t].back /\ proc'[t].left = proc[t].left
      /\ proc'[t].reply = "none" /\ proc'[t].op = proc[t].op /\ proc'[t].item = proc[t].item
  BY <1>2 DEF ThreadsTyped, ProcFrames
<1>5. proc' \in [FThreads -> ProcFrames]
  BY <1>1, <1>2, <1>3 DEF ThreadsTyped
<1> QED
  BY <1>2, <1>4, <1>5, HandlerIsOne DEF ThreadsTyped, Becomes

-----------------------------------------------------------------------------

\* An announcement changes one parameter, and is what is shown for it then.
LEMMA Announces ==
  ASSUME ParametersTyped, NEW p \in Accessibles, NEW item,
         parameters' = Follower!Announced(p, item)
  PROVE  /\ ParametersTyped'
         /\ parameters'[p].value = IF item \in Follower!Errors THEN parameters[p].value ELSE item
         /\ parameters'[p].readerror = IF item \in Follower!Errors THEN item ELSE "none"
         /\ Follower!Shown(p)' = item
         /\ \A q \in Accessibles : q # p =>
              parameters'[q] = parameters[q] /\ Follower!Shown(q)' = Follower!Shown(q)
<1>1. DOMAIN parameters' = Accessibles
  BY DEF ParametersTyped, Follower!Announced
<1>2. \A q \in Accessibles : q # p => parameters'[q] = parameters[q]
  BY DEF ParametersTyped, Follower!Announced
<1>3. CASE item \in Follower!Errors
  <2>1. parameters'[p] = [parameters[p] EXCEPT !.readerror = item]
    BY <1>3 DEF ParametersTyped, Follower!Announced
  <2>2. parameters'[p] = [value |-> parameters[p].value, readerror |-> item]
    BY <2>1 DEF ParametersTyped
  <2>3. item # "none"
    BY <1>3 DEF Follower!Errors
  <2> QED
    BY <1>1, <1>2, <1>3, <2>2, <2>3 DEF ParametersTyped, Follower!Shown
<1>4. CASE item \notin Follower!Errors
  <2>1. parameters'[p] = [value |-> item, readerror |-> "none"]
    BY <1>4 DEF ParametersTyped, Follower!Announced
  <2> QED
    BY <1>1, <1>2, <1>4, <2>1 DEF ParametersTyped, Follower!Shown
<1> QED
  BY <1>3, <1>4

LEMMA OnlineKeeps ==
  ASSUME ProxyInv, NEW t \in FThreads, Follower!Online(t)
  PROVE  ProxyInv'
<1>0. ProxyTyped /\ Connection /\ Stages /\ OnlineKnown /\ StatusComes /\ OfflineTold /\ UpToDate
  BY DEF ProxyInv
<1>1. /\ proc[t].at = "online" /\ proc[t].back \in Backs \ {"none", "enter"} /\ proc[t].back \in ProcPlaces
      /\ disconnected \in BOOLEAN
  BY <1>0 DEF Follower!Online, ProxyTyped, ThreadsTyped, ProcFrames, Stages, Backs, ProcPlaces,
       ClientTyped
<1>2. Becomes(t, IF disconnected THEN "show" ELSE proc[t].back, proc[t].back, proc[t].left, proc[t].reply)
  <2> DEFINE place == IF disconnected THEN "show" ELSE proc[t].back
  <2>1. place \in ProcPlaces /\ Follower!Goto(t, place)
    BY <1>1 DEF Follower!Online, ProcPlaces
  <2> QED
    BY <1>0, <1>1, <2>1, GoesTo DEF ProxyTyped, Backs
<1>3. UNCHANGED <<remote, feed, wire, io, online, lock, cache, reader, parameters, disconnected,
                  shownLate, raced>>
  BY DEF Follower!Online, Follower!remoteVars, Follower!clientVars, Follower!proxyVars,
       Follower!counts
<1>4. \A s \in FThreads : Stage(s)' = Stage(s)
  BY <1>1, <1>2 DEF Stage, Becomes, Backs
<1>5. ProxyTyped'
  BY <1>0, <1>2, <1>3 DEF ProxyTyped, Becomes, FeedTyped, RemoteTyped, CacheTyped,
       ParametersTyped, ClientTyped
<1>6. Connection'
  BY <1>0, <1>3, <1>4 DEF Connection
<1>7. Stages'
  BY <1>0, <1>1, <1>2, <1>3, <1>4 DEF Stages, Becomes, Backs
<1>8. OnlineKnown'
  BY <1>0, <1>1, <1>2, <1>3, <1>4 DEF OnlineKnown, Becomes, Backs
<1>9. StatusComes'
  BY <1>0, <1>1, <1>2, <1>3 DEF StatusComes, HeadIsStatus, Becomes, Backs
<1>10. OfflineTold'
  BY <1>0, <1>1, <1>2, <1>3 DEF OfflineTold, SaysOffline, Telling, Follower!Shown, Becomes, Backs
<1>11. UpToDate'
  BY <1>0, <1>3 DEF UpToDate, LastFor, OnTheWay, Cached, Follower!Shown
<1> QED
  BY <1>5, <1>6, <1>7, <1>8, <1>9, <1>10, <1>11 DEF ProxyInv

LEMMA ShowConnectionKeeps ==
  ASSUME ProxyInv, NEW t \in FThreads, Follower!ShowConnection(t)
  PROVE  ProxyInv'
<1>0. ProxyTyped /\ Connection /\ Stages /\ OnlineKnown /\ StatusComes /\ OfflineTold /\ UpToDate
  BY DEF ProxyInv
<1>1. proc[t].at = "show" /\ proc[t].back \in Backs \ {"none", "enter"} /\ proc[t].back \in ProcPlaces
  BY <1>0 DEF Follower!ShowConnection, ProxyTyped, ThreadsTyped, ProcFrames, Stages, Backs,
       ProcPlaces
<1>2. Becomes(t, proc[t].back, proc[t].back, proc[t].left, proc[t].reply)
  <2>1. Follower!Goto(t, proc[t].back)
    BY DEF Follower!ShowConnection
  <2> QED
    BY <1>0, <1>1, <2>1, GoesTo DEF ProxyTyped, Backs
<1>3. /\ UNCHANGED <<remote, feed, wire, io, online, lock, cache, reader, disconnected, raced>>
      /\ shownLate' = shownLate \ {"status"}
  BY DEF Follower!ShowConnection, Follower!remoteVars, Follower!clientVars, Follower!proxyVars,
       Follower!counts
<1>4. /\ ParametersTyped'
      /\ parameters'["status"].value = "connection" /\ parameters'["status"].readerror = "none"
      /\ \A p \in Accessibles \ {"status"} : parameters'[p] = parameters[p] /\ Follower!Shown(p)' = Follower!Shown(p)
  <2>1. "status" \in Accessibles /\ "connection" \notin Follower!Errors
    BY DEF Accessibles, Follower!Accessibles, Follower!Errors
  <2>2. parameters' = Follower!Announced("status", "connection")
    BY DEF Follower!ShowConnection, Follower!CONNECTION
  <2> QED
    BY <1>0, <2>1, <2>2, Announces DEF ProxyTyped
<1>5. \A s \in FThreads : Stage(s)' = Stage(s)
  BY <1>1, <1>2 DEF Stage, Becomes, Backs
<1>6. ProxyTyped'
  BY <1>0, <1>2, <1>3, <1>4 DEF ProxyTyped, Becomes, FeedTyped, RemoteTyped, CacheTyped,
       ClientTyped
<1>7. Connection'
  BY <1>0, <1>3, <1>5 DEF Connection
<1>8. Stages'
  BY <1>0, <1>1, <1>2, <1>3, <1>5 DEF Stages, Becomes, Backs
<1>9. OnlineKnown'
  BY <1>0, <1>1, <1>2, <1>3, <1>5 DEF OnlineKnown, Becomes, Backs
<1>10. StatusComes'
  BY <1>0, <1>1, <1>2, <1>3, <1>4 DEF StatusComes, HeadIsStatus, Becomes, Backs,
       Follower!DISCONNECTED
<1>11. OfflineTold'
  <2>1. raced' \/ online'
    BY <1>0, <1>1, <1>3 DEF OnlineKnown
  <2> QED
    BY <1>4, <2>1 DEF OfflineTold
<1>12. UpToDate'
  <2>1. ~raced => wire # "active"
    BY <1>0, <1>1 DEF Stages, StatusComes, Connection, Stage, Backs
  <2> QED
    BY <1>0, <1>3, <2>1 DEF UpToDate, LastFor, OnTheWay, Cached
<1> QED
  BY <1>6, <1>7, <1>8, <1>9, <1>10, <1>11, <1>12 DEF ProxyInv

LEMMA OfflineKeeps ==
  ASSUME ProxyInv, NEW t \in FThreads, Follower!Offline(t)
  PROVE  ProxyInv'
<1>0. ProxyTyped /\ Connection /\ Stages /\ OnlineKnown /\ StatusComes /\ OfflineTold /\ UpToDate
  BY DEF ProxyInv
<1>1. /\ proc[t].at = "offline" /\ proc[t].back \in {"enter", "open", "raise"} /\ proc[t].back \in ProcPlaces
  BY <1>0 DEF Follower!Offline, Stages, ProcPlaces
<1>2. /\ parameters["status"].value = Follower!DISCONNECTED =>
           Becomes(t, proc[t].back, proc[t].back, proc[t].left, proc[t].reply)
      /\ parameters["status"].value # Follower!DISCONNECTED =>
           Becomes(t, "errors", proc[t].back, Params, proc[t].reply)
  <2>1. ASSUME parameters["status"].value = Follower!DISCONNECTED
        PROVE  Becomes(t, proc[t].back, proc[t].back, proc[t].left, proc[t].reply)
    <3>1. Follower!Goto(t, proc[t].back)
      BY <2>1 DEF Follower!Offline
    <3> QED
      BY <1>0, <1>1, <3>1, GoesTo DEF ProxyTyped
  <2>2. ASSUME parameters["status"].value # Follower!DISCONNECTED
        PROVE  Becomes(t, "errors", proc[t].back, Params, proc[t].reply)
    <3>1. proc' = [proc EXCEPT ![t].at = "errors", ![t].left = Params]
      BY <2>2 DEF Follower!Offline
    <3>2. /\ \A s \in FThreads : s # t => proc'[s] = proc[s]
          /\ proc'[t] = [proc[t] EXCEPT !.at = "errors", !.left = Params]
      BY <1>0, <3>1 DEF ProxyTyped, ThreadsTyped, ProcFrames
    <3>3. proc'[t] \in ProcFrames
      BY <1>0, <3>2 DEF ProxyTyped, ThreadsTyped, ProcFrames, ProcPlaces
    <3>4. /\ proc'[t].at = "errors" /\ proc'[t].back = proc[t].back /\ proc'[t].left = Params
          /\ proc'[t].reply = proc[t].reply /\ proc'[t].op = proc[t].op /\ proc'[t].item = proc[t].item
      BY <1>0, <3>2 DEF ProxyTyped, ThreadsTyped, ProcFrames
    <3>5. proc' \in [FThreads -> ProcFrames]
      BY <1>0, <3>1, <3>2, <3>3 DEF ProxyTyped, ThreadsTyped
    <3> QED
      BY <1>0, <1>1, <3>2, <3>4, <3>5, HandlerIsOne DEF ProxyTyped, ThreadsTyped, Becomes
  <2> QED
    BY <2>1, <2>2
<1>3. /\ UNCHANGED <<remote, feed, wire, io, online, lock, cache, reader, parameters, disconnected,
                     shownLate>>
      /\ raced' \in BOOLEAN /\ (raced => raced')
  BY <1>0 DEF Follower!Offline, Follower!Races, ProxyTyped, ClientTyped, Follower!remoteVars,
       Follower!clientVars, Follower!proxyVars, Follower!counts
<1>4. \A s \in FThreads : Stage(s)' = Stage(s)
  BY <1>1, <1>2 DEF Stage, Becomes
<1>5. ProxyTyped'
  BY <1>0, <1>2, <1>3 DEF ProxyTyped, Becomes, FeedTyped, RemoteTyped, CacheTyped,
       ParametersTyped, ClientTyped
<1>6. Connection'
  BY <1>0, <1>3, <1>4 DEF Connection
<1>7. Stages'
  BY <1>0, <1>1, <1>2, <1>3, <1>4 DEF Stages, Becomes
<1>8. OnlineKnown'
  BY <1>0, <1>1, <1>2, <1>3, <1>4 DEF OnlineKnown, Becomes
<1>9. StatusComes'
  BY <1>0, <1>1, <1>2, <1>3 DEF StatusComes, HeadIsStatus, Becomes
<1>10. OfflineTold'
  <2> DEFINE told == \A p \in Params : SaysOffline(p)
  <2>1. \A p \in Params : SaysOffline(p)' = SaysOffline(p)
    BY <1>3 DEF SaysOffline, Follower!Shown
  <2>2. Telling(t)' \/ parameters["status"].value = Follower!DISCONNECTED
    BY <1>2 DEF Telling, Becomes
  <2> QED
    BY <1>0, <1>1, <1>2, <1>3, <2>1, <2>2 DEF OfflineTold, Becomes
<1>11. UpToDate'
  BY <1>0, <1>3 DEF UpToDate, LastFor, OnTheWay, Cached, Follower!Shown
<1> QED
  BY <1>5, <1>6, <1>7, <1>8, <1>9, <1>10, <1>11 DEF ProxyInv

LEMMA ShowErrorKeeps ==
  ASSUME ProxyInv, NEW t \in FThreads, Follower!ShowError(t)
  PROVE  ProxyInv'
<1>0. ProxyTyped /\ Connection /\ Stages /\ OnlineKnown /\ StatusComes /\ OfflineTold /\ UpToDate
  BY DEF ProxyInv
<1>1. /\ proc[t].at = "errors" /\ proc[t].back \in {"enter", "open", "raise"} /\ proc[t].left \subseteq Params
      /\ Params \subseteq Accessibles /\ "status" \in Accessibles \ Params
  BY <1>0, ProxyAssumption DEF Follower!ShowError, Stages, ProxyTyped, ThreadsTyped, ProcFrames,
       Accessibles, Follower!Accessibles
<1>2. PICK p \in proc[t].left :
      /\ parameters' = Follower!Announced(p, "offline") /\ shownLate' = shownLate \ {p}
      /\ proc' = [proc EXCEPT ![t].left = @ \ {p}]
  BY DEF Follower!ShowError
<1>3. Becomes(t, "errors", proc[t].back, proc[t].left \ {p}, proc[t].reply)
  <2>1. /\ \A s \in FThreads : s # t => proc'[s] = proc[s]
        /\ proc'[t] = [proc[t] EXCEPT !.left = proc[t].left \ {p}]
        /\ proc' \in [FThreads -> ProcFrames]
    BY <1>0, <1>2 DEF ProxyTyped, ThreadsTyped, ProcFrames
  <2>2. /\ proc'[t].at = "errors" /\ proc'[t].back = proc[t].back /\ proc'[t].left = proc[t].left \ {p}
        /\ proc'[t].reply = proc[t].reply /\ proc'[t].op = proc[t].op /\ proc'[t].item = proc[t].item
    BY <1>0, <1>1, <2>1 DEF ProxyTyped, ThreadsTyped, ProcFrames
  <2> QED
    BY <1>0, <1>1, <2>1, <2>2, HandlerIsOne DEF ProxyTyped, ThreadsTyped, Becomes
<1>4. /\ UNCHANGED <<remote, feed, wire, io, online, lock, cache, reader, disconnected>>
      /\ raced' \in BOOLEAN /\ (raced => raced')
  BY <1>0 DEF Follower!ShowError, Follower!Races, ProxyTyped, ClientTyped, Follower!remoteVars,
       Follower!clientVars, Follower!proxyVars, Follower!counts
<1>5. /\ ParametersTyped' /\ Follower!Shown(p)' = "offline"
      /\ \A q \in Accessibles \ {p} : parameters'[q] = parameters[q] /\ Follower!Shown(q)' = Follower!Shown(q)
  BY <1>0, <1>1, <1>2, Announces DEF ProxyTyped
<1>6. \A s \in FThreads : Stage(s)' = Stage(s)
  BY <1>1, <1>3 DEF Stage, Becomes
<1>7. ProxyTyped'
  BY <1>0, <1>2, <1>3, <1>4, <1>5 DEF ProxyTyped, Becomes, FeedTyped, RemoteTyped, CacheTyped,
       ClientTyped
<1>8. Connection'
  BY <1>0, <1>4, <1>6 DEF Connection
<1>9. Stages'
  BY <1>0, <1>1, <1>3, <1>4, <1>6 DEF Stages, Becomes
<1>10. OnlineKnown'
  BY <1>0, <1>1, <1>3, <1>4, <1>6 DEF OnlineKnown, Becomes
<1>11. StatusComes'
  BY <1>0, <1>1, <1>3, <1>4, <1>5 DEF StatusComes, HeadIsStatus, Becomes
<1>12. OfflineTold'
  <2>1. \A q \in Params : (SaysOffline(q) => SaysOffline(q)') /\ (q = p => SaysOffline(q)')
    BY <1>1, <1>2, <1>5 DEF SaysOffline
  <2>2. parameters'["status"] = parameters["status"] /\ ("status" \in shownLate <=> "status" \in shownLate')
    BY <1>1, <1>2, <1>5
  <2>3. \A s \in FThreads : proc'[s].at = proc[s].at /\ proc'[s].left = IF s = t THEN proc[t].left \ {p} ELSE proc[s].left
    BY <1>1, <1>3 DEF Becomes
  <2> QED
    BY <1>0, <1>1, <1>4, <2>1, <2>2, <2>3 DEF OfflineTold, Telling
<1>13. UpToDate'
  <2>1. ~raced => wire # "active"
    BY <1>0, <1>1 DEF OnlineKnown, Connection
  <2> QED
    BY <1>0, <1>4, <2>1 DEF UpToDate, LastFor, OnTheWay, Cached
<1> QED
  BY <1>7, <1>8, <1>9, <1>10, <1>11, <1>12, <1>13 DEF ProxyInv

LEMMA ShowDisconnectedKeeps ==
  ASSUME ProxyInv, NEW t \in FThreads, Follower!ShowDisconnected(t)
  PROVE  ProxyInv'
<1>0. ProxyTyped /\ Connection /\ Stages /\ OnlineKnown /\ StatusComes /\ OfflineTold /\ UpToDate
  BY DEF ProxyInv
<1>1. /\ proc[t].at = "errors" /\ proc[t].left = {} /\ proc[t].back \in {"enter", "open", "raise"}
      /\ proc[t].back \in ProcPlaces
      /\ Params \subseteq Accessibles /\ "status" \in Accessibles \ Params
  BY <1>0, ProxyAssumption DEF Follower!ShowDisconnected, Stages, ProcPlaces, Accessibles,
       Follower!Accessibles
<1>2. Becomes(t, proc[t].back, proc[t].back, proc[t].left, proc[t].reply)
  <2>1. Follower!Goto(t, proc[t].back)
    BY DEF Follower!ShowDisconnected
  <2> QED
    BY <1>0, <1>1, <2>1, GoesTo DEF ProxyTyped
<1>3. /\ UNCHANGED <<remote, feed, wire, io, online, lock, cache, reader>>
      /\ raced' \in BOOLEAN /\ (raced => raced')
      /\ disconnected' = TRUE /\ shownLate' = shownLate \ {"status"}
  BY <1>0 DEF Follower!ShowDisconnected, Follower!Races, ProxyTyped, ClientTyped,
       Follower!remoteVars, Follower!clientVars, Follower!proxyVars, Follower!counts
<1>4. /\ ParametersTyped'
      /\ parameters'["status"].value = Follower!DISCONNECTED /\ parameters'["status"].readerror = "none"
      /\ \A p \in Accessibles \ {"status"} : parameters'[p] = parameters[p] /\ Follower!Shown(p)' = Follower!Shown(p)
  <2>1. Follower!DISCONNECTED \notin Follower!Errors /\ Follower!DISCONNECTED # "none"
    BY DEF Follower!DISCONNECTED, Follower!Errors
  <2>2. parameters' = Follower!Announced("status", Follower!DISCONNECTED)
    BY DEF Follower!ShowDisconnected
  <2> QED
    BY <1>0, <1>1, <2>1, <2>2, Announces DEF ProxyTyped
<1>5. \A s \in FThreads : Stage(s)' = Stage(s)
  BY <1>1, <1>2 DEF Stage, Becomes
<1>6. ~raced => ~online /\ ~io /\ feed = << >> /\ wire = "none" /\ reader = "off"
  BY <1>0, <1>1 DEF OnlineKnown, Connection, ProxyTyped, ClientTyped
<1>7. ProxyTyped'
  BY <1>0, <1>2, <1>3, <1>4 DEF ProxyTyped, Becomes, FeedTyped, RemoteTyped, CacheTyped,
       ClientTyped
<1>8. Connection'
  BY <1>0, <1>3, <1>5 DEF Connection
<1>9. Stages'
  BY <1>0, <1>1, <1>2, <1>3, <1>5 DEF Stages, Becomes
<1>10. OnlineKnown'
  BY <1>0, <1>1, <1>2, <1>3, <1>5 DEF OnlineKnown, Becomes
<1>11. StatusComes'
  <2>1. ~raced => \A s \in FThreads :
          Stage(s) \notin {"starting", "release"} /\ proc[s].at \notin {"online", "show"}
    BY <1>0, <1>6 DEF OnlineKnown
  <2>2. ~raced' => \A s \in FThreads :
          proc'[s].at # "starting" /\ proc'[s].at \notin {"online", "show"}
    BY <1>1, <1>2, <1>3, <2>1 DEF Becomes, Stage
  <2> QED
    BY <1>3, <1>6, <2>2 DEF StatusComes, HeadIsStatus
<1>12. OfflineTold'
  <2>1. \A q \in Params : SaysOffline(q)' = SaysOffline(q)
    BY <1>1, <1>3, <1>4 DEF SaysOffline
  <2>2. ~raced => \A q \in Params : SaysOffline(q)
    BY <1>0, <1>1, <1>6 DEF OfflineTold
  <2> QED
    BY <1>3, <1>4, <2>1, <2>2 DEF OfflineTold
<1>13. UpToDate'
  BY <1>0, <1>3, <1>6 DEF UpToDate, LastFor, OnTheWay, Cached
<1> QED
  BY <1>7, <1>8, <1>9, <1>10, <1>11, <1>12, <1>13 DEF ProxyInv

-----------------------------------------------------------------------------

LEMMA EnterConnectKeeps ==
  ASSUME ProxyInv, NEW t \in FThreads, Follower!EnterConnect(t)
  PROVE  ProxyInv'
<1>0. ProxyTyped /\ Connection /\ Stages /\ OnlineKnown /\ StatusComes /\ OfflineTold /\ UpToDate
  BY DEF ProxyInv
<1>1. /\ proc[t].at = "enter" /\ lock = NoThread /\ io \in BOOLEAN /\ online \in BOOLEAN
      /\ UNCHANGED <<remote, feed, wire, io, cache, reader, parameters, disconnected, shownLate, raced>>
  BY <1>0 DEF Follower!EnterConnect, ProxyTyped, ClientTyped, Follower!remoteVars,
       Follower!clientVars, Follower!proxyVars, Follower!counts
<1>2. \/ /\ io /\ UNCHANGED <<online, lock>>
         /\ \E place \in {"send", "none"} : Becomes(t, place, proc[t].back, proc[t].left, proc[t].reply)
      \/ /\ ~io /\ lock' = t /\ online' = online
         /\ Becomes(t, IF online THEN "online" ELSE "offline", "open", proc[t].left, proc[t].reply)
  <2>1. CASE io
    <3>1. PICK place \in {"send", "none"} : Follower!Goto(t, place) /\ UNCHANGED <<online, lock>>
      BY <2>1 DEF Follower!EnterConnect, Follower!Connected
    <3>2. place \in ProcPlaces
      BY DEF ProcPlaces
    <3>3. Becomes(t, place, proc[t].back, proc[t].left, proc[t].reply)
      BY <1>0, <1>1, <3>1, <3>2, GoesTo DEF ProxyTyped
    <3> QED
      BY <2>1, <3>1, <3>3
  <2>2. CASE ~io
    <3>1. lock' = t /\ Follower!SetState(t, online, "open")
      BY <2>2 DEF Follower!EnterConnect
    <3>2. "open" \in Backs \ {"none"}
      BY DEF Backs
    <3> QED
      BY <1>0, <1>1, <2>2, <3>1, <3>2, SetsState DEF ProxyTyped
  <2> QED
    BY <1>1, <2>1, <2>2
<1>3. /\ \A s \in FThreads : s # t => Stage(s)' = Stage(s)
      /\ Stage(t) = "enter" /\ Stage(t)' \in {"send", "none", "open"} /\ (Stage(t)' = "open" <=> lock' = t)
  BY <1>1, <1>2, HandlerIsOne DEF Stage, Becomes
<1>4. ProxyTyped'
  BY <1>0, <1>1, <1>2, <1>3, HandlerIsOne DEF ProxyTyped, Becomes, FeedTyped, RemoteTyped,
       CacheTyped, ParametersTyped, ClientTyped
<1>5. Connection'
  <2>1. \A s \in FThreads : Stage(s) \notin Connecting
    BY <1>0, <1>1, HandlerIsOne DEF Connection
  <2> QED
    BY <1>0, <1>1, <1>2, <1>3, <2>1, HandlerIsOne DEF Connection, Connecting
<1>6. Stages'
  BY <1>0, <1>1, <1>2, <1>3 DEF Stages, Becomes, Stage, Connection
<1>7. OnlineKnown'
  BY <1>0, <1>1, <1>2, <1>3 DEF OnlineKnown, Becomes, Stage, Connection
<1>8. StatusComes'
  BY <1>0, <1>1, <1>2, <1>3 DEF StatusComes, HeadIsStatus, Becomes
<1>9. OfflineTold'
  BY <1>0, <1>1, <1>2, <1>3 DEF OfflineTold, SaysOffline, Telling, Follower!Shown, Becomes
<1>10. UpToDate'
  BY <1>0, <1>1, <1>2, <1>3 DEF UpToDate, LastFor, OnTheWay, Cached, Follower!Shown
<1> QED
  BY <1>4, <1>5, <1>6, <1>7, <1>8, <1>9, <1>10 DEF ProxyInv

LEMMA OpenFailsKeeps ==
  ASSUME ProxyInv, NEW t \in FThreads, Follower!OpenFails(t)
  PROVE  ProxyInv'
<1>0. ProxyTyped /\ Connection /\ Stages /\ OnlineKnown /\ StatusComes /\ OfflineTold /\ UpToDate
  BY DEF ProxyInv
<1>1. /\ proc[t].at = "open" /\ online \in BOOLEAN /\ ~io
      /\ UNCHANGED <<remote, feed, wire, io, lock, cache, reader, parameters, disconnected, shownLate, raced>>
  BY <1>0 DEF Follower!OpenFails, ProxyTyped, ClientTyped, Stages, Stage, Follower!remoteVars,
       Follower!clientVars, Follower!proxyVars, Follower!counts
<1>2. online' = online /\ Becomes(t, IF online THEN "online" ELSE "offline", "raise", proc[t].left, proc[t].reply)
  <2>1. Follower!SetState(t, online, "raise") /\ "raise" \in Backs \ {"none"}
    BY DEF Follower!OpenFails, Backs
  <2> QED
    BY <1>0, <1>1, <2>1, SetsState DEF ProxyTyped
<1>3. /\ \A s \in FThreads : s # t => Stage(s)' = Stage(s)
      /\ Stage(t) = "open" /\ Stage(t)' = "raise"
  BY <1>1, <1>2 DEF Stage, Becomes
<1>4. ProxyTyped'
  BY <1>0, <1>1, <1>2, <1>3, HandlerIsOne DEF ProxyTyped, Becomes, FeedTyped, RemoteTyped,
       CacheTyped, ParametersTyped, ClientTyped
<1>5. Connection'
  BY <1>0, <1>1, <1>2, <1>3, HandlerIsOne DEF Connection, Becomes, Stage, Connecting
<1>6. Stages'
  BY <1>0, <1>1, <1>2, <1>3 DEF Stages, Becomes, Stage, Connection
<1>7. OnlineKnown'
  BY <1>0, <1>1, <1>2, <1>3 DEF OnlineKnown, Becomes, Stage, Connection
<1>8. StatusComes'
  BY <1>0, <1>1, <1>2, <1>3 DEF StatusComes, HeadIsStatus, Becomes
<1>9. OfflineTold'
  BY <1>0, <1>1, <1>2, <1>3 DEF OfflineTold, SaysOffline, Telling, Follower!Shown, Becomes
<1>10. UpToDate'
  BY <1>0, <1>1, <1>2, <1>3 DEF UpToDate, LastFor, OnTheWay, Cached, Follower!Shown
<1> QED
  BY <1>4, <1>5, <1>6, <1>7, <1>8, <1>9, <1>10 DEF ProxyInv

LEMMA StartedKeeps ==
  ASSUME ProxyInv, NEW t \in FThreads, Follower!Started(t)
  PROVE  ProxyInv'
<1>0. ProxyTyped /\ Connection /\ Stages /\ OnlineKnown /\ StatusComes /\ OfflineTold /\ UpToDate
  BY DEF ProxyInv
<1>1. /\ proc[t].at = "starting" /\ online \in BOOLEAN
      /\ UNCHANGED <<remote, feed, wire, io, lock, cache, reader, parameters, disconnected, shownLate, raced>>
  BY <1>0 DEF Follower!Started, ProxyTyped, ClientTyped, Follower!remoteVars,
       Follower!clientVars, Follower!proxyVars, Follower!counts
<1>2. \/ /\ proc[t].reply = "active" /\ online' = TRUE
         /\ Becomes(t, "online", "release", proc[t].left, proc[t].reply)
      \/ /\ proc[t].reply = "aborted" /\ online' = online /\ ~io
         /\ Becomes(t, IF online THEN "online" ELSE "offline", "raise", proc[t].left, proc[t].reply)
  <2>1. {"raise", "release"} \subseteq Backs \ {"none"}
    BY DEF Backs
  <2>2. CASE proc[t].reply = "active" /\ Follower!SetState(t, TRUE, "release")
    BY <1>0, <1>1, <2>1, <2>2, SetsState DEF ProxyTyped
  <2>3. CASE proc[t].reply = "aborted" /\ Follower!SetState(t, online, "raise")
    BY <1>0, <1>1, <2>1, <2>3, SetsState DEF ProxyTyped, Stages
  <2> QED
    BY <2>2, <2>3 DEF Follower!Started
<1>3. /\ \A s \in FThreads : s # t => Stage(s)' = Stage(s)
      /\ Stage(t) = "starting" /\ Stage(t)' \in {"release", "raise"} /\ (Stage(t)' = "raise" => ~io)
  BY <1>1, <1>2 DEF Stage, Becomes
<1>4. ~raced => online
  BY <1>0, <1>3 DEF OnlineKnown
<1>5. ProxyTyped'
  BY <1>0, <1>1, <1>2, <1>3, <1>4, HandlerIsOne DEF ProxyTyped, Becomes, FeedTyped, RemoteTyped,
       CacheTyped, ParametersTyped, ClientTyped
<1>6. Connection'
  BY <1>0, <1>1, <1>2, <1>3, <1>4, HandlerIsOne DEF Connection, Becomes, Stage, Connecting
<1>7. Stages'
  BY <1>0, <1>1, <1>2, <1>3, <1>4 DEF Stages, Becomes, Stage, Connection
<1>8. OnlineKnown'
  BY <1>0, <1>1, <1>2, <1>3, <1>4 DEF OnlineKnown, Becomes, Stage, Connection
<1>9. StatusComes'
  BY <1>0, <1>1, <1>2, <1>3, <1>4 DEF StatusComes, HeadIsStatus, Becomes
<1>10. OfflineTold'
  BY <1>0, <1>1, <1>2, <1>3, <1>4 DEF OfflineTold, SaysOffline, Telling, Follower!Shown, Becomes
<1>11. UpToDate'
  BY <1>0, <1>1, <1>2, <1>3, <1>4 DEF UpToDate, LastFor, OnTheWay, Cached, Follower!Shown
<1> QED
  BY <1>5, <1>6, <1>7, <1>8, <1>9, <1>10, <1>11 DEF ProxyInv

LEMMA ReleaseLockKeeps ==
  ASSUME ProxyInv, NEW t \in FThreads, Follower!ReleaseLock(t)
  PROVE  ProxyInv'
<1>0. ProxyTyped /\ Connection /\ Stages /\ OnlineKnown /\ StatusComes /\ OfflineTold /\ UpToDate
  BY DEF ProxyInv
<1>1. /\ proc[t].at \in {"release", "raise"} /\ lock' = NoThread
      /\ UNCHANGED <<remote, feed, wire, io, online, cache, reader, parameters, disconnected, shownLate, raced>>
  BY DEF Follower!ReleaseLock, Follower!remoteVars, Follower!clientVars, Follower!proxyVars,
       Follower!counts
<1>2. \E place \in {"send", "none", "failed"} : Becomes(t, place, proc[t].back, proc[t].left, proc[t].reply)
  <2>1. PICK place \in {"send", "none", "failed"} : Follower!Goto(t, place)
    BY DEF Follower!ReleaseLock, Follower!Connected
  <2>2. place \in ProcPlaces
    BY DEF ProcPlaces
  <2> QED
    BY <1>0, <1>1, <2>1, <2>2, GoesTo DEF ProxyTyped
<1>3. /\ \A s \in FThreads : s # t => Stage(s)' = Stage(s)
      /\ Stage(t) \in {"release", "raise"} /\ Stage(t)' \in {"send", "none", "failed"}
  BY <1>1, <1>2 DEF Stage, Becomes
<1>4. ProxyTyped'
  BY <1>0, <1>1, <1>2, <1>3, HandlerIsOne DEF ProxyTyped, Becomes, FeedTyped, RemoteTyped,
       CacheTyped, ParametersTyped, ClientTyped
<1>5. Connection'
  BY <1>0, <1>1, <1>2, <1>3, HandlerIsOne DEF Connection, Becomes, Stage, Connecting
<1>6. Stages'
  BY <1>0, <1>1, <1>2, <1>3 DEF Stages, Becomes, Stage, Connection
<1>7. OnlineKnown'
  BY <1>0, <1>1, <1>2, <1>3 DEF OnlineKnown, Becomes, Stage, Connection
<1>8. StatusComes'
  BY <1>0, <1>1, <1>2, <1>3 DEF StatusComes, HeadIsStatus, Becomes
<1>9. OfflineTold'
  BY <1>0, <1>1, <1>2, <1>3 DEF OfflineTold, SaysOffline, Telling, Follower!Shown, Becomes
<1>10. UpToDate'
  BY <1>0, <1>1, <1>2, <1>3 DEF UpToDate, LastFor, OnTheWay, Cached, Follower!Shown
<1> QED
  BY <1>4, <1>5, <1>6, <1>7, <1>8, <1>9, <1>10 DEF ProxyInv

LEMMA RetryKeeps ==
  ASSUME ProxyInv, NEW c \in FThreads, Follower!Retry(c)
  PROVE  ProxyInv'
<1>0. ProxyTyped /\ Connection /\ Stages /\ OnlineKnown /\ StatusComes /\ OfflineTold /\ UpToDate
  BY DEF ProxyInv
<1>1. /\ proc[c].at = "failed"
      /\ UNCHANGED <<remote, feed, wire, io, online, lock, cache, reader, parameters, disconnected, shownLate,
                     raced>>
  BY DEF Follower!Retry, Follower!remoteVars, Follower!clientVars, Follower!proxyVars,
       Follower!counts
<1>2. Becomes(c, "enter", proc[c].back, proc[c].left, proc[c].reply)
  <2>1. Follower!Goto(c, "enter") /\ "enter" \in ProcPlaces
    BY DEF Follower!Retry, ProcPlaces
  <2> QED
    BY <1>0, <1>1, <2>1, GoesTo DEF ProxyTyped
<1>3. /\ \A s \in FThreads : s # c => Stage(s)' = Stage(s)
      /\ Stage(c) = "failed" /\ Stage(c)' = "enter"
  BY <1>1, <1>2 DEF Stage, Becomes
<1>4. ProxyTyped'
  BY <1>0, <1>1, <1>2, <1>3, HandlerIsOne DEF ProxyTyped, Becomes, FeedTyped, RemoteTyped,
       CacheTyped, ParametersTyped, ClientTyped
<1>5. Connection'
  BY <1>0, <1>1, <1>2, <1>3, HandlerIsOne DEF Connection, Becomes, Stage, Connecting
<1>6. Stages'
  BY <1>0, <1>1, <1>2, <1>3 DEF Stages, Becomes, Stage, Connection
<1>7. OnlineKnown'
  BY <1>0, <1>1, <1>2, <1>3 DEF OnlineKnown, Becomes, Stage, Connection
<1>8. StatusComes'
  BY <1>0, <1>1, <1>2, <1>3 DEF StatusComes, HeadIsStatus, Becomes
<1>9. OfflineTold'
  BY <1>0, <1>1, <1>2, <1>3 DEF OfflineTold, SaysOffline, Telling, Follower!Shown, Becomes
<1>10. UpToDate'
  BY <1>0, <1>1, <1>2, <1>3 DEF UpToDate, LastFor, OnTheWay, Cached, Follower!Shown
<1> QED
  BY <1>4, <1>5, <1>6, <1>7, <1>8, <1>9, <1>10 DEF ProxyInv

LEMMA DecideOfflineKeeps ==
  ASSUME ProxyInv, NEW c \in FThreads, Follower!DecideOffline(c)
  PROVE  ProxyInv'
<1>0. ProxyTyped /\ Connection /\ Stages /\ OnlineKnown /\ StatusComes /\ OfflineTold /\ UpToDate
  BY DEF ProxyInv
<1>1. /\ proc[c].at = "failed"
      /\ UNCHANGED <<remote, feed, wire, io, online, lock, cache, reader, parameters, disconnected, shownLate,
                     raced>>
  BY DEF Follower!DecideOffline, Follower!remoteVars, Follower!clientVars, Follower!proxyVars,
       Follower!counts
<1>2. Becomes(c, "give up", proc[c].back, proc[c].left, proc[c].reply)
  <2>1. Follower!Goto(c, "give up") /\ "give up" \in ProcPlaces
    BY DEF Follower!DecideOffline, ProcPlaces
  <2> QED
    BY <1>0, <1>1, <2>1, GoesTo DEF ProxyTyped
<1>3. /\ \A s \in FThreads : s # c => Stage(s)' = Stage(s)
      /\ Stage(c) = "failed" /\ Stage(c)' = "give up"
  BY <1>1, <1>2 DEF Stage, Becomes
<1>4. ProxyTyped'
  BY <1>0, <1>1, <1>2, <1>3, HandlerIsOne DEF ProxyTyped, Becomes, FeedTyped, RemoteTyped,
       CacheTyped, ParametersTyped, ClientTyped
<1>5. Connection'
  BY <1>0, <1>1, <1>2, <1>3, HandlerIsOne DEF Connection, Becomes, Stage, Connecting
<1>6. Stages'
  BY <1>0, <1>1, <1>2, <1>3 DEF Stages, Becomes, Stage, Connection
<1>7. OnlineKnown'
  BY <1>0, <1>1, <1>2, <1>3 DEF OnlineKnown, Becomes, Stage, Connection
<1>8. StatusComes'
  BY <1>0, <1>1, <1>2, <1>3 DEF StatusComes, HeadIsStatus, Becomes
<1>9. OfflineTold'
  BY <1>0, <1>1, <1>2, <1>3 DEF OfflineTold, SaysOffline, Telling, Follower!Shown, Becomes
<1>10. UpToDate'
  BY <1>0, <1>1, <1>2, <1>3 DEF UpToDate, LastFor, OnTheWay, Cached, Follower!Shown
<1> QED
  BY <1>4, <1>5, <1>6, <1>7, <1>8, <1>9, <1>10 DEF ProxyInv

LEMMA GiveUpKeeps ==
  ASSUME ProxyInv, NEW c \in FThreads, Follower!GiveUp(c)
  PROVE  ProxyInv'
<1>0. ProxyTyped /\ Connection /\ Stages /\ OnlineKnown /\ StatusComes /\ OfflineTold /\ UpToDate
  BY DEF ProxyInv
<1>1. /\ proc[c].at = "give up" /\ raced' = (raced \/ io \/ lock # NoThread)
      /\ UNCHANGED <<remote, feed, wire, io, lock, cache, reader, parameters, disconnected, shownLate>>
      /\ raced' \in BOOLEAN
  BY <1>0 DEF Follower!GiveUp, ProxyTyped, ClientTyped, Follower!remoteVars, Follower!clientVars,
       Follower!proxyVars, Follower!counts
<1>2. online' = FALSE /\ Becomes(c, "offline", "enter", proc[c].left, proc[c].reply)
  <2>1. Follower!SetState(c, FALSE, "enter") /\ "enter" \in Backs \ {"none"}
    BY DEF Follower!GiveUp, Backs
  <2> QED
    BY <1>0, <1>1, <2>1, SetsState DEF ProxyTyped
<1>3. /\ \A s \in FThreads : s # c => Stage(s)' = Stage(s)
      /\ Stage(c) = "give up" /\ Stage(c)' = "enter"
  BY <1>1, <1>2 DEF Stage, Becomes
<1>4. ~raced' => /\ ~raced /\ ~io /\ feed = << >> /\ reader = "off" /\ wire = "none"
                 /\ \A s \in FThreads : Stage(s) \notin Connecting /\ proc[s].at \notin {"online", "show"}
  <2>1. ASSUME ~raced' PROVE ~raced /\ ~io /\ feed = << >> /\ reader = "off" /\ wire = "none"
    BY <1>0, <1>1, <2>1 DEF Connection, ProxyTyped, ClientTyped
  <2>2. ASSUME ~raced', NEW s \in FThreads PROVE Stage(s) \notin Connecting
    BY <1>0, <1>1, <2>2, HandlerIsOne DEF Connection
  <2>3. ASSUME ~raced', NEW s \in FThreads PROVE proc[s].at \notin {"online", "show"}
    <3>1. proc[s].at \in {"online", "show"} => proc[s].back \in Backs \ {"none", "enter"}
      BY <1>0 DEF ProxyTyped, ThreadsTyped, ProcFrames, Stages
    <3> QED
      BY <2>2, <2>3, <3>1 DEF Stage, Backs, Connecting
  <2> QED
    BY <2>1, <2>2, <2>3
<1>5. ProxyTyped'
  BY <1>0, <1>1, <1>2, <1>3, <1>4, HandlerIsOne DEF ProxyTyped, Becomes, FeedTyped, RemoteTyped,
       CacheTyped, ParametersTyped, ClientTyped
<1>6. Connection'
  BY <1>0, <1>1, <1>2, <1>3, <1>4, HandlerIsOne DEF Connection, Becomes, Stage, Connecting
<1>7. Stages'
  BY <1>0, <1>1, <1>2, <1>3, <1>4 DEF Stages, Becomes, Stage, Connection
<1>8. OnlineKnown'
  BY <1>0, <1>1, <1>2, <1>3, <1>4 DEF OnlineKnown, Becomes, Connecting
<1>9. StatusComes'
  BY <1>0, <1>1, <1>2, <1>4 DEF StatusComes, HeadIsStatus, Becomes
<1>10. OfflineTold'
  <2>1. \A p \in Params : SaysOffline(p)' = SaysOffline(p)
    BY <1>1 DEF SaysOffline, Follower!Shown
  <2>2. ~raced' /\ parameters["status"].value = Follower!DISCONNECTED => ~online
    BY <1>0, <1>4 DEF StatusComes, HeadIsStatus
  <2>3. ~raced' => \A s \in FThreads : proc'[s].at = "errors" =>
          ~online /\ proc[s].at = "errors" /\ proc'[s].left = proc[s].left
    BY <1>0, <1>2, <1>4 DEF OnlineKnown, Becomes
  <2>4. Telling(c)'
    BY <1>2 DEF Telling, Becomes
  <2> QED
    BY <1>0, <1>1, <1>4, <2>1, <2>2, <2>3, <2>4 DEF OfflineTold
<1>11. UpToDate'
  BY <1>0, <1>1, <1>2, <1>3, <1>4 DEF UpToDate, LastFor, OnTheWay, Cached, Follower!Shown
<1> QED
  BY <1>5, <1>6, <1>7, <1>8, <1>9, <1>10, <1>11 DEF ProxyInv

LEMMA OpenKeeps ==
  ASSUME ProxyInv, NEW t \in FThreads, Follower!Open(t)
  PROVE  ProxyInv'
<1>0. ProxyTyped /\ Connection /\ Stages /\ OnlineKnown /\ StatusComes /\ OfflineTold /\ UpToDate
  BY DEF ProxyInv
<1>1. /\ proc[t].at = "open" /\ ~io /\ reader = "off" /\ raced \in BOOLEAN
      /\ io' = TRUE /\ wire' = "open" /\ feed' = << >> /\ reader' = "read"
      /\ raced' = (raced \/ \E c \in FThreads : Follower!TakesOffline(c))
      /\ UNCHANGED <<remote, lock, cache, parameters, disconnected, shownLate>>
  BY <1>0 DEF Follower!Open, ProxyTyped, ClientTyped, Stages, Stage, Connection, FThreads,
       Follower!remoteVars, Follower!clientVars, Follower!proxyVars, Follower!counts
<1>2. online' = TRUE /\ Becomes(t, "online", "activate", proc[t].left, proc[t].reply)
  <2>1. Follower!SetState(t, TRUE, "activate") /\ "activate" \in Backs \ {"none"}
    BY DEF Follower!Open, Backs
  <2> QED
    BY <1>0, <1>1, <2>1, SetsState DEF ProxyTyped
<1>3. /\ \A s \in FThreads : s # t => Stage(s)' = Stage(s)
      /\ Stage(t) = "open" /\ Stage(t)' = "activate"
  BY <1>1, <1>2 DEF Stage, Becomes
<1>4. \A s \in FThreads : s # t => Stage(s) \notin Connecting
  BY <1>0, <1>3 DEF Connection, Connecting
<1>5. ~raced' => \A s \in FThreads : proc'[s].at \notin {"offline", "errors"}
  <2> SUFFICES ASSUME ~raced', NEW s \in FThreads, s # t PROVE proc[s].at \notin {"offline", "errors"}
    BY <1>2 DEF Becomes
  <2>1. proc[s].at \in {"offline", "errors"} => proc[s].back \in {"enter", "open", "raise"} /\ Stage(s) = proc[s].back
    BY <1>0 DEF Stages, Stage
  <2> QED
    BY <1>1, <1>4, <2>1 DEF Follower!TakesOffline, Connecting
<1>6. ProxyTyped'
  <2>1. FeedTyped'
    BY <1>1 DEF FeedTyped
  <2> QED
    BY <1>0, <1>1, <1>2, <2>1 DEF ProxyTyped, Becomes, RemoteTyped, CacheTyped, ParametersTyped,
         ClientTyped
<1>7. Connection'
  BY <1>0, <1>1, <1>2, <1>3, <1>4, <1>5, HandlerIsOne DEF Connection, Becomes, Stage, Connecting
<1>8. Stages'
  BY <1>0, <1>1, <1>2, <1>3, <1>4 DEF Stages, Becomes, Stage, Connecting
<1>9. OnlineKnown'
  BY <1>0, <1>1, <1>2, <1>3, <1>4, <1>5 DEF OnlineKnown, Becomes, Stage, Connection
<1>10. StatusComes'
  <2>1. Len(feed') = 0
    BY <1>1
  <2> QED
    BY <1>0, <1>1, <1>2, <2>1 DEF StatusComes, HeadIsStatus, Becomes
<1>11. OfflineTold'
  BY <1>0, <1>1, <1>2, <1>3, <1>4, <1>5 DEF OfflineTold, SaysOffline, Telling, Follower!Shown,
       Becomes
<1>12. UpToDate'
  BY <1>0, <1>1, <1>2, <1>3, <1>4, <1>5 DEF UpToDate, LastFor, OnTheWay, Cached, Follower!Shown
<1> QED
  BY <1>6, <1>7, <1>8, <1>9, <1>10, <1>11, <1>12 DEF ProxyInv

-----------------------------------------------------------------------------

\* What is sent for a request to activate: all parameters as they are, and the answer.
All == Follower!SetToSeq(Accessibles)

LEMMA AllOfThem ==
  /\ All \in Seq(Accessibles) /\ Len(All) \in Nat
  /\ \A p \in Accessibles : \E i \in 1 .. Len(All) : All[i] = p
  /\ \A i, j \in 1 .. Len(All) : All[i] = All[j] => i = j
<1> DEFINE n == Cardinality(Accessibles)
<1>1. IsFiniteSet(Accessibles)
  BY ProxyAssumption, FS_AddElement DEF Accessibles, Follower!Accessibles
<1>2. n \in Nat /\ ExistsBijection(1 .. n, Accessibles)
  BY <1>1, FS_CardinalityType
<1>3. \E f \in [1 .. n -> Accessibles] : Follower!IsInjective(f)
  BY <1>2 DEF ExistsBijection, Bijection, Injection, IsInjective, Follower!IsInjective
<1>4. Follower!Cardinality(Accessibles) = n
  BY DEF Follower!Cardinality, Cardinality, IsFiniteSet, Follower!IsFiniteSet
<1>5. All \in [1 .. n -> Accessibles] /\ Follower!IsInjective(All)
  BY <1>3, <1>4 DEF All, Follower!SetToSeq
<1> HIDE DEF n
<1>6. All \in Injection(1 .. n, Accessibles)
  BY <1>5 DEF Injection, IsInjective, Follower!IsInjective
<1>7. Cardinality(1 .. n) = n
  BY <1>2, FS_Interval
<1>8. All \in Surjection(1 .. n, Accessibles)
  BY <1>1, <1>6, <1>7, FS_Injection DEF n
<1>9. All \in Seq(Accessibles) /\ Len(All) = n
  BY <1>2, <1>5
<1>10. \A p \in Accessibles : \E i \in 1 .. n : All[i] = p
  BY <1>8 DEF Surjection
<1>11. \A i, j \in 1 .. n : All[i] = All[j] => i = j
  BY <1>5 DEF Follower!IsInjective
<1> QED
  BY <1>2, <1>9, <1>10, <1>11

LEMMA ActivatedIs ==
  ASSUME RemoteTyped, NEW t \in FThreads
  PROVE  /\ Follower!Activated(t) \in Seq(MessageSet)
         /\ Len(Follower!Activated(t)) = Len(All) + 1
         /\ \A i \in 1 .. Len(All) :
              Follower!Activated(t)[i] = [to |-> NoThread, param |-> All[i], item |-> remote[All[i]]]
         /\ Follower!Activated(t)[Len(All) + 1] = [to |-> t, param |-> "none", item |-> "active"]
<1> DEFINE values == [i \in 1 .. Len(All) |-> [to |-> NoThread, param |-> All[i], item |-> remote[All[i]]]]
           answer == [to |-> t, param |-> "none", item |-> "active"]
<1>1. Follower!Activated(t) = values \o <<answer>>
  BY DEF Follower!Activated, Follower!Message, All, Accessibles
<1>2. \A i \in 1 .. Len(All) : All[i] \in Accessibles /\ remote[All[i]] \in Remotes
  BY AllOfThem DEF RemoteTyped
<1>3. \A i \in 1 .. Len(All) : values[i] \in MessageSet
  BY <1>2 DEF MessageSet
<1>4. values \in Seq(MessageSet) /\ Len(values) = Len(All)
  <2> DEFINE n == Len(All)
  <2>1. n \in Nat /\ values \in [1 .. n -> MessageSet]
    BY <1>3, AllOfThem
  <2> HIDE DEF n, values
  <2>2. values \in Seq(MessageSet) /\ Len(values) = n
    BY <2>1
  <2> QED
    BY <2>2 DEF n
<1>5. answer \in MessageSet
  BY DEF MessageSet
<1>6. \A i \in 1 .. Len(All) : values[i] = [to |-> NoThread, param |-> All[i], item |-> remote[All[i]]]
  OBVIOUS
<1> HIDE DEF values, answer
<1>7. /\ values \o <<answer>> \in Seq(MessageSet) /\ Len(values \o <<answer>>) = Len(All) + 1
      /\ \A i \in 1 .. Len(All) : (values \o <<answer>>)[i] = values[i]
      /\ (values \o <<answer>>)[Len(All) + 1] = answer
  BY <1>4, <1>5, AllOfThem
<1> QED
  BY <1>1, <1>6, <1>7 DEF answer

LEMMA ActivateKeeps ==
  ASSUME ProxyInv, NEW t \in FThreads, Follower!Activate(t)
  PROVE  ProxyInv'
<1>0. ProxyTyped /\ Connection /\ Stages /\ OnlineKnown /\ StatusComes /\ OfflineTold /\ UpToDate
  BY DEF ProxyInv
<1>1. /\ proc[t].at = "activate" /\ wire # "active" /\ io \in BOOLEAN /\ online \in BOOLEAN
      /\ UNCHANGED <<remote, io, lock, cache, reader, parameters, disconnected, shownLate, raced>>
  BY <1>0 DEF Follower!Activate, ProxyTyped, ClientTyped, Stages, Stage, Follower!remoteVars,
       Follower!clientVars, Follower!proxyVars, Follower!counts
<1>2. \/ io /\ online' = online /\ Becomes(t, "starting", proc[t].back, proc[t].left, "none")
      \/ /\ ~io /\ online' = online
         /\ Becomes(t, IF online THEN "online" ELSE "offline", "open", proc[t].left, proc[t].reply)
  <2>1. CASE io
    <3>1. Follower!Send(t, "starting") /\ online' = online
      BY <2>1 DEF Follower!Activate
    <3> QED
      BY <1>0, <1>1, <2>1, <3>1, Sends DEF ProxyTyped
  <2>2. CASE ~io
    <3>1. Follower!SetState(t, online, "open") /\ "open" \in Backs \ {"none"}
      BY <2>2 DEF Follower!Activate, Backs
    <3> QED
      BY <1>0, <1>1, <2>2, <3>1, SetsState DEF ProxyTyped
  <2> QED
    BY <1>1, <2>1, <2>2
<1>3. \/ UNCHANGED <<feed, wire>>
      \/ io /\ wire = "open" /\ wire' = "active" /\ feed' = feed \o Follower!Activated(t)
  BY DEF Follower!Activate
<1>4. /\ \A s \in FThreads : s # t => Stage(s)' = Stage(s)
      /\ Stage(t) = "activate" /\ Stage(t)' \in {"starting", "open"} /\ (Stage(t)' = "open" => ~io)
  BY <1>1, <1>2 DEF Stage, Becomes
<1>5. \A s \in FThreads : s # t => Stage(s) \notin Connecting
  BY <1>0, <1>4 DEF Connection, Connecting
<1>6. /\ Len(feed) \in Nat /\ Len(All) \in Nat
      /\ feed' # feed =>
           /\ feed' \in Seq(MessageSet) /\ Len(feed') = Len(feed) + Len(All) + 1
           /\ \A i \in 1 .. Len(feed) : feed'[i] = feed[i]
           /\ \A i \in 1 .. Len(All) :
                feed'[Len(feed) + i] = [to |-> NoThread, param |-> All[i], item |-> remote[All[i]]]
           /\ feed'[Len(feed) + Len(All) + 1] = [to |-> t, param |-> "none", item |-> "active"]
  <2> DEFINE sent == Follower!Activated(t)
  <2>1. /\ sent \in Seq(MessageSet) /\ Len(sent) = Len(All) + 1 /\ Len(All) \in Nat
        /\ \A i \in 1 .. Len(All) :
             sent[i] = [to |-> NoThread, param |-> All[i], item |-> remote[All[i]]]
        /\ sent[Len(All) + 1] = [to |-> t, param |-> "none", item |-> "active"]
    BY <1>0, ActivatedIs, AllOfThem DEF ProxyTyped
  <2>2. feed \in Seq(MessageSet) /\ Len(feed) \in Nat
    BY <1>0 DEF ProxyTyped, FeedTyped
  <2>3. feed' # feed => feed' = feed \o sent
    BY <1>3
  <2> HIDE DEF sent
  <2>4. /\ feed \o sent \in Seq(MessageSet) /\ Len(feed \o sent) = Len(feed) + Len(sent)
        /\ \A i \in 1 .. Len(feed) : (feed \o sent)[i] = feed[i]
        /\ \A i \in 1 .. Len(sent) : (feed \o sent)[Len(feed) + i] = sent[i]
    BY <2>1, <2>2
  <2>5. Len(sent) = Len(All) + 1 /\ \A i \in 1 .. Len(All) : i \in 1 .. Len(sent)
    BY <2>1
  <2>6. ASSUME feed' = feed \o sent
        PROVE  /\ feed' \in Seq(MessageSet) /\ Len(feed') = Len(feed) + Len(All) + 1
               /\ \A i \in 1 .. Len(feed) : feed'[i] = feed[i]
               /\ \A i \in 1 .. Len(All) : feed'[Len(feed) + i] = sent[i]
               /\ feed'[Len(feed) + Len(All) + 1] = sent[Len(All) + 1]
    <3>1. feed'[Len(feed) + (Len(All) + 1)] = sent[Len(All) + 1]
      BY <2>1, <2>4, <2>5, <2>6
    <3>2. Len(feed) + (Len(All) + 1) = Len(feed) + Len(All) + 1
      BY <2>1, <2>2
    <3> QED
      BY <2>4, <2>5, <2>6, <3>1, <3>2
  <2> QED
    BY <2>1, <2>2, <2>3, <2>6
<1>7. feed' # feed => \A i \in 1 .. Len(feed') :
      \/ i \in 1 .. Len(feed) /\ feed'[i] = feed[i]
      \/ \E k \in 1 .. Len(All) : /\ i = Len(feed) + k
                                  /\ feed'[i] = [to |-> NoThread, param |-> All[k], item |-> remote[All[k]]]
      \/ i = Len(feed) + Len(All) + 1 /\ feed'[i] = [to |-> t, param |-> "none", item |-> "active"]
  <2> SUFFICES ASSUME feed' # feed, NEW i \in 1 .. Len(feed'), i \notin 1 .. Len(feed), i # Len(feed) + Len(All) + 1
               PROVE  \E k \in 1 .. Len(All) :
                        /\ i = Len(feed) + k
                        /\ feed'[i] = [to |-> NoThread, param |-> All[k], item |-> remote[All[k]]]
    BY <1>6
  <2>1. i - Len(feed) \in 1 .. Len(All) /\ i = Len(feed) + (i - Len(feed))
    BY <1>6
  <2> QED
    BY <1>6, <2>1
<1>8. /\ "none" \notin Accessibles /\ "status" \in Accessibles /\ remote["status"] # "failed"
      /\ \A k \in 1 .. Len(All) : All[k] \in Accessibles /\ remote[All[k]] \in Remotes
  BY <1>0, AllOfThem, ProxyAssumption DEF ProxyTyped, RemoteTyped, Accessibles,
       Follower!Accessibles
<1>9. wire' = IF feed' # feed THEN "active" ELSE wire
  <2>1. io /\ wire = "open" /\ wire' = "active" /\ feed' = feed \o Follower!Activated(t) => feed' # feed
    <3>1. Len(Follower!Activated(t)) = Len(All) + 1 /\ Follower!Activated(t) \in Seq(MessageSet)
      BY <1>0, ActivatedIs DEF ProxyTyped
    <3>2. feed \in Seq(MessageSet)
      BY <1>0 DEF ProxyTyped, FeedTyped
    <3>3. Len(feed \o Follower!Activated(t)) = Len(feed) + Len(All) + 1
      BY <3>1, <3>2
    <3> QED
      BY <1>6, <3>3
  <2> QED
    BY <1>3, <2>1
<1>10. ProxyTyped'
  <2>1. FeedTyped'
    <3>1. CASE feed' = feed
      BY <1>0, <3>1 DEF ProxyTyped, FeedTyped
    <3>2. CASE feed' # feed
      <4>1. \A i \in 1 .. Len(feed') : IsMessage(feed'[i])
        <5> SUFFICES ASSUME NEW i \in 1 .. Len(feed') PROVE IsMessage(feed'[i])
          OBVIOUS
        <5>1. CASE i \in 1 .. Len(feed) /\ feed'[i] = feed[i]
          BY <1>0, <5>1 DEF ProxyTyped, FeedTyped
        <5>2. ASSUME NEW k \in 1 .. Len(All),
                     feed'[i] = [to |-> NoThread, param |-> All[k], item |-> remote[All[k]]]
              PROVE  IsMessage(feed'[i])
          BY <1>8, <5>2 DEF IsMessage, MessageSet
        <5>3. CASE feed'[i] = [to |-> t, param |-> "none", item |-> "active"]
          BY <5>3 DEF IsMessage, MessageSet
        <5> QED
          BY <1>7, <3>2, <5>1, <5>2, <5>3
      <4> QED
        BY <1>6, <3>2, <4>1 DEF FeedTyped
    <3> QED
      BY <3>1, <3>2
  <2> QED
    BY <1>0, <1>1, <1>2, <1>3, <2>1 DEF ProxyTyped, Becomes, RemoteTyped, CacheTyped,
         ParametersTyped, ClientTyped
<1>11. Connection'
  <2>1. feed # << >> => feed' # << >>
    BY <1>0, <1>6 DEF ProxyTyped, FeedTyped
  <2>2. io' = (wire' # "none") /\ (~io' => feed' = << >>)
    BY <1>0, <1>1, <1>3 DEF Connection
  <2> QED
    BY <1>0, <1>1, <1>4, <2>1, <2>2 DEF Connection, Connecting
<1>12. Stages'
  BY <1>0, <1>1, <1>2, <1>4, <1>5 DEF Stages, Becomes, Stage, Connecting
<1>13. OnlineKnown'
  BY <1>0, <1>1, <1>2, <1>3, <1>4 DEF OnlineKnown, Becomes, Stage, Connection
<1>14. StatusComes'
  <2>1. ASSUME ~raced, NEW i \in 1 .. Len(feed'), feed'[i].param = "none" /\ feed'[i].item = "active"
        PROVE  ~disconnected \/ \E j \in 1 .. i - 1 : feed'[j].param = "status"
    <3>1. CASE feed' = feed
      BY <1>0, <2>1, <3>1 DEF StatusComes
    <3>2. CASE feed' # feed /\ i \in 1 .. Len(feed)
      BY <1>0, <1>6, <2>1, <3>2 DEF StatusComes
    <3>3. CASE feed' # feed /\ i \notin 1 .. Len(feed)
      <4>1. i = Len(feed) + Len(All) + 1
        <5>1. ASSUME NEW k \in 1 .. Len(All) PROVE feed'[Len(feed) + k].param # "none"
          <6>1. feed'[Len(feed) + k] = [to |-> NoThread, param |-> All[k], item |-> remote[All[k]]]
            BY <1>6, <3>3
          <6> QED
            BY <1>8, <6>1
        <5> QED
          BY <1>7, <2>1, <3>3, <5>1
      <4>2. PICK k \in 1 .. Len(All) : All[k] = "status"
        BY <1>8, AllOfThem
      <4>3. feed'[Len(feed) + k].param = "status" /\ Len(feed) + k \in 1 .. i - 1
        <5>1. feed'[Len(feed) + k] = [to |-> NoThread, param |-> All[k], item |-> remote[All[k]]]
          BY <1>6, <3>3
        <5> QED
          BY <1>6, <4>1, <4>2, <5>1
      <4> QED
        BY <4>3
    <3> QED
      BY <3>1, <3>2, <3>3
  <2>2. HeadIsStatus' = HeadIsStatus
    <3>1. reader = "announce" => feed'[1] = feed[1]
      <4>1. reader = "announce" => Len(feed) >= 1
        BY <1>0, <1>6 DEF Connection, ProxyTyped, FeedTyped
      <4> QED
        BY <1>6, <4>1
    <3> QED
      BY <1>1, <3>1 DEF HeadIsStatus
  <2> QED
    BY <1>0, <1>1, <1>2, <2>1, <2>2 DEF StatusComes, Becomes
<1>15. OfflineTold'
  BY <1>0, <1>1, <1>2, <1>3, <1>4 DEF OfflineTold, SaysOffline, Telling, Follower!Shown, Becomes
<1>16. UpToDate'
  <2>1. reader = "announce" => feed'[1] = feed[1]
    <3>1. reader = "announce" => Len(feed) >= 1
      BY <1>0, <1>6 DEF Connection, ProxyTyped, FeedTyped
    <3> QED
      BY <1>6, <3>1
  <2>2. reader' = "announce" /\ feed'[1].param # "none" => Cached(feed[1].param, feed[1].item)' /\ feed'[1] = feed[1]
    BY <1>0, <1>1, <2>1 DEF UpToDate, Cached
  <2>3. ASSUME wire' = "active", NEW p \in Accessibles
        PROVE  OnTheWay(p)' /\ \A i \in 1 .. Len(feed') : LastFor(p, i)' => feed'[i].item = remote[p]
    <3>1. feed' # feed
      BY <1>1, <1>9, <2>3
    <3>2. PICK k \in 1 .. Len(All) : All[k] = p
      BY AllOfThem
    <3>3. Len(feed) + k \in 1 .. Len(feed') /\ feed'[Len(feed) + k].param = p
      <4>1. feed'[Len(feed) + k] = [to |-> NoThread, param |-> All[k], item |-> remote[All[k]]]
        BY <1>6, <3>1
      <4> QED
        BY <1>6, <3>1, <3>2, <4>1
    <3>4. ASSUME NEW i \in 1 .. Len(feed'), LastFor(p, i)' PROVE feed'[i].item = remote[p]
      <4>1. i >= Len(feed) + k /\ feed'[i].param = p
        BY <3>3, <3>4 DEF LastFor
      <4>2. i \notin 1 .. Len(feed) /\ i # Len(feed) + Len(All) + 1
        BY <1>6, <1>8, <3>1, <4>1
      <4>3. PICK m \in 1 .. Len(All) : feed'[i] = [to |-> NoThread, param |-> All[m], item |-> remote[All[m]]]
        BY <1>7, <3>1, <4>2
      <4> QED
        BY <4>1, <4>3
    <3> QED
      BY <3>3, <3>4 DEF OnTheWay
  <2> QED
    BY <1>1, <2>2, <2>3 DEF UpToDate
<1> QED
  BY <1>10, <1>11, <1>12, <1>13, <1>14, <1>15, <1>16 DEF ProxyInv

-----------------------------------------------------------------------------

\* A message of the remote node is a value, a refusal or the answer to a request to activate.
LEMMA MessageIs ==
  ASSUME NEW m, IsMessage(m)
  PROVE  /\ "none" \notin Accessibles /\ m \in MessageSet
         /\ m.param # "none" => m.param \in Accessibles /\ m.item \in Remotes /\ m.item # "none"
         /\ m.param = "status" => m.item \in RemoteValues
         /\ m.param = "none" => m.item \in {"active", "refused"}
<1>1. "none" \notin Accessibles /\ "none" \notin RemoteValues
  BY ProxyAssumption DEF Accessibles, Follower!Accessibles
<1> QED
  BY <1>1 DEF IsMessage, MessageSet, Remotes

\* The rx thread sets replies only.
Rings ==
  /\ ThreadsTyped'
  /\ \A s \in FThreads : /\ proc'[s].at = proc[s].at /\ proc'[s].back = proc[s].back
                         /\ proc'[s].left = proc[s].left

LEMMA ReceiveKeeps ==
  ASSUME ProxyInv, Follower!Receive
  PROVE  ProxyInv'
<1>0. ProxyTyped /\ Connection /\ Stages /\ OnlineKnown /\ StatusComes /\ OfflineTold /\ UpToDate
  BY DEF ProxyInv
<1>1. /\ reader = "read" /\ reader' = "announce" /\ disconnected \in BOOLEAN
      /\ UNCHANGED <<remote, feed, wire, io, online, lock, parameters, shownLate, proc, raced>>
      /\ feed # << >> /\ feed \in Seq(MessageSet)
  BY <1>0 DEF Follower!Receive, ProxyTyped, ClientTyped, FeedTyped, Follower!remoteVars,
       Follower!clientVars, Follower!proxyVars, Follower!counts
<1>2. Len(feed) \in Nat /\ 1 \in 1 .. Len(feed) /\ Head(feed) = feed[1] /\ IsMessage(feed[1])
  BY <1>0, <1>1 DEF ProxyTyped, FeedTyped
<1>3. /\ cache' = IF feed[1].param = "none" THEN cache ELSE [cache EXCEPT ![feed[1].param] = feed[1].item]
      /\ disconnected' = (disconnected /\ feed[1].param # "status")
  <2>1. RemoteValues \cap Follower!Errors = {}
    BY ProxyAssumption DEF Follower!Errors
  <2> QED
    BY <1>2, <2>1, MessageIs DEF Follower!Receive, Follower!StatusReplaces
<1>4. /\ \A p \in Accessibles : p # feed[1].param => cache'[p] = cache[p]
      /\ feed[1].param # "none" => cache'[feed[1].param] = feed[1].item /\ feed[1].param \in Accessibles
  BY <1>0, <1>2, <1>3, MessageIs DEF ProxyTyped, CacheTyped
<1>5. ProxyTyped'
  <2>1. CacheTyped'
    BY <1>0, <1>2, <1>3, MessageIs, ProxyAssumption DEF ProxyTyped, CacheTyped, Remotes
  <2> QED
    BY <1>0, <1>1, <1>3, <2>1 DEF ProxyTyped, ThreadsTyped, FeedTyped, RemoteTyped,
         ParametersTyped, ClientTyped
<1>6. Connection'
  BY <1>0, <1>1 DEF Connection, Stage
<1>7. Stages'
  BY <1>0, <1>1 DEF Stages, Stage
<1>8. OnlineKnown'
  BY <1>0, <1>1 DEF OnlineKnown, Stage
<1>9. StatusComes'
  BY <1>0, <1>1, <1>2, <1>3 DEF StatusComes, HeadIsStatus
<1>10. OfflineTold'
  BY <1>0, <1>1 DEF OfflineTold, SaysOffline, Telling, Follower!Shown
<1>11. UpToDate'
  <2>1. \A p \in Accessibles : ~OnTheWay(p) => p # feed[1].param
    BY <1>2 DEF OnTheWay
  <2>2. \A p \in Accessibles : p # feed[1].param => Cached(p, remote[p])' = Cached(p, remote[p])
    BY <1>1, <1>4 DEF Cached
  <2>3. /\ \A p \in Accessibles : OnTheWay(p)' = OnTheWay(p) /\ Follower!Shown(p)' = Follower!Shown(p)
        /\ \A p \in Accessibles, i \in 1 .. Len(feed) : LastFor(p, i)' = LastFor(p, i)
    BY <1>1 DEF OnTheWay, LastFor, Follower!Shown
  <2>4. feed'[1].param # "none" => Cached(feed[1].param, feed[1].item)'
    BY <1>1, <1>4 DEF Cached
  <2> QED
    BY <1>0, <1>1, <2>1, <2>2, <2>3, <2>4 DEF UpToDate
<1> QED
  BY <1>5, <1>6, <1>7, <1>8, <1>9, <1>10, <1>11 DEF ProxyInv

LEMMA UpdateEventKeeps ==
  ASSUME ProxyInv, Follower!UpdateEvent
  PROVE  ProxyInv'
<1>0. ProxyTyped /\ Connection /\ Stages /\ OnlineKnown /\ StatusComes /\ OfflineTold /\ UpToDate
  BY DEF ProxyInv
<1>1. /\ reader = "announce" /\ reader' = "read"
      /\ UNCHANGED <<remote, wire, io, online, lock, cache, disconnected, raced>>
      /\ feed' = Tail(feed) /\ feed # << >> /\ feed \in Seq(MessageSet)
  BY <1>0 DEF Follower!UpdateEvent, ProxyTyped, FeedTyped, Connection, Follower!remoteVars,
       Follower!clientVars, Follower!proxyVars, Follower!counts
<1>2. /\ Len(feed) \in Nat /\ 1 \in 1 .. Len(feed) /\ Head(feed) = feed[1] /\ IsMessage(feed[1])
      /\ feed' \in Seq(MessageSet) /\ Len(feed') = Len(feed) - 1
      /\ \A i \in 1 .. Len(feed') : feed'[i] = feed[i + 1] /\ i + 1 \in 1 .. Len(feed)
  BY <1>0, <1>1 DEF ProxyTyped, FeedTyped
<1>3. /\ Rings
      /\ \A s \in FThreads : proc'[s].reply # proc[s].reply =>
           proc'[s].reply \in {"active", "refused", "done"}
           /\ (proc'[s].reply = "active" => feed[1].param = "none" /\ feed[1].item = "active")
  <2>1. CASE proc' = proc
    BY <1>0, <2>1 DEF ProxyTyped, ThreadsTyped, Rings
  <2>2. CASE proc' # proc
    <3> DEFINE to == feed[1].to
               answer == IF feed[1].param = "none" THEN feed[1].item ELSE "done"
    <3>1. proc' = [proc EXCEPT ![to].reply = answer] /\ to # NoThread
      BY <1>2, <2>2 DEF Follower!UpdateEvent
    <3>2. to \in FThreads
      BY <1>2, <3>1, MessageIs DEF MessageSet
    <3>3. answer \in {"active", "refused", "done"} /\ (answer = "active" => feed[1].param = "none" /\ feed[1].item = "active")
      BY <1>2, MessageIs
    <3> HIDE DEF to, answer
    <3>4. /\ \A s \in FThreads : s # to => proc'[s] = proc[s]
          /\ proc'[to] = [proc[to] EXCEPT !.reply = answer]
      BY <1>0, <3>1, <3>2 DEF ProxyTyped, ThreadsTyped
    <3>5. /\ proc'[to].reply = answer /\ proc'[to].at = proc[to].at /\ proc'[to].back = proc[to].back
          /\ proc'[to].left = proc[to].left /\ proc'[to].op = proc[to].op /\ proc'[to].item = proc[to].item
      BY <1>0, <3>2, <3>4 DEF ProxyTyped, ThreadsTyped, ProcFrames
    <3>6. proc'[to] \in ProcFrames
      BY <1>0, <3>2, <3>3, <3>4 DEF ProxyTyped, ThreadsTyped, ProcFrames, Replies
    <3>7. proc' \in [FThreads -> ProcFrames]
      BY <1>0, <3>1, <3>4, <3>6 DEF ProxyTyped, ThreadsTyped
    <3>8. \A s \in FThreads : /\ proc'[s].at = proc[s].at /\ proc'[s].back = proc[s].back
                              /\ proc'[s].left = proc[s].left /\ proc'[s].op = proc[s].op
                              /\ proc'[s].item = proc[s].item /\ (s # to => proc'[s].reply = proc[s].reply)
      BY <3>4, <3>5
    <3>9. ThreadsTyped'
      BY <1>0, <3>7, <3>8, HandlerIsOne DEF ProxyTyped, ThreadsTyped
    <3> QED
      BY <3>3, <3>5, <3>8, <3>9 DEF Rings
  <2> QED
    BY <2>1, <2>2
<1>4. /\ ParametersTyped'
      /\ \A p \in Accessibles : p # feed[1].param =>
           /\ parameters'[p] = parameters[p] /\ Follower!Shown(p)' = Follower!Shown(p)
           /\ (p \in shownLate <=> p \in shownLate')
      /\ \A p \in Accessibles : p = feed[1].param => Follower!Shown(p)' = feed[1].item
      /\ feed[1].param = "status" => /\ parameters'["status"].value # Follower!DISCONNECTED
                                     /\ parameters'["status"].readerror = "none"
      /\ shownLate' \subseteq shownLate
  <2>1. CASE feed[1].param = "none"
    <3>1. parameters' = parameters /\ shownLate' = shownLate
      BY <1>2, <2>1 DEF Follower!UpdateEvent
    <3> QED
      BY <1>0, <1>2, <2>1, <3>1, MessageIs DEF ProxyTyped, ParametersTyped, Follower!Shown
  <2>2. CASE feed[1].param # "none"
    <3>1. /\ parameters' = Follower!Announced(feed[1].param, feed[1].item)
          /\ shownLate' = shownLate \ {feed[1].param}
      BY <1>2, <2>2 DEF Follower!UpdateEvent
    <3>2. /\ feed[1].param \in Accessibles /\ feed[1].item # "none"
          /\ feed[1].param = "status" => feed[1].item \in RemoteValues
      BY <1>2, <2>2, MessageIs
    <3>3. \A v \in RemoteValues : v \notin Follower!Errors /\ v # Follower!DISCONNECTED
      BY ProxyAssumption DEF Follower!Errors, Follower!DISCONNECTED
    <3>4. ParametersTyped
      BY <1>0 DEF ProxyTyped
    <3>5. PICK p \in Accessibles : p = feed[1].param
      BY <3>2
    <3>6. PICK item : item = feed[1].item
      OBVIOUS
    <3>7. /\ ParametersTyped' /\ Follower!Shown(p)' = item
          /\ \A q \in Accessibles : q # p =>
               parameters'[q] = parameters[q] /\ Follower!Shown(q)' = Follower!Shown(q)
          /\ item \notin Follower!Errors => parameters'[p].value = item /\ parameters'[p].readerror = "none"
      <4>1. parameters' = Follower!Announced(p, item) /\ item # "none"
        BY <3>1, <3>2, <3>5, <3>6
      <4> QED
        BY <3>4, <4>1, Announces
    <3> QED
      BY <2>2, <3>1, <3>2, <3>3, <3>5, <3>6, <3>7
  <2> QED
    BY <2>1, <2>2
<1>5. io /\ (~raced => online)
  BY <1>0, <1>1 DEF Connection, OnlineKnown
<1>6. /\ "status" \in Accessibles /\ Params \subseteq Accessibles /\ "none" \notin Accessibles
  BY ProxyAssumption DEF Accessibles, Follower!Accessibles
<1>7. ProxyTyped'
  <2>1. FeedTyped'
    BY <1>0, <1>2 DEF ProxyTyped, FeedTyped
  <2> QED
    BY <1>0, <1>1, <1>3, <1>4, <2>1 DEF ProxyTyped, Rings, RemoteTyped, CacheTyped, ClientTyped
<1>8. Connection'
  BY <1>0, <1>1, <1>3, <1>5 DEF Connection, Stage, Rings
<1>9. Stages'
  BY <1>0, <1>1, <1>3 DEF Stages, Stage, Rings
<1>10. OnlineKnown'
  BY <1>0, <1>1, <1>3 DEF OnlineKnown, Stage, Rings
<1>11. StatusComes'
  <2>1. ASSUME ~raced, NEW i \in 1 .. Len(feed'), feed'[i].param = "none", feed'[i].item = "active", disconnected
        PROVE  \E j \in 1 .. i - 1 : feed'[j].param = "status"
    <3>1. PICK j \in 1 .. i : feed[j].param = "status"
      <4>1. i + 1 \in 1 .. Len(feed) /\ feed[i + 1].param = "none" /\ feed[i + 1].item = "active"
        BY <1>2, <2>1
      <4>2. \E j \in 1 .. (i + 1) - 1 : feed[j].param = "status"
        BY <1>0, <2>1, <4>1 DEF StatusComes
      <4> QED
        BY <1>2, <4>2
    <3>2. j # 1
      BY <1>0, <1>1, <2>1, <3>1 DEF StatusComes, HeadIsStatus
    <3>3. j - 1 \in 1 .. i - 1 /\ j - 1 \in 1 .. Len(feed') /\ (j - 1) + 1 = j
      BY <1>2, <3>1, <3>2
    <3> QED
      BY <1>2, <3>1, <3>3
  <2>2. ASSUME ~raced, NEW s \in FThreads, proc'[s].at = "starting", proc'[s].reply = "active"
        PROVE  ~disconnected
    <3>1. CASE proc[s].reply = "active"
      BY <1>0, <1>3, <2>2, <3>1 DEF StatusComes, Rings
    <3>2. CASE feed[1].param = "none" /\ feed[1].item = "active"
      BY <1>0, <1>2, <2>2, <3>2 DEF StatusComes
    <3> QED
      BY <1>3, <2>2, <3>1, <3>2
  <2>3. parameters'["status"].value = Follower!DISCONNECTED =>
          parameters["status"].value = Follower!DISCONNECTED /\ ~HeadIsStatus
    BY <1>4, <1>6 DEF HeadIsStatus
  <2>4. ~HeadIsStatus'
    BY <1>1 DEF HeadIsStatus
  <2> QED
    BY <1>0, <1>1, <1>3, <2>1, <2>2, <2>3, <2>4 DEF StatusComes, Rings
<1>12. OfflineTold'
  <2>1. parameters'["status"].readerror # "none" => "status" \in shownLate'
    BY <1>0, <1>4, <1>6 DEF OfflineTold
  <2> QED
    BY <1>1, <1>5, <2>1 DEF OfflineTold
<1>13. UpToDate'
  <2>1. ASSUME wire = "active", NEW p \in Accessibles, NEW i \in 1 .. Len(feed'), LastFor(p, i)'
        PROVE  feed'[i].item = remote[p]
    <3>1. i + 1 \in 1 .. Len(feed) /\ feed'[i] = feed[i + 1]
      BY <1>2
    <3>2. ASSUME NEW j \in 1 .. Len(feed), feed[j].param = p PROVE j <= i + 1
      <4>1. CASE j = 1
        BY <4>1
      <4>2. CASE j # 1
        <5>1. j - 1 \in 1 .. Len(feed') /\ feed'[j - 1] = feed[j]
          BY <1>2, <4>2
        <5>2. j - 1 <= i
          BY <2>1, <3>2, <5>1 DEF LastFor
        <5> QED
          BY <5>2
      <4> QED
        BY <4>1, <4>2
    <3>3. LastFor(p, i + 1)
      BY <2>1, <3>1, <3>2 DEF LastFor
    <3> QED
      BY <1>0, <2>1, <3>1, <3>3 DEF UpToDate
  <2>2. ASSUME wire = "active", NEW p \in Accessibles, ~OnTheWay(p)'
        PROVE  /\ Cached(p, remote[p])
               /\ ~raced => p \in shownLate' \/ Follower!Shown(p)' = remote[p]
    <3>1. \A j \in 1 .. Len(feed) : feed[j].param = p => j = 1
      <4> SUFFICES ASSUME NEW j \in 1 .. Len(feed), j # 1 PROVE feed[j].param # p
        OBVIOUS
      <4>1. j - 1 \in 1 .. Len(feed') /\ feed'[j - 1] = feed[j]
        BY <1>2
      <4> QED
        BY <2>2, <4>1 DEF OnTheWay
    <3>2. CASE feed[1].param = p
      <4>1. LastFor(p, 1)
        BY <3>1, <3>2 DEF LastFor
      <4>2. feed[1].item = remote[p] /\ feed[1].param # "none"
        BY <1>0, <1>2, <1>6, <2>2, <3>2, <4>1 DEF UpToDate
      <4> QED
        BY <1>0, <1>1, <1>4, <3>2, <4>2 DEF UpToDate
    <3>3. CASE feed[1].param # p
      <4>1. ~OnTheWay(p)
        BY <3>1, <3>3 DEF OnTheWay
      <4> QED
        BY <1>0, <1>4, <2>2, <3>3, <4>1 DEF UpToDate
    <3> QED
      BY <3>2, <3>3
  <2> QED
    BY <1>1, <2>1, <2>2 DEF UpToDate, Cached
<1> QED
  BY <1>7, <1>8, <1>9, <1>10, <1>11, <1>12, <1>13 DEF ProxyInv

LEMMA ConnectionClosedKeeps ==
  ASSUME ProxyInv, Follower!ConnectionClosed
  PROVE  ProxyInv'
<1>0. ProxyTyped /\ Connection /\ Stages /\ OnlineKnown /\ StatusComes /\ OfflineTold /\ UpToDate
  BY DEF ProxyInv
<1>1. /\ wire = "lost" /\ feed = << >> /\ wire' = "none" /\ io' = FALSE /\ reader = "read" /\ reader' = "off"
      /\ UNCHANGED <<remote, feed, online, lock, cache, parameters, disconnected, shownLate, raced>>
  BY DEF Follower!ConnectionClosed, Follower!remoteVars, Follower!clientVars, Follower!proxyVars,
       Follower!counts
<1>2. PICK c \in Connectors :
      /\ proc[c].at = "none"
      /\ proc' = [t \in FThreads |->
           CASE t = c -> [Follower!Idle EXCEPT !.at = "enter"]
             [] proc[t].at \in {"starting", "reply"} /\ proc[t].reply = "none" ->
                  [proc[t] EXCEPT !.reply = "aborted"]
             [] OTHER -> proc[t]]
  BY DEF Follower!ConnectionClosed, FThreads
<1>3. c \in FThreads /\ c # Handler
  BY ProxyAssumption DEF FThreads, Follower!Threads
<1>4. /\ proc'[c] = [at |-> "enter", back |-> "none", left |-> {}, reply |-> "none",
                     op |-> "none", param |-> "status", item |-> "none"]
      /\ \A s \in FThreads : s # c => proc'[s] = proc[s] \/ proc'[s] = [proc[s] EXCEPT !.reply = "aborted"]
  BY <1>2, <1>3 DEF Follower!Idle
<1>5. \A s \in FThreads : s # c =>
      /\ proc'[s] \in ProcFrames
      /\ proc'[s].at = proc[s].at /\ proc'[s].back = proc[s].back /\ proc'[s].left = proc[s].left
      /\ proc'[s].op = proc[s].op /\ proc'[s].item = proc[s].item
      /\ proc'[s].reply \in {proc[s].reply, "aborted"}
  <2> SUFFICES ASSUME NEW s \in FThreads, s # c
               PROVE  /\ proc'[s] \in ProcFrames
                      /\ proc'[s].at = proc[s].at /\ proc'[s].back = proc[s].back /\ proc'[s].left = proc[s].left
                      /\ proc'[s].op = proc[s].op /\ proc'[s].item = proc[s].item
                      /\ proc'[s].reply \in {proc[s].reply, "aborted"}
    OBVIOUS
  <2>1. proc[s] \in ProcFrames
    BY <1>0 DEF ProxyTyped, ThreadsTyped
  <2>2. CASE proc'[s] = proc[s]
    BY <2>1, <2>2
  <2>3. CASE proc'[s] = [proc[s] EXCEPT !.reply = "aborted"]
    BY <2>1, <2>3 DEF ProcFrames, Replies
  <2> QED
    BY <1>4, <2>2, <2>3
<1>6. ThreadsTyped' 
  <2>1. proc'[c] \in ProcFrames
    BY <1>4, ProxyAssumption DEF ProcFrames, ProcPlaces, Backs, Replies, Accessibles,
         Follower!Accessibles
  <2>2. proc' \in [FThreads -> ProcFrames]
    <3>1. \A s \in FThreads : proc'[s] \in ProcFrames
      BY <1>5, <2>1
    <3>2. DOMAIN proc' = FThreads /\ proc' = [s \in FThreads |-> proc'[s]]
      BY <1>2
    <3> QED
      BY <3>1, <3>2
  <2> QED
    BY <1>0, <1>3, <1>4, <1>5, <2>2, HandlerIsOne DEF ProxyTyped, ThreadsTyped
<1>7. Stage(c) = "none" /\ Stage(c)' = "enter" /\ \A s \in FThreads : s # c => Stage(s)' = Stage(s)
  BY <1>2, <1>4, <1>5 DEF Stage
<1>8. ProxyTyped'
  BY <1>0, <1>1, <1>6 DEF ProxyTyped, FeedTyped, RemoteTyped, CacheTyped, ParametersTyped,
       ClientTyped
<1>9. Connection'
  BY <1>0, <1>1, <1>3, <1>7 DEF Connection, Connecting
<1>10. Stages'
  BY <1>0, <1>1, <1>3, <1>4, <1>5, <1>7 DEF Stages
<1>11. OnlineKnown'
  BY <1>0, <1>1, <1>3, <1>4, <1>5, <1>7 DEF OnlineKnown
<1>12. StatusComes'
  BY <1>0, <1>1, <1>2, <1>3, <1>4, <1>5 DEF StatusComes, HeadIsStatus
<1>13. OfflineTold'
  BY <1>0, <1>1, <1>2, <1>3, <1>4, <1>5 DEF OfflineTold, SaysOffline, Telling, Follower!Shown
<1>14. UpToDate'
  BY <1>1 DEF UpToDate
<1> QED
  BY <1>8, <1>9, <1>10, <1>11, <1>12, <1>13, <1>14 DEF ProxyInv

-----------------------------------------------------------------------------

\* Messages are sent to the client which say what p is now, or that a change was refused.
Extends(p) ==
  /\ feed' \in Seq(MessageSet) /\ Len(feed) <= Len(feed')
  /\ \A i \in 1 .. Len(feed) : feed'[i] = feed[i]
  /\ \A i \in 1 .. Len(feed') : i > Len(feed) =>
       /\ IsMessage(feed'[i])
       /\ \/ feed'[i].param = "none" /\ feed'[i].item = "refused"
          \/ feed'[i].param = p /\ feed'[i].item = remote'[p]
  /\ RemoteTyped' /\ \A q \in Accessibles : q # p => remote'[q] = remote[q]
  /\ wire = "active" /\ remote'[p] # remote[p] =>
       \E i \in 1 .. Len(feed') : i > Len(feed) /\ feed'[i].param = p

\* What is on the way stays in order.
Answered == ~raced => \A i \in 1 .. Len(feed) : feed[i].param = "none" /\ feed[i].item = "active" =>
              ~disconnected \/ \E j \in 1 .. i - 1 : feed[j].param = "status"

LEMMA Extending ==
  ASSUME ProxyInv, NEW p \in Accessibles, Extends(p),
         UNCHANGED <<wire, cache, reader, parameters, disconnected, shownLate, raced>>
  PROVE  FeedTyped' /\ Answered' /\ HeadIsStatus' = HeadIsStatus /\ UpToDate'
<1>1. /\ Len(feed) \in Nat /\ Len(feed') \in Nat /\ FeedTyped /\ Answered /\ UpToDate
      /\ "none" \notin Accessibles /\ (reader = "announce" => 1 \in 1 .. Len(feed))
  <2>1. FeedTyped /\ Answered /\ UpToDate /\ (reader = "announce" => feed # << >>)
    BY DEF ProxyInv, ProxyTyped, StatusComes, Answered, Connection
  <2>2. "none" \notin Accessibles
    BY ProxyAssumption DEF Accessibles, Follower!Accessibles
  <2> QED
    BY <2>1, <2>2 DEF FeedTyped, Extends
<1>2. FeedTyped'
  <2>1. \A i \in 1 .. Len(feed') : i \in 1 .. Len(feed) \/ i > Len(feed)
    BY <1>1
  <2> QED
    BY <1>1, <2>1 DEF FeedTyped, Extends
<1>3. \A i \in 1 .. Len(feed) : i \in 1 .. Len(feed') /\ feed'[i] = feed[i]
  BY <1>1 DEF Extends
<1>4. \A i \in 1 .. Len(feed') : i \notin 1 .. Len(feed) => i > Len(feed)
  BY <1>1
<1>5. Answered'
  <2> SUFFICES ASSUME ~raced, NEW i \in 1 .. Len(feed'), feed'[i].param = "none", feed'[i].item = "active",
                      disconnected
               PROVE  \E j \in 1 .. i - 1 : feed'[j].param = "status"
    BY DEF Answered
  <2>1. i \in 1 .. Len(feed)
    BY <1>1, <1>4 DEF Extends
  <2>2. PICK j \in 1 .. i - 1 : feed[j].param = "status"
    BY <1>1, <1>3, <2>1 DEF Answered
  <2>3. feed'[j] = feed[j]
    BY <1>1, <1>3, <2>1, <2>2
  <2> QED
    BY <2>2, <2>3
<1>6. reader = "announce" => feed'[1] = feed[1]
  BY <1>1, <1>3
<1>7. HeadIsStatus' = HeadIsStatus
  BY <1>6 DEF HeadIsStatus
<1>8. ASSUME wire = "active", NEW q \in Accessibles, NEW i \in 1 .. Len(feed'), LastFor(q, i)'
      PROVE  feed'[i].item = remote'[q]
  <2>1. CASE i \notin 1 .. Len(feed)
    <3>1. feed'[i].param = q
      BY <1>8 DEF LastFor
    <3> QED
      BY <1>1, <1>4, <1>8, <2>1, <3>1 DEF Extends
  <2>2. CASE i \in 1 .. Len(feed)
    <3>1. LastFor(q, i)
      BY <1>3, <1>8, <2>2 DEF LastFor
    <3>2. feed[i].item = remote[q]
      BY <1>1, <1>8, <2>2, <3>1 DEF UpToDate
    <3>3. remote'[q] = remote[q]
      <4>1. \A j \in 1 .. Len(feed') : j > Len(feed) => feed'[j].param # q
        BY <1>1, <1>8, <2>2 DEF LastFor
      <4> QED
        BY <1>8, <4>1 DEF Extends
    <3> QED
      BY <1>3, <2>2, <3>2, <3>3
  <2> QED
    BY <2>1, <2>2
<1>9. ASSUME wire = "active", NEW q \in Accessibles, ~OnTheWay(q)'
      PROVE  remote'[q] = remote[q] /\ ~OnTheWay(q)
  <2>1. \A j \in 1 .. Len(feed') : feed'[j].param # q
    BY <1>9 DEF OnTheWay
  <2>2. ~OnTheWay(q)
    BY <1>3, <2>1 DEF OnTheWay
  <2>3. remote'[q] = remote[q]
    BY <1>9, <2>1 DEF Extends
  <2> QED
    BY <2>2, <2>3
<1>10. UpToDate'
  BY <1>1, <1>6, <1>8, <1>9 DEF UpToDate, Cached, Follower!Shown
<1> QED
  BY <1>2, <1>5, <1>7, <1>10

LEMMA RemoteChangesKeeps ==
  ASSUME ProxyInv, NEW p \in Accessibles, NEW item \in Remotes, Follower!RemoteChanges(p, item)
  PROVE  ProxyInv'
<1>0. ProxyTyped /\ Connection /\ Stages /\ OnlineKnown /\ StatusComes /\ OfflineTold /\ UpToDate
  BY DEF ProxyInv
<1>1. /\ UNCHANGED <<wire, io, online, lock, cache, reader, parameters, disconnected, shownLate, raced, proc>>
      /\ remote' = [remote EXCEPT ![p] = item] /\ (item = "failed" => p # "status")
      /\ feed' = IF wire = "active" THEN Append(feed, [to |-> NoThread, param |-> p, item |-> item]) ELSE feed
  BY ProxyAssumption DEF Follower!RemoteChanges, Follower!Message, Follower!remoteVars,
       Follower!clientVars, Follower!proxyVars, Follower!counts
<1>2. /\ RemoteTyped' /\ remote'[p] = item /\ \A q \in Accessibles : q # p => remote'[q] = remote[q]
      /\ feed \in Seq(MessageSet) /\ Len(feed) \in Nat /\ "none" \notin Accessibles
  BY <1>0, <1>1, ProxyAssumption DEF ProxyTyped, RemoteTyped, FeedTyped, Accessibles,
       Follower!Accessibles
<1>3. Extends(p)
  <2>1. CASE wire = "active"
    <3> DEFINE m == [to |-> NoThread, param |-> p, item |-> item]
    <3>1. IsMessage(m) /\ m \in MessageSet /\ m.param = p /\ m.item = item
      BY <1>1, <1>2 DEF IsMessage, MessageSet
    <3>2. feed' = Append(feed, m)
      BY <1>1, <2>1
    <3> HIDE DEF m
    <3>3. /\ feed' \in Seq(MessageSet) /\ Len(feed') = Len(feed) + 1 /\ feed'[Len(feed) + 1] = m
          /\ \A i \in 1 .. Len(feed) : feed'[i] = feed[i]
      BY <1>2, <3>1, <3>2
    <3>4. \A i \in 1 .. Len(feed') : i > Len(feed) => i = Len(feed) + 1
      BY <1>2, <3>3
    <3>5. Len(feed) + 1 \in 1 .. Len(feed') /\ Len(feed) + 1 > Len(feed) /\ Len(feed) <= Len(feed')
      BY <1>2, <3>3
    <3> QED
      BY <1>2, <3>1, <3>3, <3>4, <3>5 DEF Extends
  <2>2. CASE wire # "active"
    <3>1. feed' = feed /\ \A i \in 1 .. Len(feed') : ~(i > Len(feed))
      BY <1>1, <1>2, <2>2
    <3> QED
      BY <1>2, <2>2, <3>1 DEF Extends
  <2> QED
    BY <2>1, <2>2
<1>4. FeedTyped' /\ Answered' /\ HeadIsStatus' = HeadIsStatus /\ UpToDate' 
  BY <1>1, <1>3, Extending
<1>5. ProxyTyped'
  BY <1>0, <1>1, <1>2, <1>4 DEF ProxyTyped, ThreadsTyped, CacheTyped, ParametersTyped, ClientTyped
<1>6. Connection'
  <2>1. feed # << >> => feed' # << >>
    BY <1>1, <1>2
  <2>2. ~io => feed' = << >>
    BY <1>0, <1>1 DEF Connection
  <2> QED
    BY <1>0, <1>1, <2>1, <2>2 DEF Connection, Stage
<1>7. Stages'
  BY <1>0, <1>1 DEF Stages, Stage
<1>8. OnlineKnown'
  BY <1>0, <1>1 DEF OnlineKnown, Stage
<1>9. StatusComes'
  BY <1>0, <1>1, <1>4 DEF StatusComes, Answered
<1>10. OfflineTold'
  BY <1>0, <1>1 DEF OfflineTold, SaysOffline, Telling, Follower!Shown
<1>11. UpToDate'
  BY <1>4
<1> QED
  BY <1>5, <1>6, <1>7, <1>8, <1>9, <1>10, <1>11 DEF ProxyInv

LEMMA LoseKeeps ==
  ASSUME ProxyInv, Follower!Lose
  PROVE  ProxyInv'
<1>0. ProxyTyped /\ Connection /\ Stages /\ OnlineKnown /\ StatusComes /\ OfflineTold /\ UpToDate
  BY DEF ProxyInv
<1>1. /\ wire \in {"open", "active"} /\ wire' = "lost" /\ feed \in Seq(MessageSet) /\ Len(feed) \in Nat
      /\ UNCHANGED <<remote, io, online, lock, cache, reader, parameters, disconnected, shownLate, raced, proc>>
  BY <1>0 DEF Follower!Lose, ProxyTyped, FeedTyped, Follower!remoteVars, Follower!clientVars,
       Follower!proxyVars, Follower!counts
<1>2. PICK n \in 0 .. Len(feed) : (reader = "announce" => n > 0) /\ feed' = SubSeq(feed, 1, n)
  BY DEF Follower!Lose
<1>3. /\ feed' \in Seq(MessageSet) /\ Len(feed') = n
      /\ \A i \in 1 .. n : feed'[i] = feed[i] /\ i \in 1 .. Len(feed)
  BY <1>1, <1>2
<1>4. (reader = "announce" => feed'[1] = feed[1] /\ feed' # << >>) /\ HeadIsStatus' = HeadIsStatus
  BY <1>1, <1>2, <1>3 DEF HeadIsStatus
<1>5. ProxyTyped'
  <2>1. FeedTyped'
    BY <1>0, <1>3 DEF ProxyTyped, FeedTyped
  <2> QED
    BY <1>0, <1>1, <2>1 DEF ProxyTyped, ThreadsTyped, RemoteTyped, CacheTyped, ParametersTyped,
         ClientTyped
<1>6. Connection'
  BY <1>0, <1>1, <1>4 DEF Connection, Stage
<1>7. Stages'
  BY <1>0, <1>1 DEF Stages, Stage
<1>8. OnlineKnown'
  BY <1>0, <1>1 DEF OnlineKnown, Stage
<1>9. StatusComes'
  <2>1. Answered'
    <3> SUFFICES ASSUME ~raced, NEW i \in 1 .. Len(feed'), feed'[i].param = "none", feed'[i].item = "active",
                        disconnected
                 PROVE  \E j \in 1 .. i - 1 : feed'[j].param = "status"
      BY <1>1 DEF Answered
    <3>1. PICK j \in 1 .. i - 1 : feed[j].param = "status"
      BY <1>0, <1>3 DEF StatusComes
    <3>2. j \in 1 .. n
      BY <1>2, <1>3, <3>1
    <3> QED
      BY <1>3, <3>1, <3>2
  <2> QED
    BY <1>0, <1>1, <1>4, <2>1 DEF StatusComes, Answered
<1>10. OfflineTold'
  BY <1>0, <1>1 DEF OfflineTold, SaysOffline, Telling, Follower!Shown
<1>11. UpToDate'
  BY <1>0, <1>1, <1>4 DEF UpToDate, Cached
<1> QED
  BY <1>5, <1>6, <1>7, <1>8, <1>9, <1>10, <1>11 DEF ProxyInv

-----------------------------------------------------------------------------

\* The handler goes on without connecting.
Goes(place) ==
  /\ ThreadsTyped'
  /\ \A s \in FThreads : s # Handler => proc'[s] = proc[s]
  /\ proc'[Handler].at = place

LEMMA IdleTyped == Follower!Idle \in ProcFrames /\ Follower!Idle.at = "none" /\ Follower!Idle.op = "none"
  BY ProxyAssumption DEF Follower!Idle, ProcFrames, ProcPlaces, Backs, Replies, Accessibles, Follower!Accessibles

LEMMA HandlerGoes ==
  ASSUME ThreadsTyped, NEW frame \in ProcFrames, proc' = [proc EXCEPT ![Handler] = frame],
         frame.at \notin {"online", "show", "offline", "errors"},
         frame.op = "change" /\ frame.at # "announce" => frame.item \in RemoteValues
  PROVE  Goes(frame.at)
<1>1. Handler \in FThreads /\ DOMAIN proc = FThreads
  BY HandlerIsOne DEF ThreadsTyped
<1>2. proc'[Handler] = frame /\ \A s \in FThreads : s # Handler => proc'[s] = proc[s]
  BY <1>1
<1>3. proc' \in [FThreads -> ProcFrames]
  BY <1>1 DEF ThreadsTyped
<1> QED
  BY <1>1, <1>2, <1>3 DEF ThreadsTyped, Goes

\* What the handler does outside of connect leaves the connection alone.
LEMMA HandlerApart ==
  ASSUME ProxyInv, NEW place \in {"none", "enter", "reply", "announce"}, Goes(place),
         proc[Handler].at \in {"none", "send", "reply", "failed", "announce"}, UNCHANGED <<wire, io, online, raced>>
  PROVE  /\ \A s \in FThreads : Stage(s)' \in Connecting <=> Stage(s) \in Connecting
         /\ \A s \in FThreads : /\ proc[s].at \in {"starting", "online", "show", "offline", "errors"}
                                  => proc'[s] = proc[s]
                                /\ proc'[s].at \in {"starting", "online", "show", "offline", "errors"}
                                  => proc'[s] = proc[s]
         /\ Stages' /\ OnlineKnown'
<1>0. Stages /\ OnlineKnown
  BY DEF ProxyInv
<1>1. \A s \in FThreads : s # Handler => proc'[s] = proc[s] /\ Stage(s)' = Stage(s)
  BY DEF Goes, Stage
<1>2. /\ Stage(Handler) = proc[Handler].at /\ Stage(Handler) \notin Connecting
      /\ Stage(Handler)' = place /\ Stage(Handler)' \notin Connecting /\ proc'[Handler].at = place
  BY DEF Goes, Stage, Connecting
<1>3. Stages'
  BY <1>0, <1>1, <1>2 DEF Stages
<1>4. OnlineKnown'
  BY <1>0, <1>1, <1>2 DEF OnlineKnown
<1> QED
  BY <1>1, <1>2, <1>3, <1>4

LEMMA ReadFromCacheKeeps ==
  ASSUME ProxyInv, NEW p \in Accessibles, Follower!ReadFromCache(p)
  PROVE  ProxyInv'
<1>0. ProxyTyped /\ Connection /\ Stages /\ OnlineKnown /\ StatusComes /\ OfflineTold /\ UpToDate
  BY DEF ProxyInv
<1>1. proc[Handler].at = "none" /\ UNCHANGED <<remote, feed, wire, io, online, lock, cache, reader, parameters, disconnected,
                                                 shownLate, raced>>
  BY DEF Follower!ReadFromCache, Follower!remoteVars, Follower!clientVars, Follower!proxyVars,
       Follower!counts
<1>2. Goes("announce")
  <2>1. PICK item : item = IF cache[p] = "undefined" THEN "internal" ELSE cache[p]
    OBVIOUS
  <2> DEFINE frame == [Follower!Idle EXCEPT !.at = "announce", !.op = "read", !.param = p, !.item = item]
  <2>2. proc' = [proc EXCEPT ![Handler] = frame]
    BY <2>1 DEF Follower!ReadFromCache
  <2>3. item \in Remotes \cup Follower!Errors \cup {"undefined", "none"}
    BY <1>0, <2>1 DEF ProxyTyped, CacheTyped, Follower!Errors
  <2>4. frame \in ProcFrames /\ frame.at = "announce"
    BY <2>3, IdleTyped DEF ProcFrames, ProcPlaces
  <2> HIDE DEF frame
  <2> QED
    BY <1>0, <2>2, <2>4, HandlerGoes DEF ProxyTyped
<1>3. /\ \A s \in FThreads : Stage(s)' \in Connecting <=> Stage(s) \in Connecting
      /\ \A s \in FThreads : /\ proc[s].at \in {"starting", "online", "show", "offline", "errors"}
                               => proc'[s] = proc[s]
                             /\ proc'[s].at \in {"starting", "online", "show", "offline", "errors"}
                               => proc'[s] = proc[s]
      /\ Stages' /\ OnlineKnown'
  BY <1>1, <1>2, HandlerApart
<1>4. ProxyTyped'
  BY <1>0, <1>1, <1>2, <1>3 DEF ProxyTyped, Goes, FeedTyped, RemoteTyped, CacheTyped,
       ParametersTyped, ClientTyped
<1>5. Connection'
  BY <1>0, <1>1, <1>2, <1>3 DEF Connection
<1>6. Stages'
  BY <1>1, <1>2, <1>3
<1>7. OnlineKnown'
  BY <1>1, <1>2, <1>3
<1>8. StatusComes'
  BY <1>0, <1>1, <1>2, <1>3 DEF StatusComes, HeadIsStatus
<1>9. OfflineTold'
  BY <1>0, <1>1, <1>2, <1>3 DEF OfflineTold, SaysOffline, Telling, Follower!Shown
<1>10. UpToDate'
  BY <1>0, <1>1, <1>2, <1>3 DEF UpToDate, LastFor, OnTheWay, Cached, Follower!Shown
<1> QED
  BY <1>4, <1>5, <1>6, <1>7, <1>8, <1>9, <1>10 DEF ProxyInv

LEMMA ReadParameterKeeps ==
  ASSUME ProxyInv, NEW p \in Accessibles, Follower!ReadParameter(p)
  PROVE  ProxyInv'
<1>0. ProxyTyped /\ Connection /\ Stages /\ OnlineKnown /\ StatusComes /\ OfflineTold /\ UpToDate
  BY DEF ProxyInv
<1>1. proc[Handler].at = "none" /\ UNCHANGED <<remote, feed, wire, io, online, lock, cache, reader, parameters, disconnected,
                                                 shownLate, raced>>
  BY DEF Follower!ReadParameter, Follower!Ask, Follower!remoteVars, Follower!clientVars,
       Follower!proxyVars, Follower!counts
<1>2. Goes("enter")
  <2> DEFINE frame == [Follower!Idle EXCEPT !.at = "enter", !.op = "read", !.param = p, !.item = "none"]
  <2>1. proc' = [proc EXCEPT ![Handler] = frame]
    BY DEF Follower!ReadParameter, Follower!Ask
  <2>2. /\ frame \in ProcFrames /\ frame.at = "enter" /\ frame.op = "read"
        /\ frame.item = "none"
    BY IdleTyped DEF ProcFrames, ProcPlaces, Remotes, Accessibles, Follower!Accessibles
  <2> HIDE DEF frame
  <2> QED
    BY <1>0, <2>1, <2>2, HandlerGoes DEF ProxyTyped
<1>3. /\ \A s \in FThreads : Stage(s)' \in Connecting <=> Stage(s) \in Connecting
      /\ \A s \in FThreads : /\ proc[s].at \in {"starting", "online", "show", "offline", "errors"}
                               => proc'[s] = proc[s]
                             /\ proc'[s].at \in {"starting", "online", "show", "offline", "errors"}
                               => proc'[s] = proc[s]
      /\ Stages' /\ OnlineKnown'
  BY <1>1, <1>2, HandlerApart
<1>4. ProxyTyped'
  BY <1>0, <1>1, <1>2, <1>3 DEF ProxyTyped, Goes, FeedTyped, RemoteTyped, CacheTyped,
       ParametersTyped, ClientTyped
<1>5. Connection'
  BY <1>0, <1>1, <1>2, <1>3 DEF Connection
<1>6. Stages'
  BY <1>1, <1>2, <1>3
<1>7. OnlineKnown'
  BY <1>1, <1>2, <1>3
<1>8. StatusComes'
  BY <1>0, <1>1, <1>2, <1>3 DEF StatusComes, HeadIsStatus
<1>9. OfflineTold'
  BY <1>0, <1>1, <1>2, <1>3 DEF OfflineTold, SaysOffline, Telling, Follower!Shown
<1>10. UpToDate'
  BY <1>0, <1>1, <1>2, <1>3 DEF UpToDate, LastFor, OnTheWay, Cached, Follower!Shown
<1> QED
  BY <1>4, <1>5, <1>6, <1>7, <1>8, <1>9, <1>10 DEF ProxyInv

LEMMA SetParameterKeeps ==
  ASSUME ProxyInv, NEW p \in Writable, NEW v \in RemoteValues, Follower!SetParameter(p, v)
  PROVE  ProxyInv'
<1>0. ProxyTyped /\ Connection /\ Stages /\ OnlineKnown /\ StatusComes /\ OfflineTold /\ UpToDate
  BY DEF ProxyInv
<1>1. proc[Handler].at = "none" /\ UNCHANGED <<remote, feed, wire, io, online, lock, cache, reader, parameters, disconnected,
                                                 shownLate, raced>>
  BY DEF Follower!SetParameter, Follower!Ask, Follower!remoteVars, Follower!clientVars,
       Follower!proxyVars, Follower!counts
<1>2. Goes("enter")
  <2> DEFINE frame == [Follower!Idle EXCEPT !.at = "enter", !.op = "change", !.param = p, !.item = v]
  <2>1. proc' = [proc EXCEPT ![Handler] = frame]
    BY DEF Follower!SetParameter, Follower!Ask
  <2>2. /\ frame \in ProcFrames /\ frame.at = "enter" /\ frame.op = "change"
        /\ frame.item = v
    BY IdleTyped, ProxyAssumption DEF ProcFrames, ProcPlaces, Remotes, Accessibles,
         Follower!Accessibles
  <2> HIDE DEF frame
  <2> QED
    BY <1>0, <2>1, <2>2, HandlerGoes DEF ProxyTyped
<1>3. /\ \A s \in FThreads : Stage(s)' \in Connecting <=> Stage(s) \in Connecting
      /\ \A s \in FThreads : /\ proc[s].at \in {"starting", "online", "show", "offline", "errors"}
                               => proc'[s] = proc[s]
                             /\ proc'[s].at \in {"starting", "online", "show", "offline", "errors"}
                               => proc'[s] = proc[s]
      /\ Stages' /\ OnlineKnown'
  BY <1>1, <1>2, HandlerApart
<1>4. ProxyTyped'
  BY <1>0, <1>1, <1>2, <1>3 DEF ProxyTyped, Goes, FeedTyped, RemoteTyped, CacheTyped,
       ParametersTyped, ClientTyped
<1>5. Connection'
  BY <1>0, <1>1, <1>2, <1>3 DEF Connection
<1>6. Stages'
  BY <1>1, <1>2, <1>3
<1>7. OnlineKnown'
  BY <1>1, <1>2, <1>3
<1>8. StatusComes'
  BY <1>0, <1>1, <1>2, <1>3 DEF StatusComes, HeadIsStatus
<1>9. OfflineTold'
  BY <1>0, <1>1, <1>2, <1>3 DEF OfflineTold, SaysOffline, Telling, Follower!Shown
<1>10. UpToDate'
  BY <1>0, <1>1, <1>2, <1>3 DEF UpToDate, LastFor, OnTheWay, Cached, Follower!Shown
<1> QED
  BY <1>4, <1>5, <1>6, <1>7, <1>8, <1>9, <1>10 DEF ProxyInv


LEMMA Results ==
  ASSUME ThreadsTyped, NEW item \in Remotes \cup Follower!Errors \cup {"undefined", "none"},
         Follower!Result(item)
  PROVE  \E place \in {"none", "announce"} : Goes(place)
<1>1. Handler \in FThreads /\ proc[Handler] \in ProcFrames
  BY HandlerIsOne DEF ThreadsTyped
<1>2. CASE proc' = [proc EXCEPT ![Handler] = Follower!Idle]
  BY <1>2, IdleTyped, HandlerGoes
<1>3. CASE proc' = [proc EXCEPT ![Handler] = [@ EXCEPT !.at = "announce", !.item = item]]
  <2> DEFINE frame == [proc[Handler] EXCEPT !.at = "announce", !.item = item]
  <2>1. proc' = [proc EXCEPT ![Handler] = frame]
    BY <1>1, <1>3 DEF ThreadsTyped
  <2>2. frame \in ProcFrames /\ frame.at = "announce"
    BY <1>1 DEF ProcFrames, ProcPlaces
  <2> HIDE DEF frame
  <2> QED
    BY <2>1, <2>2, HandlerGoes
<1>4. \/ proc' = [proc EXCEPT ![Handler] = Follower!Idle]
      \/ proc' = [proc EXCEPT ![Handler] = [@ EXCEPT !.at = "announce", !.item = item]]
  BY <1>1 DEF Follower!Result, ThreadsTyped
<1> QED
  BY <1>2, <1>3, <1>4

LEMMA RepliedKeeps ==
  ASSUME ProxyInv, Follower!Replied
  PROVE  ProxyInv'
<1>0. ProxyTyped /\ Connection /\ Stages /\ OnlineKnown /\ StatusComes /\ OfflineTold /\ UpToDate
  BY DEF ProxyInv
<1>1. proc[Handler].at = "reply" /\ UNCHANGED <<remote, feed, wire, io, online, lock, cache, reader, parameters, disconnected,
                                                  shownLate, raced>>
  BY DEF Follower!Replied, Follower!remoteVars, Follower!clientVars, Follower!proxyVars,
       Follower!counts
<1>2. PICK place \in {"none", "announce"} : Goes(place)
  <2>1. PICK item : /\ Follower!Result(item)
                    /\ item = IF proc[Handler].reply = "done" THEN cache[proc[Handler].param] ELSE "internal"
    BY DEF Follower!Replied
  <2>2. proc[Handler].param \in Accessibles
    BY <1>0, HandlerIsOne DEF ProxyTyped, ThreadsTyped, ProcFrames
  <2>3. item \in Remotes \cup Follower!Errors \cup {"undefined", "none"}
    BY <1>0, <2>1, <2>2 DEF ProxyTyped, CacheTyped, Follower!Errors
  <2> QED
    BY <1>0, <2>1, <2>3, Results DEF ProxyTyped
<1>3. /\ \A s \in FThreads : Stage(s)' \in Connecting <=> Stage(s) \in Connecting
      /\ \A s \in FThreads : /\ proc[s].at \in {"starting", "online", "show", "offline", "errors"}
                               => proc'[s] = proc[s]
                             /\ proc'[s].at \in {"starting", "online", "show", "offline", "errors"}
                               => proc'[s] = proc[s]
      /\ Stages' /\ OnlineKnown'
  BY <1>1, <1>2, HandlerApart
<1>4. ProxyTyped'
  BY <1>0, <1>1, <1>2, <1>3 DEF ProxyTyped, Goes, FeedTyped, RemoteTyped, CacheTyped,
       ParametersTyped, ClientTyped
<1>5. Connection'
  BY <1>0, <1>1, <1>2, <1>3 DEF Connection
<1>6. Stages'
  BY <1>1, <1>2, <1>3
<1>7. OnlineKnown'
  BY <1>1, <1>2, <1>3
<1>8. StatusComes'
  BY <1>0, <1>1, <1>2, <1>3 DEF StatusComes, HeadIsStatus
<1>9. OfflineTold'
  BY <1>0, <1>1, <1>2, <1>3 DEF OfflineTold, SaysOffline, Telling, Follower!Shown
<1>10. UpToDate'
  BY <1>0, <1>1, <1>2, <1>3 DEF UpToDate, LastFor, OnTheWay, Cached, Follower!Shown
<1> QED
  BY <1>4, <1>5, <1>6, <1>7, <1>8, <1>9, <1>10 DEF ProxyInv

LEMMA NotConnectedKeeps ==
  ASSUME ProxyInv, Follower!NotConnected
  PROVE  ProxyInv'
<1>0. ProxyTyped /\ Connection /\ Stages /\ OnlineKnown /\ StatusComes /\ OfflineTold /\ UpToDate
  BY DEF ProxyInv
<1>1. /\ proc[Handler].at = "failed"
      /\ UNCHANGED <<remote, feed, wire, io, online, lock, reader, parameters, disconnected, shownLate, raced>>
  BY DEF Follower!NotConnected, Follower!remoteVars, Follower!clientVars, Follower!proxyVars,
       Follower!counts
<1>2. PICK place \in {"none", "announce"} : Goes(place)
  <2>1. PICK item \in {"internal", "unreachable"} : Follower!Result(item)
    BY DEF Follower!NotConnected
  <2>2. item \in Remotes \cup Follower!Errors \cup {"undefined", "none"}
    BY DEF Follower!Errors
  <2> QED
    BY <1>0, <2>1, <2>2, Results DEF ProxyTyped
<1>3. /\ \A s \in FThreads : Stage(s)' \in Connecting <=> Stage(s) \in Connecting
      /\ \A s \in FThreads : /\ proc[s].at \in {"starting", "online", "show", "offline", "errors"}
                               => proc'[s] = proc[s]
                             /\ proc'[s].at \in {"starting", "online", "show", "offline", "errors"}
                               => proc'[s] = proc[s]
      /\ Stages' /\ OnlineKnown'
  BY <1>1, <1>2, HandlerApart
<1>4. PICK p \in Accessibles : cache' = cache \/ cache' = [cache EXCEPT ![p] = "unreachable"]
  <2>1. proc[Handler].param \in Accessibles
    BY <1>0, HandlerIsOne DEF ProxyTyped, ThreadsTyped, ProcFrames
  <2> QED
    BY <2>1 DEF Follower!NotConnected
<1>5. \A q \in Accessibles : cache'[q] = cache[q] \/ cache'[q] = "unreachable"
  BY <1>0, <1>4 DEF ProxyTyped, CacheTyped
<1>6. \A v : \A q \in Accessibles : Cached(q, v) => Cached(q, v)' 
  <2>1. "unreachable" \notin Remotes
    BY ProxyAssumption DEF Remotes
  <2> QED
    BY <1>5, <2>1 DEF Cached
<1>7. ProxyTyped'
  <2>1. CacheTyped'
    <3>1. "unreachable" \in Follower!Errors
      BY DEF Follower!Errors
    <3>2. "status" \in Accessibles
      BY DEF Accessibles, Follower!Accessibles
    <3> QED
      BY <1>0, <1>4, <1>5, <3>1, <3>2 DEF ProxyTyped, CacheTyped
  <2> QED
    BY <1>0, <1>1, <1>2, <2>1 DEF ProxyTyped, Goes, FeedTyped, RemoteTyped, ParametersTyped,
         ClientTyped
<1>8. Connection'
  BY <1>0, <1>1, <1>2, <1>3 DEF Connection
<1>9. Stages'
  BY <1>1, <1>2, <1>3
<1>10. OnlineKnown'
  BY <1>1, <1>2, <1>3
<1>11. StatusComes'
  BY <1>0, <1>1, <1>2, <1>3 DEF StatusComes, HeadIsStatus
<1>12. OfflineTold'
  BY <1>0, <1>1, <1>2, <1>3 DEF OfflineTold, SaysOffline, Telling, Follower!Shown
<1>13. UpToDate'
  <2>1. reader = "announce" /\ feed[1].param # "none" => feed[1].param \in Accessibles
    <3>1. reader = "announce" => IsMessage(feed[1])
      BY <1>0 DEF ProxyTyped, FeedTyped, Connection
    <3> QED
      BY <3>1, MessageIs
  <2>2. reader = "announce" /\ feed[1].param # "none" => Cached(feed[1].param, feed[1].item)'
    <3>1. PICK m : m = feed[1]
      OBVIOUS
    <3>2. reader = "announce" /\ m.param # "none" => Cached(m.param, m.item) /\ m.param \in Accessibles
      BY <1>0, <2>1, <3>1 DEF UpToDate
    <3>3. reader = "announce" /\ m.param # "none" => Cached(m.param, m.item)'
      BY <1>6, <3>2
    <3> QED
      BY <1>1, <3>1, <3>3 DEF Cached
  <2>3. /\ \A p1 \in Accessibles : OnTheWay(p1)' = OnTheWay(p1) /\ Follower!Shown(p1)' = Follower!Shown(p1)
        /\ \A p1 \in Accessibles, i \in 1 .. Len(feed) : LastFor(p1, i)' = LastFor(p1, i)
        /\ \A p1 \in Accessibles : Cached(p1, remote[p1]) => Cached(p1, remote[p1])'
    BY <1>1, <1>6 DEF OnTheWay, LastFor, Follower!Shown, Cached
  <2> QED
    BY <1>0, <1>1, <2>2, <2>3 DEF UpToDate
<1> QED
  BY <1>7, <1>8, <1>9, <1>10, <1>11, <1>12, <1>13 DEF ProxyInv

LEMMA AnnounceResultKeeps ==
  ASSUME ProxyInv, Follower!AnnounceResult
  PROVE  ProxyInv'
<1>0. ProxyTyped /\ Connection /\ Stages /\ OnlineKnown /\ StatusComes /\ OfflineTold /\ UpToDate
  BY DEF ProxyInv
<1>1. /\ proc[Handler].at = "announce"
      /\ UNCHANGED <<remote, feed, wire, io, online, lock, cache, reader, disconnected, raced>>
  BY DEF Follower!AnnounceResult, Follower!remoteVars, Follower!clientVars, Follower!proxyVars,
       Follower!counts
<1>2. PICK p, item :
      /\ p = proc[Handler].param /\ item = proc[Handler].item
      /\ parameters' = Follower!Announced(p, item)
      /\ shownLate' = IF online /\ item = cache[p] /\ item \in Remotes
                        THEN shownLate \ {p} ELSE shownLate \cup {p}
  BY DEF Follower!AnnounceResult, Remotes
<1>3. /\ p \in Accessibles /\ item \in Remotes \cup Follower!Errors \cup {"undefined", "none"}
      /\ "status" \in Accessibles /\ Params \subseteq Accessibles
      /\ item # Follower!DISCONNECTED /\ Remotes \cap Follower!Errors = {"failed"}
  <2>1. p \in Accessibles /\ item \in Remotes \cup Follower!Errors \cup {"undefined", "none"}
    BY <1>0, <1>2, HandlerIsOne DEF ProxyTyped, ThreadsTyped, ProcFrames
  <2> QED
    BY <2>1, ProxyAssumption DEF Accessibles, Follower!Accessibles, Follower!DISCONNECTED,
         Remotes, Follower!Errors
<1>4. Goes("none")
  <2>1. proc' = [proc EXCEPT ![Handler] = Follower!Idle]
    BY DEF Follower!AnnounceResult
  <2> QED
    BY <1>0, <2>1, IdleTyped, HandlerGoes DEF ProxyTyped
<1>5. /\ \A s \in FThreads : Stage(s)' \in Connecting <=> Stage(s) \in Connecting
      /\ \A s \in FThreads : /\ proc[s].at \in {"starting", "online", "show", "offline", "errors"}
                               => proc'[s] = proc[s]
                             /\ proc'[s].at \in {"starting", "online", "show", "offline", "errors"}
                               => proc'[s] = proc[s]
      /\ Stages' /\ OnlineKnown'
  BY <1>1, <1>4, HandlerApart
<1>6. /\ ParametersTyped' /\ Follower!Shown(p)' = item
      /\ parameters'[p].value = IF item \in Follower!Errors THEN parameters[p].value ELSE item
      /\ parameters'[p].readerror = IF item \in Follower!Errors THEN item ELSE "none"
      /\ \A q \in Accessibles : q # p => parameters'[q] = parameters[q] /\ Follower!Shown(q)' = Follower!Shown(q)
  BY <1>0, <1>2, <1>3, Announces DEF ProxyTyped
<1>7. parameters'["status"].value = Follower!DISCONNECTED => parameters["status"].value = Follower!DISCONNECTED
  BY <1>3, <1>6
<1>8. ProxyTyped'
  BY <1>0, <1>1, <1>2, <1>3, <1>4, <1>6 DEF ProxyTyped, Goes, FeedTyped, RemoteTyped, CacheTyped,
       ClientTyped
<1>9. Connection'
  BY <1>0, <1>1, <1>4, <1>5 DEF Connection
<1>10. Stages'
  BY <1>1, <1>4, <1>5
<1>11. OnlineKnown'
  BY <1>1, <1>4, <1>5
<1>12. StatusComes'
  BY <1>0, <1>1, <1>5, <1>7 DEF StatusComes, HeadIsStatus
<1>13. OfflineTold'
  <2>1. ~online => \A q \in Accessibles : (SaysOffline(q) => SaysOffline(q)') /\ (q = p => q \in shownLate')
    BY <1>2, <1>3, <1>6 DEF SaysOffline
  <2>2. parameters'["status"].readerror # "none" => "status" \in shownLate'
    <3>1. CASE p = "status"
      <4>1. cache["status"] # "failed"
        BY <1>0 DEF ProxyTyped, CacheTyped
      <4> QED
        BY <1>2, <1>3, <1>6, <3>1, <4>1
    <3>2. CASE p # "status"
      BY <1>0, <1>2, <1>3, <1>6, <3>2 DEF OfflineTold
    <3> QED
      BY <3>1, <3>2
  <2>3. ~online => (parameters["status"].value = Follower!DISCONNECTED =>
                    parameters'["status"].value = Follower!DISCONNECTED \/ "status" \in shownLate')
    BY <1>3, <1>6, <2>1
  <2>4. ~online /\ "status" \in shownLate => "status" \in shownLate'
    BY <1>2
  <2>5. \A s \in FThreads : Telling(s)' = Telling(s) /\ (proc'[s].at = "errors" => proc'[s] = proc[s])
    BY <1>5 DEF Telling
  <2> QED
    BY <1>0, <1>1, <1>3, <1>7, <2>1, <2>2, <2>3, <2>4, <2>5 DEF OfflineTold
<1>14. UpToDate'
  <2>1. ASSUME wire = "active", ~raced, NEW q \in Accessibles, ~OnTheWay(q)
        PROVE  q \in shownLate' \/ Follower!Shown(q)' = remote[q]
    <3>1. CASE q = p
      BY <1>0, <1>2, <1>6, <2>1, <3>1 DEF UpToDate, Cached
    <3>2. CASE q # p
      BY <1>0, <1>2, <1>6, <2>1, <3>2 DEF UpToDate
    <3> QED
      BY <3>1, <3>2
  <2> QED
    BY <1>0, <1>1, <2>1 DEF UpToDate, LastFor, OnTheWay, Cached
<1> QED
  BY <1>8, <1>9, <1>10, <1>11, <1>12, <1>13, <1>14 DEF ProxyInv


LEMMA OneMessage ==
  ASSUME NEW p \in Accessibles, NEW m, feed \in Seq(MessageSet), IsMessage(m), RemoteTyped', 
         feed' = feed \o <<m>> \/ feed' = Append(feed, m),
         \/ m.param = "none" /\ m.item = "refused" /\ remote'[p] = remote[p]
         \/ m.param = p /\ m.item = remote'[p],
         \A q \in Accessibles : q # p => remote'[q] = remote[q]
  PROVE  Extends(p)
<1>1. m \in MessageSet /\ Len(feed) \in Nat
  BY DEF IsMessage
<1>2. /\ feed' \in Seq(MessageSet) /\ Len(feed') = Len(feed) + 1 /\ feed'[Len(feed) + 1] = m
      /\ \A i \in 1 .. Len(feed) : feed'[i] = feed[i]
  BY <1>1
<1>3. \A i \in 1 .. Len(feed') : i > Len(feed) => i = Len(feed) + 1
  BY <1>1, <1>2
<1>4. Len(feed) + 1 \in 1 .. Len(feed') /\ Len(feed) + 1 > Len(feed) /\ Len(feed) <= Len(feed')
  BY <1>1, <1>2
<1> QED
  BY <1>2, <1>3, <1>4 DEF Extends

LEMMA TwoMessages ==
  ASSUME NEW p \in Accessibles, NEW m, NEW n, feed \in Seq(MessageSet), IsMessage(m), IsMessage(n),
         RemoteTyped', feed' = (feed \o <<m>>) \o <<n>>,
         m.param = p /\ m.item = remote'[p] /\ n.param = p /\ n.item = remote'[p],
         \A q \in Accessibles : q # p => remote'[q] = remote[q]
  PROVE  Extends(p)
<1>1. m \in MessageSet /\ n \in MessageSet /\ Len(feed) \in Nat
  BY DEF IsMessage
<1>2. /\ feed' \in Seq(MessageSet) /\ Len(feed') = Len(feed) + 2
      /\ feed'[Len(feed) + 1] = m /\ feed'[Len(feed) + 2] = n
      /\ \A i \in 1 .. Len(feed) : feed'[i] = feed[i]
  BY <1>1
<1>3. \A i \in 1 .. Len(feed') : i > Len(feed) => i = Len(feed) + 1 \/ i = Len(feed) + 2
  BY <1>1, <1>2
<1>4. Len(feed) + 1 \in 1 .. Len(feed') /\ Len(feed) + 1 > Len(feed) /\ Len(feed) <= Len(feed')
  BY <1>1, <1>2
<1> QED
  BY <1>2, <1>3, <1>4 DEF Extends

LEMMA RequestKeeps ==
  ASSUME ProxyInv, Follower!Request
  PROVE  ProxyInv'
<1>0. ProxyTyped /\ Connection /\ Stages /\ OnlineKnown /\ StatusComes /\ OfflineTold /\ UpToDate
  BY DEF ProxyInv
<1>1. /\ proc[Handler].at = "send"
      /\ UNCHANGED <<wire, io, online, lock, cache, reader, parameters, disconnected, shownLate, raced>>
  BY DEF Follower!Request, Follower!remoteVars, Follower!clientVars, Follower!proxyVars,
       Follower!counts
<1>2. PICK place \in {"reply", "enter"} : Goes(place)
  <2>1. PICK place \in {"reply", "enter"} : Follower!Send(Handler, place)
    BY DEF Follower!Request
  <2>2. Becomes(Handler, place, proc[Handler].back, proc[Handler].left, "none")
    BY <1>0, <1>1, <2>1, Sends, HandlerIsOne DEF ProxyTyped
  <2> QED
    BY <2>2 DEF Becomes, Goes
<1>3. /\ \A s \in FThreads : Stage(s)' \in Connecting <=> Stage(s) \in Connecting
      /\ \A s \in FThreads : /\ proc[s].at \in {"starting", "online", "show", "offline", "errors"}
                               => proc'[s] = proc[s]
                             /\ proc'[s].at \in {"starting", "online", "show", "offline", "errors"}
                               => proc'[s] = proc[s]
      /\ Stages' /\ OnlineKnown'
  BY <1>1, <1>2, HandlerApart
<1>4. PICK p \in Accessibles : p = proc[Handler].param
  BY <1>0, HandlerIsOne DEF ProxyTyped, ThreadsTyped, ProcFrames
<1>5. /\ feed \in Seq(MessageSet) /\ Len(feed) \in Nat /\ RemoteTyped /\ "none" \notin Accessibles
      /\ "failed" \notin RemoteValues /\ Handler \in FThreads
  BY <1>0, HandlerIsOne, ProxyAssumption DEF ProxyTyped, FeedTyped, Accessibles,
       Follower!Accessibles
<1>6. Extends(p)
  <2> DEFINE Sent(to, param, item) == [to |-> to, param |-> param, item |-> item]
  <2>1. CASE io /\ wire \in {"open", "active"} /\ proc[Handler].op = "read"
    <3>1. feed' = Append(feed, Sent(Handler, p, remote[p])) /\ remote' = remote
      BY <1>4, <2>1 DEF Follower!Request, Follower!Message
    <3>2. IsMessage(Sent(Handler, p, remote[p]))
      BY <1>5 DEF IsMessage, MessageSet, RemoteTyped
    <3> QED
      BY <1>5, <3>1, <3>2, OneMessage DEF RemoteTyped
  <2>2. CASE /\ io /\ wire \in {"open", "active"} /\ proc[Handler].op = "change"
             /\ feed' = Append(feed, Sent(Handler, "none", "refused")) /\ remote' = remote
    <3>1. IsMessage(Sent(Handler, "none", "refused"))
      BY <1>5 DEF IsMessage, MessageSet
    <3> QED
      BY <1>5, <2>2, <3>1, OneMessage DEF RemoteTyped
  <2>3. ASSUME NEW item \in RemoteValues, remote' = [remote EXCEPT ![p] = item],
               \/ feed' = feed \o <<Sent(Handler, p, item)>>
               \/ feed' = (feed \o <<Sent(NoThread, p, item)>>) \o <<Sent(Handler, p, item)>>
        PROVE  Extends(p)
    <3>1. IsMessage(Sent(Handler, p, item)) /\ IsMessage(Sent(NoThread, p, item))
      BY <1>5 DEF IsMessage, MessageSet, Remotes
    <3>2. RemoteTyped' /\ remote'[p] = item /\ \A q \in Accessibles : q # p => remote'[q] = remote[q]
      BY <1>5, <2>3 DEF RemoteTyped, Remotes
    <3> QED
      BY <1>5, <2>3, <3>1, <3>2, OneMessage, TwoMessages
  <2>4. CASE feed' = feed /\ remote' = remote
    BY <1>5, <2>4 DEF Extends, RemoteTyped
  <2>5. CASE /\ io /\ wire \in {"open", "active"} /\ proc[Handler].op = "change"
             /\ ~(feed' = Append(feed, Sent(Handler, "none", "refused")) /\ remote' = remote)
    <3>1. PICK item : item = proc[Handler].item
      OBVIOUS
    <3>2. item \in RemoteValues
      BY <1>0, <1>1, <2>5, <3>1 DEF ProxyTyped, ThreadsTyped
    <3>3. /\ remote' = [remote EXCEPT ![p] = item]
          /\ feed' = feed \o (IF wire = "active" THEN <<Sent(NoThread, p, item)>> ELSE << >>)
                          \o <<Sent(Handler, p, item)>>
      BY <1>4, <2>5, <3>1 DEF Follower!Request, Follower!Message
    <3>4. feed \o << >> = feed
      BY <1>5
    <3> QED
      BY <2>3, <3>2, <3>3, <3>4
  <2> QED
    BY <2>1, <2>2, <2>4, <2>5 DEF Follower!Request, Follower!Message
<1>7. FeedTyped' /\ Answered' /\ HeadIsStatus' = HeadIsStatus /\ UpToDate' 
  BY <1>1, <1>6, Extending
<1>8. ~io => feed' = << >>
  <2>1. ~io => feed' = feed
    BY DEF Follower!Request
  <2> QED
    BY <1>0, <2>1 DEF Connection
<1>9. ProxyTyped'
  BY <1>0, <1>1, <1>2, <1>6, <1>7 DEF ProxyTyped, Goes, Extends, CacheTyped, ParametersTyped,
       ClientTyped
<1>10. Connection'
  <2>1. feed # << >> => feed' # << >>
    BY <1>5, <1>6 DEF Extends
  <2> QED
    BY <1>0, <1>1, <1>3, <1>8, <2>1 DEF Connection
<1>11. Stages'
  BY <1>1, <1>2, <1>3
<1>12. OnlineKnown'
  BY <1>1, <1>2, <1>3
<1>13. StatusComes'
  BY <1>0, <1>1, <1>3, <1>7 DEF StatusComes, Answered
<1>14. OfflineTold'
  BY <1>0, <1>1, <1>2, <1>3 DEF OfflineTold, SaysOffline, Telling, Follower!Shown
<1>15. UpToDate'
  BY <1>7
<1> QED
  BY <1>9, <1>10, <1>11, <1>12, <1>13, <1>14, <1>15 DEF ProxyInv

-----------------------------------------------------------------------------

LEMMA ProxyBegins == Follower!Init => ProxyInv
<1> SUFFICES ASSUME Follower!Init PROVE ProxyInv
  OBVIOUS
<1> DEFINE first == CHOOSE c \in Connectors : TRUE
<1>1. /\ feed = << >> /\ wire = "none" /\ io = FALSE /\ online = FALSE /\ lock = NoThread /\ reader = "off"
      /\ cache = [p \in Accessibles |-> "undefined"] /\ disconnected = TRUE /\ shownLate = {} /\ raced = FALSE
      /\ parameters = [p \in Accessibles |->
           IF p = "status" THEN [value |-> Follower!DISCONNECTED, readerror |-> "none"]
                           ELSE [value |-> "default", readerror |-> "offline"]]
  BY DEF Follower!Init, Accessibles
<1>2. proc = [t \in FThreads |-> IF t = first THEN [Follower!Idle EXCEPT !.at = "enter"] ELSE Follower!Idle]
  BY DEF Follower!Init, FThreads
<1>3. "status" \in Accessibles /\ Params = Accessibles \ {"status"}
  BY ProxyAssumption DEF Accessibles, Follower!Accessibles
<1>4. /\ Follower!Idle \in ProcFrames /\ Follower!Idle.at = "none" /\ Follower!Idle.op = "none"
      /\ [Follower!Idle EXCEPT !.at = "enter"] \in ProcFrames
      /\ [Follower!Idle EXCEPT !.at = "enter"].at = "enter"
      /\ [Follower!Idle EXCEPT !.at = "enter"].op = "none"
  BY IdleTyped DEF ProcFrames, ProcPlaces
<1> HIDE DEF first
<1>5. \A t \in FThreads : /\ proc[t] \in ProcFrames /\ proc[t].at \in {"none", "enter"} /\ proc[t].op = "none"
                          /\ Stage(t) \in {"none", "enter"}
  BY <1>2, <1>4 DEF Stage
<1>6. ThreadsTyped
  BY <1>2, <1>5, HandlerIsOne DEF ThreadsTyped
<1>7. ParametersTyped
  BY <1>1 DEF ParametersTyped, Follower!Errors
<1>8. RemoteTyped
  <2>1. PICK v \in RemoteValues : v = CHOOSE w \in RemoteValues : TRUE
    BY ProxyAssumption
  <2>2. remote \in [Accessibles -> {v}]
    BY <2>1 DEF Follower!Init, Accessibles
  <2> QED
    BY <1>3, <2>2, ProxyAssumption DEF RemoteTyped, Remotes
<1>9. FeedTyped /\ CacheTyped /\ ClientTyped
  <2>1. FeedTyped
    BY <1>1 DEF FeedTyped
  <2>2. CacheTyped
    BY <1>1, <1>3 DEF CacheTyped
  <2>3. ClientTyped
    BY <1>1 DEF ClientTyped
  <2> QED
    BY <2>1, <2>2, <2>3
<1>10. Connection /\ Stages /\ OnlineKnown
  BY <1>1, <1>5, HandlerIsOne DEF Connection, Stages, OnlineKnown, Connecting
<1>11. StatusComes
  BY <1>1, <1>3, <1>5 DEF StatusComes, HeadIsStatus
<1>12. OfflineTold
  BY <1>1, <1>3, <1>5 DEF OfflineTold, SaysOffline, Follower!Shown
<1>13. UpToDate
  BY <1>1 DEF UpToDate
<1> QED
  BY <1>6, <1>7, <1>8, <1>9, <1>10, <1>11, <1>12, <1>13 DEF ProxyInv, ProxyTyped

LEMMA ProxyRests == ProxyInv /\ UNCHANGED followerVars => ProxyInv'
<1> SUFFICES ASSUME ProxyInv, UNCHANGED followerVars PROVE ProxyInv'
  OBVIOUS
<1>1. UNCHANGED <<remote, feed, wire, io, online, lock, cache, reader, parameters, disconnected,
                  proc, shownLate, raced>>
  BY DEF followerVars
<1>2. ProxyTyped'
  BY <1>1 DEF ProxyInv, ProxyTyped, ThreadsTyped, FeedTyped, RemoteTyped, CacheTyped, ParametersTyped, ClientTyped
<1>3. Connection' /\ Stages' /\ OnlineKnown'
  BY <1>1 DEF ProxyInv, Connection, Stages, OnlineKnown, Stage
<1>4. StatusComes' /\ OfflineTold'
  BY <1>1 DEF ProxyInv, StatusComes, HeadIsStatus, OfflineTold, SaysOffline, Telling, Follower!Shown
<1>5. UpToDate'
  BY <1>1 DEF ProxyInv, UpToDate, LastFor, OnTheWay, Cached, Follower!Shown
<1> QED
  BY <1>2, <1>3, <1>4, <1>5 DEF ProxyInv

LEMMA ProxySteps == ProxyInv /\ [Follower!Next]_followerVars => ProxyInv'
<1> SUFFICES ASSUME ProxyInv, [Follower!Next]_followerVars PROVE ProxyInv'
  OBVIOUS
<1>1. ASSUME NEW t \in FThreads, Follower!StateStep(t) PROVE ProxyInv'
  BY <1>1, OnlineKeeps, ShowConnectionKeeps, OfflineKeeps, ShowErrorKeeps, ShowDisconnectedKeeps
     DEF Follower!StateStep
<1>2. ASSUME NEW t \in FThreads, Follower!ConnectStep(t) PROVE ProxyInv'
  BY <1>2, EnterConnectKeeps, OpenKeeps, OpenFailsKeeps, ActivateKeeps, StartedKeeps, ReleaseLockKeeps,
     RetryKeeps, DecideOfflineKeeps, GiveUpKeeps DEF Follower!ConnectStep
<1>3. CASE Follower!ReaderStep
  BY <1>3, ReceiveKeeps, UpdateEventKeeps, ConnectionClosedKeeps DEF Follower!ReaderStep
<1>4. CASE Follower!HandlerStep
  BY <1>4, ReadFromCacheKeeps, ReadParameterKeeps, SetParameterKeeps, RequestKeeps, RepliedKeeps,
     NotConnectedKeeps, AnnounceResultKeeps DEF Follower!HandlerStep, Accessibles
<1>5. CASE Follower!RemoteStep
  BY <1>5, RemoteChangesKeeps, LoseKeeps DEF Follower!RemoteStep, Accessibles, Remotes
<1> QED
  BY <1>1, <1>2, <1>3, <1>4, <1>5, ProxyRests DEF Follower!Next, FThreads

\* When no thread is busy, nothing is on its way, and nobody is about to tell the proxy.
LEMMA ProxyTold == ProxyInv => ProxyTrue
<1> SUFFICES ASSUME ProxyInv, Follower!Calm, ~raced, NEW p \in Accessibles \ shownLate
             PROVE  /\ wire = "active" => online /\ Follower!Shown(p) = remote[p]
                    /\ ~online => Follower!Shown(p) = IF p = "status" THEN Follower!DISCONNECTED ELSE "offline"
  BY DEF ProxyTrue, Follower!ProxyTrue, Accessibles
<1>1. feed = << >> /\ \A t \in FThreads : ~Telling(t)
  BY DEF Follower!Calm, Telling, FThreads
<1>2. wire = "active" => online /\ Follower!Shown(p) = remote[p]
  <2>1. wire = "active" => online
    BY DEF ProxyInv, OnlineKnown, Connection
  <2>2. ~OnTheWay(p)
    BY <1>1 DEF OnTheWay
  <2> QED
    BY <2>1, <2>2 DEF ProxyInv, UpToDate
<1>3. ~online /\ p # "status" => Follower!Shown(p) = "offline"
  BY <1>1 DEF ProxyInv, OfflineTold, SaysOffline, Accessibles, Follower!Accessibles
<1>4. ~online /\ p = "status" => Follower!Shown(p) = Follower!DISCONNECTED
  BY <1>1 DEF ProxyInv, OfflineTold, Follower!Shown
<1> QED
  BY <1>2, <1>3, <1>4

\* A proxy shows what its remote module has while the client is connected, and that it is
\* disconnected once the client is offline: for any parameters, values, connecting threads,
\* requests, changes, losses and failures, but for the exceptions named in Proxy.
THEOREM ProxyTellsTruth == FollowerSpec => []ProxyTrue
<1>1. FollowerSpec => []ProxyInv
  BY ProxyBegins, ProxySteps, PTL DEF FollowerSpec
<1> QED
  BY <1>1, ProxyTold, PTL

=============================================================================
