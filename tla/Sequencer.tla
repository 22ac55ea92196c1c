----------------------------- MODULE Sequencer -----------------------------
(***************************************************************************)
(* A sequence of steps in a thread of its own (frappy/lib/sequence.py),    *)
(* as used by the Garfield magnet (frappy_mlz/amagnet.py): to change the   *)
(* polarity, the current is ramped down, the polarity switch is moved, and *)
(* the current is ramped up again.  The modules of the power supply and of *)
(* the switch are polled in threads of their own; the sequence reads some  *)
(* of their parameters from the hardware and takes others from the cache.  *)
(*                                                                         *)
(* A target is a number of units of current with a sign.  The hardware     *)
(* moves at its own pace, one unit at a time, and reports BUSY meanwhile.  *)
(***************************************************************************)
EXTENDS Integers, Sequences

CONSTANTS MaxTarget,    \* bound on the targets a client asks for
          MaxStarts,    \* bound on the sequences started
          MayStop,      \* BOOLEAN: does a client call stop()?
          MayFail,      \* the steps which may raise an exception
          FreshSwitch   \* BOOLEAN: is the switch polled before a step looks at it?

VARIABLES
  seq,          \* the steps left; the first one is being executed
  thread,       \* the sequence thread: "none", "step", "sleep"
  stopflag,     \* _seq_stopflag
  outcome,      \* _seq_stopped / _seq_error: "no", "stopped", "error"
  current,      \* of the power supply
  source,       \* its target
  value,        \* parameter value of the power supply (cache)
  busy,         \* its parameter status: is it BUSY? (cache)
  pol,          \* position of the polarity switch
  polTarget,    \* where it goes
  polValue,     \* parameter value of the switch (cache)
  window,       \* parameter window of the power supply
  oldWindow,    \* store.old_window
  target,       \* target of the magnet
  starts        \* sequences started so far

vars == <<seq, thread, stopflag, outcome, current, source, value, busy, pol, polTarget, polValue,
          window, oldWindow, target, starts>>
seqVars == <<seq, thread, stopflag, outcome, starts, target>>
source_ == <<source, busy>>
switch_ == <<pol, polTarget, polValue>>
windows == <<window, oldWindow>>

Targets == -MaxTarget..MaxTarget
Sign(t) == IF t > 0 THEN 1 ELSE IF t < 0 THEN -1 ELSE 0
Size(t) == IF t < 0 THEN -t ELSE t
Configured == 60
Largest(a, b) == IF a > b THEN a ELSE b

Init ==
  /\ seq = <<>> /\ thread = "none" /\ stopflag = FALSE /\ outcome = "no"
  /\ current = 0 /\ source = 0 /\ value = 0 /\ busy = FALSE
  /\ pol = 1 /\ polTarget = 1 /\ polValue = 1
  /\ window = Configured /\ oldWindow = Configured
  /\ target = 0 /\ starts = 0

-----------------------------------------------------------------------------
(* requests *)

Step(desc, arg) == [desc |-> desc, arg |-> arg]

\* a slip: the current is not ramped down before the switch is moved
StartWithSwitch(t) ==
  /\ thread = "none" /\ starts < MaxStarts
  /\ value' = current
  /\ seq' = <<Step("prepare", 0), Step("polarity", Sign(t)), Step("ramp", Size(t)), Step("finish", 0)>>
  /\ thread' = "step" /\ stopflag' = FALSE /\ outcome' = "no"
  /\ target' = t /\ starts' = starts + 1
  /\ UNCHANGED <<current, source_, switch_, windows>>

\* write_target: the steps depend on the present polarity and current;
\* start_sequence refuses while a sequence is running
WriteTarget(t) ==
  /\ thread = "none" /\ starts < MaxStarts
  /\ value' = current
  /\ LET turn == pol # Sign(t)
         down == IF turn /\ current > 0 THEN <<Step("ramp", 0)>> ELSE <<>>
         switch == IF turn THEN <<Step("polarity", Sign(t))>> ELSE <<>>
     IN seq' = <<Step("prepare", 0)>> \o down \o switch \o <<Step("ramp", Size(t)), Step("finish", 0)>>
  /\ thread' = "step" /\ stopflag' = FALSE /\ outcome' = "no"
  /\ target' = t /\ starts' = starts + 1
  /\ UNCHANGED <<current, source_, switch_, windows>>

Stop ==
  /\ MayStop /\ thread # "none"
  /\ stopflag' = TRUE
  /\ UNCHANGED <<seq, thread, outcome, target, starts, current, source_, value, switch_, windows>>

-----------------------------------------------------------------------------
(* the sequence thread: what one call of a step function does *)

At(desc) == thread = "step" /\ Head(seq).desc = desc
Arg == Head(seq).arg

\* _prepare_ramp, _finish_ramp
Prepare ==
  /\ At("prepare")
  /\ oldWindow' = window /\ window' = 1
  /\ UNCHANGED <<source_, switch_>>
Finish ==
  /\ At("finish")
  /\ window' = Largest(oldWindow, 10)
  /\ UNCHANGED <<oldWindow, source_, switch_>>

\* _ramp_current, before the current has arrived ...
SetCurrent ==
  /\ At("ramp") /\ value # Arg
  /\ IF busy THEN UNCHANGED source_
             ELSE source' = Arg /\ busy' = (current # Arg)
  /\ UNCHANGED <<switch_, windows>>
\* ... and when it has: repeated until the power supply is not busy
Arrived ==
  /\ At("ramp") /\ value = Arg
  /\ busy' = (current # source)
  /\ UNCHANGED <<source, switch_, windows>>

\* _set_polarity: via 0
Poll == polValue' = pol
SwitchBusy ==
  /\ At("polarity") /\ pol # polTarget
  /\ UNCHANGED <<source_, switch_, windows>>
SwitchArrived ==
  /\ At("polarity") /\ pol = polTarget
  /\ (IF FreshSwitch THEN pol ELSE polValue) = Arg
  /\ UNCHANGED <<source_, switch_, windows>>
\* a slip: the last part of the way is missing
MoveSwitchToZero ==
  /\ At("polarity") /\ pol = polTarget
  /\ (IF FreshSwitch THEN pol ELSE polValue) # Arg
  /\ Poll
  /\ polTarget' = 0
  /\ UNCHANGED <<pol, source_, windows>>

MoveSwitch ==
  /\ At("polarity") /\ pol = polTarget
  /\ (IF FreshSwitch THEN pol ELSE polValue) # Arg
  /\ Poll
  /\ polTarget' = IF pol # 0 THEN 0 ELSE Arg
  /\ UNCHANGED <<pol, source_, windows>>

\* what _seq_thread_inner does with the result
Again ==
  /\ thread' = "sleep" /\ UNCHANGED <<seq, outcome>>
Done ==
  /\ seq' = Tail(seq) /\ UNCHANGED outcome
  /\ thread' = IF seq' = <<>> THEN "none" ELSE "sleep"
Stopped ==
  /\ outcome' = "stopped" /\ thread' = "none" /\ seq' = <<>>
NotStopped == ~stopflag

\* a step function which asks to be repeated, one which is done
Repeating == NotStopped /\ (SetCurrent \/ (Arrived /\ busy') \/ SwitchBusy \/ MoveSwitch) /\ Again
Completing == NotStopped /\ (Prepare \/ Finish \/ (Arrived /\ ~busy') \/ SwitchArrived) /\ Done

\* the stop flag is seen after a step: the cleanup of a ramp which is still
\* going on holds the current; the window is set back; other steps have none
StoppedInRamp ==
  /\ stopflag /\ At("ramp") /\ Stopped
  /\ \/ /\ value # Arg \/ current # source
        /\ source' = current
     \/ /\ value = Arg /\ current = source /\ UNCHANGED source
  /\ busy' = FALSE
  /\ window' = Largest(oldWindow, 10)
  /\ UNCHANGED <<oldWindow, switch_>>

StoppedElsewhere ==
  /\ stopflag /\ Stopped
  /\ Prepare \/ Finish \/ SwitchBusy \/ SwitchArrived \/ MoveSwitch

\* an exception in a step: the sequence ends, the power supply goes on
Fails ==
  /\ thread = "step" /\ Head(seq).desc \in MayFail
  /\ outcome' = "error" /\ thread' = "none" /\ seq' = <<>>
  /\ UNCHANGED <<source_, switch_, windows>>

StepFunction ==
  /\ Repeating \/ Completing \/ StoppedInRamp \/ StoppedElsewhere \/ Fails
  /\ UNCHANGED <<stopflag, target, starts, current, value>>

Wake ==
  /\ thread = "sleep" /\ thread' = "step"
  /\ UNCHANGED <<seq, stopflag, outcome, target, starts, current, source_, value, switch_, windows>>

Sequence == StepFunction \/ Wake

-----------------------------------------------------------------------------
(* hardware, and the poll threads of its modules *)

MoveCurrent ==
  /\ current # source
  /\ current' = IF current < source THEN current + 1 ELSE current - 1
  /\ UNCHANGED <<seqVars, source_, value, switch_, windows>>
TurnSwitch ==
  /\ pol # polTarget /\ pol' = polTarget
  /\ UNCHANGED <<seqVars, current, source_, value, polTarget, polValue, windows>>
PollSource ==
  /\ value' = current /\ busy' = (current # source)
  /\ UNCHANGED <<seqVars, current, source, switch_, windows>>
PollSwitch ==
  /\ Poll
  /\ UNCHANGED <<seqVars, current, source_, value, pol, polTarget, windows>>

Hardware == MoveCurrent \/ TurnSwitch

Next == (\E t \in Targets : WriteTarget(t)) \/ Stop \/ Sequence \/ Hardware \/ PollSource \/ PollSwitch

Spec == Init /\ [][Next]_vars
FairSpec ==
  /\ Spec /\ WF_vars(Sequence) /\ WF_vars(MoveCurrent) /\ WF_vars(TurnSwitch)
  /\ WF_vars(PollSource) /\ WF_vars(PollSwitch)

-----------------------------------------------------------------------------
TypeOK ==
  /\ thread \in {"none", "step", "sleep"} /\ outcome \in {"no", "stopped", "error"}
  /\ {stopflag, busy} \subseteq BOOLEAN
  /\ {current, source, value, window, oldWindow} \subseteq Nat
  /\ {pol, polTarget, polValue} \subseteq -1..1
  /\ \A i \in 1..Len(seq) : seq[i].desc \in {"prepare", "ramp", "polarity", "finish"}

\* The polarity switch is asked to move only at zero current: it is neither
\* flowing nor asked for, whatever was stopped before ("if there is current,
\* switching polarity is forbidden").
SwitchesAtZero == [][polTarget' # polTarget => current = 0 /\ source = 0]_vars

\* It moves at zero current, too.
MovesAtZero == pol # polTarget => current = 0 /\ source = 0

\* After a sequence which ended by itself, the current and the polarity are
\* those asked for; read_status then says IDLE.
Reached ==
  thread = "none" /\ outcome = "no" /\ starts > 0 =>
    current = Size(target) /\ source = current /\ (pol = Sign(target) /\ polTarget = pol)

\* After a stop, the current stays where it is.
HoldsWhenStopped == thread = "none" /\ outcome = "stopped" => source = current

\* The flag is checked between the steps: no step function is called after it
\* has been set.
StopIsChecked == [][stopflag /\ StepFunction => seq' = <<>> /\ UNCHANGED <<source, polTarget>>]_vars

\* The window of the power supply is what it was when nothing is going on.
WindowKept == thread = "none" => window = Configured

\* A sequence ends, and a stop ends it.
SequenceEnds == []<>(thread = "none")
=============================================================================
