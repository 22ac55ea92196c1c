------------------------------- MODULE Parts -------------------------------
(***************************************************************************)
(* Parts of a node which share nothing with each other, checked in one     *)
(* run: which part a behaviour is about is chosen at the beginning, the    *)
(* variables of the others keep a dummy value.  Each part is checked as it *)
(* would be alone.  Some names of variables are used by several parts.     *)
(***************************************************************************)
EXTENDS Control

CONSTANTS Ifaces, Callers, Signal, MaxGen,          \* of Server
          MaxTarget, MaxStarts,                     \* of Sequencer
          MaxField, Limit, Tries, MaxRestarts,      \* of Magfield
          MaxCalls,                                 \* of Server and Magfield
          Members, Values, MaxAssigns               \* of StructParam

\* a struct has members ('Empty structs are not allowed')
ASSUME MembersAssumption == IsFiniteSet(Members) /\ Members # {}

VARIABLES
  part,
  \* of Server
  main, gen, restart, interfaces, stop, events, seen, late, call, asked, listening,
  \* of Sequencer
  seq, stopflag, outcome, source, busy, pol, polTarget, polValue, window, oldWindow, starts,
  \* of Magfield
  st, sm, next, turn, mode, heater, pf, waited, initp, write, sw, leads, setpoint, act, field,
  restarts,
  \* of StructParam
  hasStructRW, hw, member, struct, bad, insideRW, op, assigns, doubt,
  \* of several parts
  thread, calls, value, current

serverOwn == <<main, gen, restart, interfaces, stop, events, seen, late, call, asked, listening>>
sequencerOwn == <<seq, stopflag, outcome, source, busy, pol, polTarget, polValue, window,
                  oldWindow, starts>>
magfieldOwn == <<st, sm, next, turn, mode, heater, pf, waited, initp, write, sw, leads, setpoint,
                 act, field, restarts>>
structOwn == <<hasStructRW, hw, member, struct, bad, insideRW, op, assigns, doubt>>
controlOwn == <<controlled_by, control_active, todo, doing, polling>>
partsVars == <<part, controlOwn, serverOwn, sequencerOwn, magfieldOwn, structOwn, target, thread, calls, value, current>>

Srv == INSTANCE Server WITH MayFail <- TRUE, Early <- FALSE
Sqc == INSTANCE Sequencer WITH MayStop <- TRUE, FreshSwitch <- TRUE,
                               MayFail <- {"prepare", "polarity", "finish"}
Mag == INSTANCE Magfield WITH Stale <- FALSE
Str == INSTANCE StructParam

-----------------------------------------------------------------------------
(* dummy values *)

ControlOff == /\ controlled_by = Self /\ control_active = [i \in Inputs |-> FALSE]
              /\ todo = {} /\ doing = [r \in Requests |-> None] /\ polling = {}
ServerOff == /\ main = "off" /\ gen = 0 /\ restart = FALSE /\ interfaces = {} /\ stop = {}
             /\ events = {} /\ seen = {} /\ late = FALSE /\ call = {} /\ asked = "" /\ listening = {}
SequencerOff == /\ seq = << >> /\ stopflag = FALSE /\ outcome = "" /\ source = 0 /\ busy = FALSE
                /\ pol = 0 /\ polTarget = 0 /\ polValue = 0 /\ window = 0 /\ oldWindow = 0
                /\ starts = 0
MagfieldOff == /\ st = "off" /\ sm = {} /\ next = {} /\ turn = "" /\ mode = "" /\ heater = ""
               /\ pf = 0 /\ waited = FALSE /\ initp = FALSE /\ write = {} /\ sw = "" /\ leads = 0
               /\ setpoint = 0 /\ act = "" /\ field = 0 /\ restarts = 0
StructOff == /\ hasStructRW = FALSE /\ hw = {} /\ member = {} /\ struct = {} /\ bad = {}
             /\ insideRW = 0 /\ op = {} /\ assigns = 0 /\ doubt = FALSE

PartsInit ==
  \/ /\ part = "control" /\ Init
     /\ ServerOff /\ SequencerOff /\ MagfieldOff /\ StructOff
     /\ thread = {} /\ calls = {} /\ value = {} /\ current = {}
  \/ /\ part = "server" /\ Srv!Init
     /\ ControlOff /\ SequencerOff /\ MagfieldOff /\ StructOff
     /\ target = {} /\ value = {} /\ current = {}
  \/ /\ part = "sequencer" /\ Sqc!Init
     /\ ControlOff /\ ServerOff /\ MagfieldOff /\ StructOff /\ calls = {}
  \/ /\ part = "magfield" /\ Mag!Init
     /\ ControlOff /\ ServerOff /\ SequencerOff /\ StructOff /\ thread = {}
  \/ /\ part = "struct" /\ Str!Init
     /\ ControlOff /\ ServerOff /\ SequencerOff /\ MagfieldOff
     /\ target = {} /\ thread = {} /\ calls = {} /\ value = {} /\ current = {}

ControlPart ==
  /\ part = "control" /\ Next
  /\ UNCHANGED <<part, serverOwn, sequencerOwn, magfieldOwn, structOwn,
                 thread, calls, value, current>>
ServerPart ==
  /\ part = "server" /\ Srv!Next
  /\ UNCHANGED <<part, controlOwn, sequencerOwn, magfieldOwn, structOwn,
                 target, value, current>>
SequencerPart ==
  /\ part = "sequencer" /\ Sqc!Next
  /\ UNCHANGED <<part, controlOwn, serverOwn, magfieldOwn, structOwn, calls>>
MagfieldPart ==
  /\ part = "magfield" /\ Mag!Next
  /\ UNCHANGED <<part, controlOwn, serverOwn, sequencerOwn, structOwn, thread>>
StructPart ==
  /\ part = "struct" /\ Str!Next
  /\ UNCHANGED <<part, controlOwn, serverOwn, sequencerOwn, magfieldOwn,
                 target, thread, calls, value, current>>

PartsNext == ControlPart \/ ServerPart \/ SequencerPart \/ MagfieldPart \/ StructPart

serverVars == Srv!vars
sequencerVars == Sqc!vars
magfieldVars == Mag!vars

PartsSpec ==
  /\ PartsInit /\ [][PartsNext]_partsVars
  /\ WF_serverVars(part = "server" /\ Srv!Run)
  /\ \A i \in Ifaces : WF_serverVars(part = "server" /\ Srv!InterfaceThread(i))
  /\ \A c \in Callers : WF_serverVars(part = "server" /\ Srv!Caller(c))
  /\ WF_sequencerVars(part = "sequencer" /\ Sqc!Sequence)
  /\ WF_sequencerVars(part = "sequencer" /\ Sqc!MoveCurrent)
  /\ WF_sequencerVars(part = "sequencer" /\ Sqc!TurnSwitch)
  /\ WF_sequencerVars(part = "sequencer" /\ Sqc!PollSource)
  /\ WF_sequencerVars(part = "sequencer" /\ Sqc!PollSwitch)
  /\ WF_magfieldVars(part = "magfield" /\ Mag!Machine)
  /\ WF_magfieldVars(part = "magfield" /\ Mag!WriteReturns)
  /\ SF_magfieldVars(part = "magfield" /\ Mag!LeadsMove)
  /\ WF_magfieldVars(part = "magfield" /\ Mag!SwitchMoves)
  /\ WF_magfieldVars(part = "magfield" /\ Mag!WaitOver)

-----------------------------------------------------------------------------
(* the properties of the parts *)

\* Server: the node announces itself when all interfaces have started or failed, and
\* the modules are shut down only when no interface serves any more.
ServerInOrder == part = "server" => Srv!AllDecided /\ Srv!CleanupLast

\* Server: a request to restart or to shut down is carried out.
CarriedOut == part = "server" => Srv!CarriedOut

\* Sequencer: the polarity switch is asked to move only at zero current.
SwitchesAtZero ==
  [][part = "sequencer" /\ polTarget' # polTarget => current = 0 /\ source = 0]_partsVars

\* Magfield: the persistent switch is opened only while the leads carry the current of
\* the coil, and closed with the field remembered, also while the leads are ramped.
CoilSafe == part = "magfield" => Mag!OpensMatched /\ Mag!FieldStays /\ Mag!Remembered

\* Magfield: at rest field, heater and leads are what the status says.  Sequencer: after a
\* stop, the current stays where it is.
RestsAsSaid ==
  /\ part = "magfield" => Mag!RestsAsSaid
  /\ part = "sequencer" => Sqc!HoldsWhenStopped

\* Sequencer and Magfield: what was started comes to an end.
ComesToRest ==
  /\ (part = "sequencer") ~> (part = "sequencer" /\ thread = "none")
  /\ (part = "magfield" /\ next # Mag!NoStart) ~> (part = "magfield" /\ Mag!Settled)

\* StructParam: a struct and its members agree when no request or poll is under way.
StructAgrees == part = "struct" => Str!StructAgrees
=============================================================================
