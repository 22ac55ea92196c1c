------------------------------ MODULE Control ------------------------------
(***************************************************************************)
(* Who controls an output: the mixins HasControlledBy and HasOutputModule  *)
(* of frappy/mixins.py, with the software controller of                    *)
(* frappy_psi/picontrol.py.  Several controllers have the same output      *)
(* module.  Requests (writing the target of a controller or of the output, *)
(* switching a controller off) are handled one at a time, as the           *)
(* dispatcher does with its lock, or not (Serial).  Each controller is     *)
(* polled in a thread of its own and writes the target of the output while *)
(* it is active.                                                           *)
(***************************************************************************)
EXTENDS Naturals, FiniteSets

CONSTANTS Inputs,       \* the controllers
          Self,         \* controlled_by = 0
          Requests,     \* threads handling requests
          Serial        \* BOOLEAN: one request at a time

ASSUME ControlAssumption == Self \notin Inputs /\ Serial \in BOOLEAN

VARIABLES
  controlled_by,        \* of the output: a controller, or Self
  control_active,       \* of each controller
  target,               \* who has written the target of the output: a controller, or Self
  todo,                 \* request thread: controllers still to be deactivated
  doing,                \* request thread: what it does
  polling               \* poll thread of a controller: where it is

vars == <<controlled_by, control_active, target, todo, doing, polling>>

None == [op |-> "none", who |-> Self]

\* deactivate_control is registered for every controller; initially none is active
Init ==
  /\ controlled_by = Self /\ control_active = [i \in Inputs |-> FALSE] /\ target = Self
  /\ todo = [r \in Requests |-> {}] /\ doing = [r \in Requests |-> None]
  /\ polling = [i \in Inputs |-> "no"]

-----------------------------------------------------------------------------
(* requests *)

MayBegin(r) == doing[r] = None /\ (Serial => \A q \in Requests : doing[q] = None)
Begin(r, op, who, these) ==
  /\ doing' = [doing EXCEPT ![r] = [op |-> op, who |-> who]]
  /\ todo' = [todo EXCEPT ![r] = these]

\* a slip: the condition on the name is the wrong way round
WriteTargetSame(r, i) ==
  /\ MayBegin(r) /\ ~control_active[i]
  /\ Begin(r, "activate", i, {i})
  /\ UNCHANGED <<controlled_by, control_active, target, polling>>

\* write_target of a controller: activate_control, when not yet active
WriteTarget(r, i) ==
  /\ MayBegin(r) /\ ~control_active[i]
  /\ Begin(r, "activate", i, Inputs \ {i})
  /\ UNCHANGED <<controlled_by, control_active, target, polling>>

\* a slip: the controllers are not told
WriteOutputOnly(r) ==
  /\ MayBegin(r)
  /\ controlled_by' = Self /\ target' = Self
  /\ UNCHANGED <<control_active, todo, doing, polling>>

\* write_target of the output, by a client or, with 0, when a controller is
\* switched off: self_controlled, when it is controlled
WriteOutput(r) ==
  /\ MayBegin(r)
  /\ IF controlled_by = Self
       THEN target' = Self /\ UNCHANGED <<controlled_by, todo, doing>>
       ELSE /\ controlled_by' = Self
            /\ Begin(r, "own", Self, Inputs)
            /\ UNCHANGED target
  /\ UNCHANGED <<control_active, polling>>

\* deactivate_control of the next controller in inputCallbacks
Deactivate(r) ==
  \E i \in todo[r] :
    /\ control_active' = [control_active EXCEPT ![i] = FALSE]
    /\ todo' = [todo EXCEPT ![r] = @ \ {i}]
    /\ UNCHANGED <<controlled_by, target, doing, polling>>

\* the end of activate_control
TakeControl(r) ==
  /\ doing[r].op = "activate" /\ todo[r] = {}
  /\ controlled_by' = doing[r].who
  /\ doing' = [doing EXCEPT ![r].op = "active"]
  /\ UNCHANGED <<control_active, target, todo, polling>>
SetActive(r) ==
  /\ doing[r].op = "active"
  /\ control_active' = [control_active EXCEPT ![doing[r].who] = TRUE]
  /\ doing' = [doing EXCEPT ![r] = None]
  /\ UNCHANGED <<controlled_by, target, todo, polling>>

\* the end of write_target of the output: the value written becomes the target
OwnTarget(r) ==
  /\ doing[r].op = "own" /\ todo[r] = {}
  /\ target' = Self
  /\ doing' = [doing EXCEPT ![r] = None]
  /\ UNCHANGED <<controlled_by, control_active, todo, polling>>

Request(r) ==
  \/ \E i \in Inputs : WriteTarget(r, i)
  \/ WriteOutput(r) \/ Deactivate(r) \/ TakeControl(r) \/ SetActive(r) \/ OwnTarget(r)

-----------------------------------------------------------------------------
(* doPoll of a controller *)

Poll(i) ==
  /\ polling[i] = "no" /\ control_active[i]
  /\ polling' = [polling EXCEPT ![i] = "computing"]
  /\ UNCHANGED <<controlled_by, control_active, target, todo, doing>>

\* update_target: the callback of the present owner is looked up by an enum
\* member in a dict with names as keys, and so never found
UpdateTarget(i) ==
  /\ polling[i] = "computing"
  /\ polling' = [polling EXCEPT ![i] = "no"]
  /\ target' = i
  /\ UNCHANGED <<controlled_by, control_active, todo, doing>>

Next ==
  \/ \E r \in Requests : Request(r)
  \/ \E i \in Inputs : Poll(i) \/ UpdateTarget(i)

Spec == Init /\ [][Next]_vars

-----------------------------------------------------------------------------
TypeOK ==
  /\ controlled_by \in Inputs \union {Self} /\ target \in Inputs \union {Self}
  /\ control_active \in [Inputs -> BOOLEAN]
  /\ todo \in [Requests -> SUBSET Inputs]
  /\ doing \in [Requests -> [op : {"none", "activate", "active", "own"}, who : Inputs \union {Self}]]
  /\ polling \in [Inputs -> {"no", "computing"}]

AtRest == \A r \in Requests : doing[r] = None

\* When no request is being handled, exactly the controller named by
\* controlled_by is active: never two controllers on one output, never one
\* which is active while the output is said to be on its own.
OneInCharge == AtRest => \A i \in Inputs : control_active[i] <=> controlled_by = i

\* The output never follows two controllers, also while the control is passed
\* on: a controller becomes active only after all the others have been told.
NeverTwo == \A i, j \in Inputs : control_active[i] /\ control_active[j] => i = j

\* Control is handed over from one controller to the other without ever having two, and is
\* held at last by the one controlled_by tells.
OneController == NeverTwo /\ OneInCharge

\* With nothing under way, the output on its own keeps the target written to it.
OwnTargetStays ==
  AtRest /\ (\A i \in Inputs : polling[i] = "no") /\ controlled_by = Self => target = Self
=============================================================================
