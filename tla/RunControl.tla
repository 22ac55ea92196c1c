----------------------------- MODULE RunControl -----------------------------
(***************************************************************************)
(* What the state machine engine of frappy/lib/statemachine.py promises to *)
(* the callers of start() and stop(), without states, cycles or loops.     *)
(*                                                                         *)
(* A machine is idle, running or cleaning up.  There is one place for a    *)
(* request; a later request replaces the waiting one.  A request is        *)
(* accepted only by an idle machine.  A running machine is brought to      *)
(* idle, through at most one cleanup sequence, when a request waits; a     *)
(* cleanup sequence is always completed.                                   *)
(***************************************************************************)

VARIABLES
  phase,     \* "idle", "running" or "cleaning"
  waiting,   \* the kind of the request waiting, or "none"
  starting   \* an accepted start has not begun to run yet

vars == <<phase, waiting, starting>>

Init == phase = "idle" /\ waiting = "none" /\ starting = FALSE

Ask(kind) ==
  /\ waiting' = kind
  /\ UNCHANGED <<phase, starting>>

Accept ==
  /\ phase = "idle" /\ ~starting /\ waiting # "none"
  /\ waiting' = "none"
  /\ starting' = (waiting = "Start")
  /\ UNCHANGED phase

Begin ==
  /\ phase = "idle" /\ starting
  /\ phase' = "running"
  /\ starting' = FALSE
  /\ UNCHANGED waiting

\* An error, or the waiting request, turns the run into a cleanup sequence.
Break ==
  /\ phase = "running"
  /\ phase' = "cleaning"
  /\ UNCHANGED <<waiting, starting>>

End ==
  /\ phase \in {"running", "cleaning"}
  /\ phase' = "idle"
  /\ UNCHANGED <<waiting, starting>>

Next ==
  \/ \E kind \in {"Start", "Stop"} : Ask(kind)
  \/ Accept \/ Begin \/ Break \/ End

\* A run goes on as long as it likes when nobody asks; a cleanup sequence, and
\* a run somebody wants to end, do not.
Yield ==
  \/ phase = "cleaning" /\ End
  \/ waiting # "none" /\ (Break \/ End)

SafetySpec == Init /\ [][Next]_vars
Spec == SafetySpec /\ WF_vars(Accept) /\ WF_vars(Begin) /\ WF_vars(Yield)
=============================================================================
