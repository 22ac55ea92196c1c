------------------------------ MODULE Persistent ------------------------------
(***************************************************************************)
(* A module with persistent parameters (frappy/persistent.py), its poll    *)
(* thread, the threads handling requests, its hardware and the file.       *)
(*                                                                         *)
(* Every parameter has a write method and a read method.  Those in         *)
(* AutoSaved are saved at any change, the others (as the encoder of the    *)
(* example in the head of persistent.py) save explicitly when they are     *)
(* read, or detect a power down of the hardware.                           *)
(*                                                                         *)
(* A thread is doing something (op): creating the module, the initial      *)
(* writes, loadParameters, factory_reset, a change or a read.  Where it is *)
(* (at) goes through the steps of writeInitParams, of the wrappers of      *)
(* write_x and read_x, and of __save_params.                               *)
(*                                                                         *)
(* A definition marked as a slip is a wrong variant of the definition it   *)
(* precedes; Next does not use it.                                         *)
(***************************************************************************)
EXTENDS Naturals, FiniteSets

CONSTANTS
  Params, AutoSaved, \* persistent parameters; those with persistent=auto
  Given,            \* those given in the configuration
  Values, Exact,    \* of any parameter; those the hardware takes as they are
  Initial, Factory, \* configured or default value; value of fresh hardware
  Done, NoFile, Partial,  \* not to be written; no file; an incomplete file
  Poller, Handlers, \* threads
  Nobody,
  MaxFaults,        \* bound on failing reads, writes and saves
  MaxStops,         \* bound on crashes and power downs
  MaxRequests       \* bound on changes and resets

ASSUME ParamsAssumption == AutoSaved \subseteq Params /\ Given \subseteq Params
ASSUME ValuesAssumption ==
  Initial \in Values /\ Factory \in Exact /\ Exact \subseteq Values /\ Done \notin Values
ASSUME FilesAssumption == NoFile # Partial /\ {NoFile, Partial} \cap [Params -> Values] = {}
ASSUME BoundsAssumption ==
  MaxFaults \in Nat /\ MaxStops \in Nat /\ MaxRequests \in Nat
ASSUME ThreadsAssumption == Poller \notin Handlers /\ Nobody \notin Handlers \cup {Poller}

Threads == Handlers \cup {Poller}
Settings == [Params -> Values]   \* NoFile and Partial are no settings

VARIABLES
  file, tmpfile, hw,               \* these survive a crash
  value, writeDict, persistentData,
  lock,                            \* owner of the accessLock
  thread,                          \* per thread: op, at, todo, p, v
  lost,                            \* hardware has had a power down not detected yet
  faults, stops, requests,
  unwritten                        \* history: initial values not yet in the hardware

vars == <<file, tmpfile, hw, value, writeDict, persistentData, lock, thread, lost,
          faults, stops, requests, unwritten>>

persistent == <<file, tmpfile>>
counters == <<faults, stops, requests>>

Thread(op, at, todo, p, v) == [op |-> op, at |-> at, todo |-> todo, p |-> p, v |-> v]
NoThread == Thread("none", "none", {}, Nobody, Done)
Creating == [t \in Threads |-> IF t = Poller THEN Thread("start", "save", {}, Nobody, Done)
                                            ELSE NoThread]
ToWrite == {p \in Params : writeDict[p] # Done}

\* The values a module starts with, when the file holds saved.
Start(saved) ==
  [p \in Params |-> IF p \in Given \/ saved = NoFile THEN Initial ELSE saved[p]]

Complete(contents) == IF contents = Partial THEN NoFile ELSE contents

Create ==
  LET saved == Complete(file') IN
  /\ value' = Start(saved)
  /\ writeDict' = Start(saved)
  /\ persistentData' = saved
  /\ lock' = Nobody
  /\ thread' = Creating
  /\ unwritten' = Params

Init ==
  /\ file \in Settings \cup {NoFile} /\ tmpfile = NoFile
  /\ hw = [p \in Params |-> Factory]
  /\ value = Start(file) /\ writeDict = Start(file)
  /\ persistentData = file
  /\ lock = Nobody
  /\ thread = Creating
  /\ lost = FALSE
  /\ faults = 0 /\ stops = 0 /\ requests = 0
  /\ unwritten = Params

-----------------------------------------------------------------------------
Goto(t, at) == thread' = [thread EXCEPT ![t].at = at]

\* Returning from write_x or read_x: to writeInitParams, when called there.
Leave(t) ==
  IF thread[t].op \in {"init", "load", "reset"}
    THEN /\ Goto(t, "item")
         /\ lock' = IF thread[t].op = "load" THEN t ELSE Nobody
    ELSE thread' = [thread EXCEPT ![t] = NoThread] /\ lock' = Nobody

\* A read method saving explicitly.
Explicit(t) == thread[t].op = "read" /\ thread[t].p \notin AutoSaved

\* Returning from __save_params.
Saved(t) ==
  CASE thread[t].op = "start" ->
         /\ thread' = [thread EXCEPT ![t] = Thread("init", "list", {}, Nobody, Done)]
         /\ UNCHANGED lock
    [] Explicit(t) -> Goto(t, "announce") /\ UNCHANGED lock
    [] OTHER -> Leave(t)

-----------------------------------------------------------------------------
(* saveParameters and __save_params.                                       *)

\* Slip: saved also before all values are written.
SaveAlways(t) ==
  /\ thread[t].at = "save"
  /\ IF value = persistentData
       THEN Saved(t) /\ UNCHANGED persistentData
       ELSE /\ persistentData' = value
            /\ Goto(t, "open")
            /\ UNCHANGED lock
  /\ UNCHANGED <<file, tmpfile, hw, value, writeDict, lost, counters, unwritten>>

\* Slip: not saved any more after the start.
SaveOnce(t) ==
  /\ thread[t].at = "save"
  /\ IF thread[t].op # "start"
       THEN Saved(t) /\ UNCHANGED persistentData
       ELSE /\ persistentData' = value
            /\ Goto(t, "open")
            /\ UNCHANGED lock
  /\ UNCHANGED <<file, tmpfile, hw, value, writeDict, lost, counters, unwritten>>

\* Slip: persistentData is set before it is clear whether to save.
SaveEarly(t) ==
  /\ thread[t].at = "save"
  /\ persistentData' = value
  /\ IF (thread[t].op # "start" /\ ToWrite # {}) \/ value = persistentData
       THEN Saved(t)
       ELSE Goto(t, "open") /\ UNCHANGED lock
  /\ UNCHANGED <<file, tmpfile, hw, value, writeDict, lost, counters, unwritten>>

Save(t) ==
  /\ thread[t].at = "save"
  /\ IF (thread[t].op # "start" /\ ToWrite # {}) \/ value = persistentData
       THEN Saved(t) /\ UNCHANGED persistentData
       ELSE /\ persistentData' = value
            /\ Goto(t, "open")
            /\ UNCHANGED lock
  /\ UNCHANGED <<file, tmpfile, hw, value, writeDict, lost, counters, unwritten>>

\* Slip: the file itself is opened for writing.
OpenFile(t) ==
  /\ thread[t].at = "open"
  /\ tmpfile' = Partial /\ file' = Partial
  /\ Goto(t, "dump")
  /\ UNCHANGED <<hw, value, writeDict, persistentData, lock, lost, counters, unwritten>>

Open(t) ==
  /\ thread[t].at = "open"
  /\ tmpfile' = Partial
  /\ Goto(t, "dump")
  /\ UNCHANGED <<file, hw, value, writeDict, persistentData, lock, lost, counters,
                 unwritten>>

Dump(t) ==
  /\ thread[t].at = "dump"
  /\ tmpfile' = persistentData
  /\ Goto(t, "rename")
  /\ UNCHANGED <<file, hw, value, writeDict, persistentData, lock, lost, counters,
                 unwritten>>

Rename(t) ==
  /\ thread[t].at = "rename"
  /\ file' = tmpfile /\ tmpfile' = NoFile
  /\ Saved(t)
  /\ UNCHANGED <<hw, value, writeDict, persistentData, lost, counters, unwritten>>

\* An OSError: the temporary file is removed.  announceUpdate ignores the
\* exception, a read method saving explicitly fails; while the module is created
\* it ends the server (see Crash).
SaveFails(t) ==
  /\ thread[t].at \in {"open", "dump", "rename"} /\ thread[t].op # "start"
  /\ faults < MaxFaults /\ faults' = faults + 1
  /\ tmpfile' = NoFile
  /\ Leave(t)
  /\ UNCHANGED <<file, hw, value, writeDict, persistentData, lost, stops, requests,
                 unwritten>>

-----------------------------------------------------------------------------
(* writeInitParams.                                                        *)

List(t) ==
  /\ thread[t].at = "list"
  /\ thread' = [thread EXCEPT ![t] = Thread(@.op, "item", ToWrite, Nobody, Done)]
  /\ UNCHANGED <<persistent, hw, value, writeDict, persistentData, lock, lost, counters,
                 unwritten>>

\* Slip: also when it is no longer there.
PopUnchecked(t) ==
  /\ thread[t].at = "item"
  /\ \E p \in thread[t].todo :
       /\ thread' = [thread EXCEPT ![t] =
                       Thread(@.op, "enter", @.todo \ {p}, p, writeDict[p])]
       /\ writeDict' = [writeDict EXCEPT ![p] = Done]
  /\ UNCHANGED <<persistent, hw, value, persistentData, lock, lost, counters, unwritten>>

\* The next item of the list is taken out of writeDict, if it is still there.
Pop(t) ==
  /\ thread[t].at = "item"
  /\ \E p \in thread[t].todo :
       /\ thread' = [thread EXCEPT ![t] =
            IF p \in ToWrite
              THEN Thread(@.op, "enter", @.todo \ {p}, p, writeDict[p])
              ELSE Thread(@.op, "item", @.todo \ {p}, Nobody, Done)]
       /\ writeDict' = [writeDict EXCEPT ![p] = Done]
  /\ UNCHANGED <<persistent, hw, value, persistentData, lock, lost, counters, unwritten>>

WrittenAll(t) ==
  /\ thread[t].at = "item" /\ thread[t].todo = {}
  /\ thread' = [thread EXCEPT ![t] = NoThread]
  /\ lock' = IF lock = t THEN Nobody ELSE lock
  /\ UNCHANGED <<persistent, hw, value, writeDict, persistentData, lost, counters,
                 unwritten>>

-----------------------------------------------------------------------------
(* The wrappers of write_x and read_x.                                     *)

Enter(t) ==
  /\ thread[t].at = "enter" /\ lock \in {Nobody, t}
  /\ lock' = t
  /\ Goto(t, "hw")
  /\ UNCHANGED <<persistent, hw, value, writeDict, persistentData, lost, counters,
                 unwritten>>

\* write_x returns the value the hardware has taken.
Taken(v) == IF v \in Values \ Exact THEN Exact ELSE {v}

WriteHardware(t) ==
  /\ thread[t].at = "hw" /\ thread[t].op # "read"
  /\ \E v \in Taken(thread[t].v) :
       /\ hw' = [hw EXCEPT ![thread[t].p] = v]
       /\ thread' = [thread EXCEPT ![t] = Thread(@.op, "announce", @.todo, @.p, v)]
  /\ unwritten' = unwritten \ {thread[t].p}
  /\ UNCHANGED <<persistent, value, writeDict, persistentData, lock, lost, counters>>

ReadHardware(t) ==
  LET p == thread[t].p IN
  /\ thread[t].at = "hw" /\ thread[t].op = "read"
  /\ p \in AutoSaved \/ ~lost
  /\ LET at == IF p \in AutoSaved THEN "announce" ELSE "save" IN
     thread' = [thread EXCEPT ![t] = Thread("read", at, {}, p, hw[p])]
  /\ UNCHANGED <<persistent, hw, value, writeDict, persistentData, lock, lost, counters,
                 unwritten>>

\* A read method detects the power down: loadParameters.
LoadParameters(t) ==
  LET saved == Complete(file)
      loaded == IF saved = NoFile THEN {} ELSE Params IN
  /\ thread[t].at = "hw" /\ thread[t].op = "read"
  /\ thread[t].p \notin AutoSaved /\ lost
  /\ lost' = FALSE
  /\ persistentData' = saved
  /\ value' = [p \in Params |-> IF p \in loaded THEN saved[p] ELSE value[p]]
  /\ writeDict' = [p \in Params |-> IF p \in loaded THEN saved[p] ELSE writeDict[p]]
  /\ unwritten' = unwritten \cup loaded
  /\ thread' = [thread EXCEPT ![t] = Thread("load", "list", {}, Nobody, Done)]
  /\ UNCHANGED <<persistent, hw, lock, counters>>

\* The hardware may have done what was asked, but the answer got lost.
HardwareFails(t) ==
  /\ thread[t].at = "hw"
  /\ faults < MaxFaults /\ faults' = faults + 1
  /\ hw' \in {hw} \cup (IF thread[t].op = "read" THEN {}
                        ELSE {[hw EXCEPT ![thread[t].p] = v] : v \in Taken(thread[t].v)})
  /\ Leave(t)
  /\ UNCHANGED <<persistent, value, writeDict, persistentData, lost, stops, requests,
                 unwritten>>

\* announceUpdate, with the callback saveParameters.
Announce(t) ==
  LET p == thread[t].p IN
  /\ thread[t].at = "announce"
  /\ value' = [value EXCEPT ![p] = thread[t].v]
  /\ IF p \in AutoSaved THEN Goto(t, "save") /\ UNCHANGED lock ELSE Leave(t)
  /\ UNCHANGED <<persistent, hw, writeDict, persistentData, lost, counters, unwritten>>

\* No callback for an unchanged value, announced within omit_unchanged_within.
Omit(t) ==
  /\ thread[t].at = "announce"
  /\ value[thread[t].p] = thread[t].v
  /\ Leave(t)
  /\ UNCHANGED <<persistent, hw, value, writeDict, persistentData, lost, counters,
                 unwritten>>

-----------------------------------------------------------------------------
Idle(t) == thread[t] = NoThread
Created == thread[Poller].op # "start"

Call(t, op, at, p, v) ==
  /\ Idle(t)
  /\ thread' = [thread EXCEPT ![t] = Thread(op, at, {}, p, v)]

\* Read by the poll thread or on request.
Read(t) ==
  /\ Created
  /\ \E p \in Params : Call(t, "read", "enter", p, Done)
  /\ UNCHANGED <<persistent, hw, value, writeDict, persistentData, lock, lost, counters,
                 unwritten>>

\* Requests come as soon as the server does not wait for the initial writes any
\* more, which may be before they are done.
Change(t) ==
  /\ Created
  /\ requests < MaxRequests /\ requests' = requests + 1
  /\ \E p \in Params, v \in Values : Call(t, "change", "enter", p, v)
  /\ UNCHANGED <<persistent, hw, value, writeDict, persistentData, lock, lost, faults,
                 stops, unwritten>>

FactoryReset(t) ==
  /\ Created
  /\ requests < MaxRequests /\ requests' = requests + 1
  /\ Call(t, "reset", "list", Nobody, Done)
  /\ writeDict' = [p \in Params |-> Initial]
  /\ unwritten' = Params
  /\ UNCHANGED <<persistent, hw, value, persistentData, lock, lost, faults, stops>>

\* The server stops at any point and is started again, with or without a power
\* down of the hardware.
Crash ==
  /\ stops < MaxStops /\ stops' = stops + 1
  /\ UNCHANGED persistent
  /\ \/ UNCHANGED <<hw, lost>>
     \/ hw' = [p \in Params |-> Factory] /\ lost' = TRUE
  /\ Create
  /\ UNCHANGED <<faults, requests>>

\* The hardware alone has a power down.
PowerDown ==
  /\ stops < MaxStops /\ stops' = stops + 1
  /\ hw' = [p \in Params |-> Factory]
  /\ lost' = TRUE
  /\ UNCHANGED <<persistent, value, writeDict, persistentData, lock, thread, faults,
                 requests, unwritten>>

Step(t) ==
  \/ Save(t) \/ Open(t) \/ Dump(t) \/ Rename(t)
  \/ List(t) \/ Pop(t) \/ WrittenAll(t)
  \/ Enter(t) \/ WriteHardware(t) \/ ReadHardware(t) \/ LoadParameters(t)
  \/ Announce(t)

Next ==
  \/ \E t \in Threads :
       Step(t) \/ Omit(t) \/ SaveFails(t) \/ HardwareFails(t) \/ Read(t)
  \/ \E t \in Handlers : Change(t) \/ FactoryReset(t)
  \/ Crash \/ PowerDown

SafetySpec == Init /\ [][Next]_vars

\* The threads go on, and the poll thread reads every parameter again and again,
\* in intervals longer than omit_unchanged_within.
Spec ==
  /\ SafetySpec
  /\ \A t \in Threads : SF_vars(Step(t))
  /\ SF_vars(Announce(Poller))
  /\ \A p \in Params : SF_vars(Read(Poller) /\ thread'[Poller].p = p)

-----------------------------------------------------------------------------
Ops == {"none", "start", "init", "load", "reset", "change", "read"}
Places == {"none", "save", "open", "dump", "rename", "list", "item", "enter", "hw",
           "announce"}

TypeOK ==
  /\ file \in Settings \cup {NoFile, Partial}
  /\ tmpfile \in Settings \cup {NoFile, Partial}
  /\ hw \in Settings /\ value \in Settings
  /\ writeDict \in [Params -> Values \cup {Done}]
  /\ persistentData \in Settings \cup {NoFile}
  /\ lock \in Threads \cup {Nobody}
  /\ thread \in [Threads -> [op : Ops, at : Places, todo : SUBSET Params,
                             p : Params \cup {Nobody}, v : Values \cup {Done}]]
  /\ lost \in BOOLEAN
  /\ faults \in 0 .. MaxFaults /\ stops \in 0 .. MaxStops
  /\ requests \in 0 .. MaxRequests
  /\ unwritten \subseteq Params

\* A crash at any moment leaves a file with all parameters.
FileComplete == file # Partial

Saving(t) == thread[t].at \in {"open", "dump", "rename"}

\* Unless something has failed, persistentData tells what is in the file when
\* nobody is saving: otherwise a value equal to the one in persistentData would
\* never be saved.
KnownWhatIsSaved ==
  faults = 0 /\ (\A t \in Threads : ~Saving(t)) => persistentData = file

StartsSaving(t) ==
  thread[t].at = "save" /\ thread[t].op # "start" /\ thread'[t].at = "open"

\* "do not save before all values are written to the hw, as potentially factory
\* default values were read in the meantime" (persistent.py:140)
SavedWhenWritten ==
  [][\A t \in Threads : StartsSaving(t) => unwritten = {}]_vars

\* The poll thread keeps that rule as long as nothing has failed and no request
\* is underway: all a request has left to write is written when it ends.
SavedWhenAlone ==
  [][faults = 0 /\ (\A t \in Handlers : Idle(t)) /\ StartsSaving(Poller)
       => unwritten = {}]_vars

\* "whenever one of the parameters is changed, either by a change command or when
\* reading back from the hardware, it is saved to a file" (persistent.py:26)
ChangesSaved == <>[](\A p \in AutoSaved : file # NoFile /\ file[p] = value[p])

\* The same when nothing fails.
SavedAtLast == [](faults = 0) => ChangesSaved

\* factory_reset: "reset to values from config / default values"
\* (persistent.py:167).  Stated for a run with a single request.
ResetLasts ==
  \A t \in Handlers :
    thread[t].op = "reset" ~> [](\A p \in Params : hw[p] = Initial)
=============================================================================
