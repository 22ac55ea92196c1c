--------------------------- MODULE PersistentProofs ---------------------------
(***************************************************************************)
(* What a crash leaves behind: the file is complete at any moment, and     *)
(* (unless a save has failed) persistentData tells what it contains, for   *)
(* any parameters, values, threads and bounds.  The argument is that one   *)
(* thread at a time is inside __save_params: the one creating the module,  *)
(* when there is no other one yet, or the owner of the accessLock.         *)
(* Initial values are not lost from sight either: what is not yet in the   *)
(* hardware is in writeDict, or in the hands of a thread (Remembered).     *)
(***************************************************************************)
EXTENDS Persistent, TLAPS

USE ParamsAssumption, ValuesAssumption, FilesAssumption, BoundsAssumption,
    ThreadsAssumption

-----------------------------------------------------------------------------
(* The inductive invariant.                                                *)

AtSave(t) == thread[t].at \in {"save", "open", "dump", "rename"}
Inside(t) == AtSave(t) \/ thread[t].at \in {"hw", "announce"}

\* A thread inside a wrapper has a parameter, and a value to write, to announce
\* or to save before it is announced.
Writing(t) == thread[t].at \in {"enter", "hw"} /\ thread[t].op # "read"
Fetched ==
  \A t \in Threads :
    /\ thread[t].at \in {"enter", "hw", "announce"} => thread[t].p \in Params
    /\ thread[t].at = "announce" => thread[t].v \in Values
    /\ Writing(t) => thread[t].v \in Values
    /\ Explicit(t) /\ AtSave(t) => thread[t].p \in Params /\ thread[t].v \in Values

\* The thread creating the module is alone; the others are inside by turns.
ByTurns ==
  /\ \A t \in Threads : Inside(t) => thread[t].op = "start" \/ lock = t
  /\ \A t \in Threads :
       thread[t].op = "start" =>
         /\ t = Poller /\ AtSave(t) /\ lock = Nobody
         /\ \A u \in Handlers : thread[u].at = "none"

\* What is going to be the file is complete.
ReadyToRename ==
  \A t \in Threads :
    /\ Saving(t) => persistentData \in Settings
    /\ thread[t].at = "rename" => tmpfile = persistentData

IndInv == TypeOK /\ Fetched /\ ByTurns /\ ReadyToRename /\ FileComplete

LEMMA StartIsSettings ==
  ASSUME NEW saved \in Settings \cup {NoFile}
  PROVE  Start(saved) \in Settings
BY DEF Start, Settings

LEMMA CreatingParts ==
  /\ Creating \in [Threads -> [op : Ops, at : Places, todo : SUBSET Params,
                              p : Params \cup {Nobody}, v : Values \cup {Done}]]
  /\ \A t \in Threads :
       /\ t = Poller => Creating[t].op = "start" /\ Creating[t].at = "save"
       /\ t # Poller => Creating[t].op = "none" /\ Creating[t].at = "none"
BY DEF Creating, NoThread, Thread, Threads, Ops, Places

\* A module just created.
LEMMA CreatedParts ==
  ASSUME thread = Creating, lock = Nobody
  PROVE  Fetched /\ ByTurns /\ ReadyToRename
BY CreatingParts
   DEF Fetched, Writing, ByTurns, ReadyToRename, AtSave, Inside, Saving, Explicit, Threads

LEMMA InitIndInv == Init => IndInv
<1> SUFFICES ASSUME Init PROVE IndInv
  OBVIOUS
<1>1. TypeOK
  <2>1. value \in Settings /\ writeDict \in Settings /\ hw \in Settings
    BY StartIsSettings DEF Init, Settings
  <2>2. writeDict \in [Params -> Values \cup {Done}]
    BY <2>1 DEF Settings
  <2>3. /\ faults \in 0 .. MaxFaults /\ stops \in 0 .. MaxStops
        /\ requests \in 0 .. MaxRequests
    BY DEF Init
  <2>4. /\ thread \in [Threads -> [op : Ops, at : Places, todo : SUBSET Params,
                                  p : Params \cup {Nobody}, v : Values \cup {Done}]]
        /\ lock \in Threads \cup {Nobody} /\ lost \in BOOLEAN /\ unwritten \subseteq Params
    BY CreatingParts DEF Init
  <2> QED BY <2>1, <2>2, <2>3, <2>4 DEF Init, TypeOK
<1>2. FileComplete
  BY DEF Init, FileComplete, Settings
<1> QED BY <1>1, <1>2, CreatedParts DEF Init, IndInv

LEMMA OneInside ==
  ASSUME ByTurns, NEW t \in Threads, NEW u \in Threads, Inside(t), Inside(u)
  PROVE  t = u
BY DEF ByTurns, Inside, AtSave, Threads

LEMMA TakenIsValue == ASSUME NEW v \in Values PROVE Taken(v) \subseteq Values
BY DEF Taken

-----------------------------------------------------------------------------
(* A step of thread t which leaves the others where they are.              *)

ThreadRecords == [op : Ops, at : Places, todo : SUBSET Params,
                  p : Params \cup {Nobody}, v : Values \cup {Done}]

Only(t) ==
  /\ thread' \in [Threads -> ThreadRecords]
  /\ \A u \in Threads : u # t => thread'[u] = thread[u]

LEMMA MoveKeepsTurns ==
  ASSUME Fetched, ByTurns, NEW t \in Threads, Only(t),
         lock' = lock \/ {lock, lock'} \subseteq {t, Nobody},
         thread[Poller].op = "start" => t = Poller,
         Inside(t)' => thread'[t].op = "start" \/ lock' = t,
         thread'[t].op = "start" => thread[t].op = "start" /\ AtSave(t)' /\ lock' = lock,
         thread'[t].at \in {"enter", "hw", "announce"} => thread'[t].p \in Params,
         thread'[t].at = "announce" => thread'[t].v \in Values,
         Writing(t)' => thread'[t].v \in Values,
         Explicit(t)' /\ AtSave(t)' => thread'[t].p \in Params /\ thread'[t].v \in Values
  PROVE  Fetched' /\ ByTurns'
<1>1. Fetched'
  BY DEF Fetched, Writing, Explicit, AtSave, Only
<1>2. ASSUME NEW u \in Threads, Inside(u)' PROVE thread'[u].op = "start" \/ lock' = u
  <2>1. CASE u = t
    BY <1>2, <2>1
  <2>2. CASE u # t
    BY <1>2, <2>2 DEF ByTurns, Inside, AtSave, Only, Threads
  <2> QED BY <2>1, <2>2
<1>3. ASSUME NEW u \in Threads, thread'[u].op = "start"
      PROVE  /\ u = Poller /\ AtSave(u)' /\ lock' = Nobody
             /\ \A w \in Handlers : thread'[w].at = "none"
  <2>1. u = t
    BY <1>3 DEF ByTurns, Only
  <2> QED BY <1>3, <2>1 DEF ByTurns, Only, Threads
<1> QED BY <1>1, <1>2, <1>3 DEF ByTurns

\* A step which does not touch the files and does not begin to save.
LEMMA MoveKeepsFiles ==
  ASSUME ReadyToRename, FileComplete, NEW t \in Threads, Only(t),
         UNCHANGED <<persistentData, persistent>>, ~Saving(t)'
  PROVE  ReadyToRename' /\ FileComplete'
BY DEF ReadyToRename, FileComplete, Only, Saving, persistent

\* In a step of a thread inside, no other thread is.
LEMMA InsideKeepsFiles ==
  ASSUME ByTurns, NEW t \in Threads, Only(t), Inside(t),
         Saving(t)' => persistentData' \in Settings,
         thread'[t].at = "rename" => tmpfile' = persistentData'
  PROVE  ReadyToRename'
BY OneInside DEF ReadyToRename, Only, Saving, Inside, AtSave

-----------------------------------------------------------------------------
(* Leaving a wrapper, and leaving __save_params.                           *)

LEMMA LeaveKeepsTurns ==
  ASSUME TypeOK, Fetched, ByTurns, NEW t \in Threads, Inside(t),
         thread[t].op # "start", Leave(t)
  PROVE  /\ Only(t) /\ ~Saving(t)' /\ lock' \in Threads \cup {Nobody}
         /\ Fetched' /\ ByTurns'
<1>1. lock = t /\ thread[Poller].op # "start"
  BY DEF ByTurns, Threads
<1>2. CASE thread[t].op \in {"init", "load", "reset"}
  <2>1. thread' = [thread EXCEPT ![t].at = "item"] /\ lock' \in {t, Nobody}
    BY <1>2 DEF Leave, Goto
  <2>2. Only(t) /\ thread'[t].at = "item" /\ thread'[t].op = thread[t].op
    BY <2>1 DEF TypeOK, Only, ThreadRecords, Places
  <2> QED BY <1>1, <2>1, <2>2, MoveKeepsTurns DEF Writing, Inside, AtSave, Saving
<1>3. CASE thread[t].op \notin {"init", "load", "reset"}
  <2>1. thread' = [thread EXCEPT ![t] = NoThread] /\ lock' = Nobody
    BY <1>3 DEF Leave
  <2>2. Only(t) /\ thread'[t].at = "none" /\ thread'[t].op = "none"
    BY <2>1 DEF TypeOK, Only, ThreadRecords, Places, Ops, NoThread, Thread
  <2> QED BY <1>1, <2>1, <2>2, MoveKeepsTurns DEF Writing, Inside, AtSave, Saving
<1> QED BY <1>2, <1>3

LEMMA SavedKeepsTurns ==
  ASSUME TypeOK, Fetched, ByTurns, NEW t \in Threads, AtSave(t), Saved(t)
  PROVE  /\ Only(t) /\ ~Saving(t)' /\ lock' \in Threads \cup {Nobody}
         /\ Fetched' /\ ByTurns'
<1>1. CASE thread[t].op = "start"
  <2>1. /\ thread' = [thread EXCEPT ![t] = Thread("init", "list", {}, Nobody, Done)]
        /\ lock' = lock
    BY <1>1 DEF Saved, Explicit
  <2>2. Only(t) /\ thread'[t].at = "list" /\ thread'[t].op = "init"
    BY <2>1 DEF TypeOK, Only, ThreadRecords, Places, Ops, Thread
  <2>3. t = Poller
    BY <1>1 DEF ByTurns
  <2> QED BY <2>1, <2>2, <2>3, MoveKeepsTurns DEF Writing, Inside, AtSave, Saving, TypeOK
<1>2. CASE thread[t].op # "start" /\ Explicit(t)
  <2>1. thread' = [thread EXCEPT ![t].at = "announce"] /\ lock' = lock
    BY <1>2 DEF Saved, Goto
  <2>2. /\ Only(t) /\ thread'[t].at = "announce" /\ thread'[t].op = thread[t].op
        /\ thread'[t].p = thread[t].p /\ thread'[t].v = thread[t].v
    BY <2>1 DEF TypeOK, Only, ThreadRecords, Places
  <2>3. lock = t /\ thread[Poller].op # "start"
    BY <1>2 DEF ByTurns, Inside, Threads
  <2>4. thread[t].p \in Params /\ thread[t].v \in Values
    BY <1>2 DEF Fetched
  <2> QED BY <1>2, <2>1, <2>2, <2>3, <2>4, MoveKeepsTurns DEF Writing, Inside, AtSave, Saving, TypeOK
<1>3. CASE thread[t].op # "start" /\ ~Explicit(t)
  BY <1>3, LeaveKeepsTurns DEF Saved, Inside
<1> QED BY <1>1, <1>2, <1>3

-----------------------------------------------------------------------------
(* __save_params.                                                          *)

LEMMA SavingKeepsIndInv ==
  ASSUME IndInv, NEW t \in Threads,
         Save(t) \/ Open(t) \/ Dump(t) \/ Rename(t) \/ SaveFails(t)
  PROVE  IndInv'
<1> USE DEF IndInv
<1>1. AtSave(t) /\ Inside(t)
  BY DEF Save, Open, Dump, Rename, SaveFails, AtSave, Inside
<1>2. ASSUME NEW at \in {"open", "dump", "rename"}, Goto(t, at), UNCHANGED lock
      PROVE  Only(t) /\ thread'[t].at = at /\ Fetched' /\ ByTurns'
  <2>1. /\ Only(t) /\ thread'[t].at = at /\ thread'[t].op = thread[t].op
        /\ thread'[t].p = thread[t].p /\ thread'[t].v = thread[t].v
    BY <1>2 DEF Goto, TypeOK, Only, ThreadRecords, Places
  <2>2. thread[Poller].op = "start" => t = Poller
    BY <1>1 DEF ByTurns, Threads, AtSave
  <2>3. thread[t].op # "start" => lock = t
    BY <1>1 DEF ByTurns
  <2>4. Explicit(t)' => thread[t].p \in Params /\ thread[t].v \in Values
    BY <1>1, <2>1 DEF Fetched, Explicit
  <2> QED BY <1>2, <2>1, <2>2, <2>3, <2>4, MoveKeepsTurns DEF Writing, Inside, AtSave
<1>3. CASE Save(t)
  <2>1. CASE Goto(t, "open") /\ UNCHANGED lock /\ persistentData' = value
    <3>1. Only(t) /\ thread'[t].at = "open" /\ Fetched' /\ ByTurns'
      BY <1>2, <2>1
    <3>2. ReadyToRename'
      BY <1>1, <2>1, <3>1, InsideKeepsFiles DEF TypeOK
    <3> QED BY <1>3, <2>1, <3>1, <3>2
            DEF Save, TypeOK, Only, ThreadRecords, FileComplete, counters
  <2>2. CASE Saved(t) /\ UNCHANGED persistentData
    <3>1. UNCHANGED <<persistentData, persistent>>
      BY <1>3, <2>2 DEF Save, persistent
    <3> QED BY <1>1, <1>3, <2>2, <3>1, SavedKeepsTurns, MoveKeepsFiles
            DEF Save, TypeOK, Only, ThreadRecords, counters
  <2> QED BY <1>3, <2>1, <2>2 DEF Save
<1>4. CASE Open(t)
  <2>1. Only(t) /\ thread'[t].at = "dump" /\ Fetched' /\ ByTurns'
    BY <1>2, <1>4 DEF Open
  <2>2. persistentData' \in Settings
    BY <1>4 DEF Open, ReadyToRename, Saving
  <2>3. ReadyToRename'
    BY <1>1, <2>1, <2>2, InsideKeepsFiles
  <2> QED BY <1>4, <2>1, <2>3 DEF Open, TypeOK, Only, ThreadRecords, FileComplete, counters
<1>5. CASE Dump(t)
  <2>1. Only(t) /\ thread'[t].at = "rename" /\ Fetched' /\ ByTurns'
    BY <1>2, <1>5 DEF Dump
  <2>2. persistentData' \in Settings /\ tmpfile' = persistentData'
    BY <1>5 DEF Dump, ReadyToRename, Saving
  <2>3. ReadyToRename'
    BY <1>1, <2>1, <2>2, InsideKeepsFiles
  <2> QED BY <1>5, <2>1, <2>2, <2>3
          DEF Dump, TypeOK, Only, ThreadRecords, FileComplete, counters
<1>6. CASE Rename(t)
  <2>1. Only(t) /\ ~Saving(t)' /\ lock' \in Threads \cup {Nobody} /\ Fetched' /\ ByTurns'
    BY <1>1, <1>6, SavedKeepsTurns DEF Rename
  <2>2. file' \in Settings /\ tmpfile' = NoFile
    BY <1>6 DEF Rename, ReadyToRename, Saving
  <2>3. ReadyToRename'
    BY <1>1, <2>1, InsideKeepsFiles DEF Saving
  <2> QED BY <1>6, <2>1, <2>2, <2>3
          DEF Rename, TypeOK, Only, ThreadRecords, FileComplete, Settings, counters
<1>7. CASE SaveFails(t)
  <2>1. Only(t) /\ ~Saving(t)' /\ lock' \in Threads \cup {Nobody} /\ Fetched' /\ ByTurns'
    BY <1>1, <1>7, LeaveKeepsTurns DEF SaveFails
  <2>2. ReadyToRename'
    BY <1>1, <2>1, InsideKeepsFiles DEF Saving
  <2>3. faults' \in 0 .. MaxFaults
    BY <1>7 DEF SaveFails, TypeOK
  <2> QED BY <1>7, <2>1, <2>2, <2>3
          DEF SaveFails, TypeOK, Only, ThreadRecords, FileComplete
<1> QED BY <1>3, <1>4, <1>5, <1>6, <1>7

-----------------------------------------------------------------------------
(* writeInitParams, and the wrappers of write_x and read_x.                *)

LEMMA InitWritesKeepIndInv ==
  ASSUME IndInv, NEW t \in Threads, List(t) \/ Pop(t) \/ WrittenAll(t) \/ Enter(t)
  PROVE  IndInv'
<1> USE DEF IndInv
<1>1. thread[t].op # "start" /\ (thread[Poller].op = "start" => t = Poller)
  BY DEF List, Pop, WrittenAll, Enter, ByTurns, AtSave, Threads
<1>2. CASE List(t)
  <2>1. Only(t) /\ thread'[t].at = "item" /\ thread'[t].op = thread[t].op
    BY <1>2 DEF List, ToWrite, Thread, TypeOK, Only, ThreadRecords, Places
  <2>2. Fetched' /\ ByTurns'
    BY <1>1, <1>2, <2>1, MoveKeepsTurns DEF Writing, List, Inside, AtSave
  <2>3. ReadyToRename' /\ FileComplete'
    BY <1>2, <2>1, MoveKeepsFiles DEF List, Saving
  <2> QED BY <1>2, <2>1, <2>2, <2>3 DEF List, TypeOK, Only, ThreadRecords, persistent, counters
<1>3. CASE Pop(t)
  <2>1. PICK p \in thread[t].todo :
          /\ thread' = [thread EXCEPT ![t] =
               IF p \in ToWrite
                 THEN Thread(@.op, "enter", @.todo \ {p}, p, writeDict[p])
                 ELSE Thread(@.op, "item", @.todo \ {p}, Nobody, Done)]
          /\ writeDict' = [writeDict EXCEPT ![p] = Done]
    BY <1>3 DEF Pop
  <2>2. p \in Params /\ writeDict[p] \in Values \cup {Done}
    BY <2>1 DEF TypeOK, ThreadRecords
  <2>3. /\ Only(t) /\ thread'[t].op = thread[t].op
        /\ \/ /\ thread'[t].at = "enter" /\ thread'[t].p = p
              /\ thread'[t].v \in Values
           \/ thread'[t].at = "item"
    BY <2>1, <2>2 DEF ToWrite, Thread, TypeOK, Only, ThreadRecords, Places
  <2>4. Fetched' /\ ByTurns'
    BY <1>1, <1>3, <2>2, <2>3, MoveKeepsTurns DEF Writing, Pop, Inside, AtSave
  <2>5. ReadyToRename' /\ FileComplete'
    BY <1>3, <2>3, MoveKeepsFiles DEF Pop, Saving
  <2>6. writeDict' \in [Params -> Values \cup {Done}]
    BY <2>1 DEF TypeOK
  <2> QED BY <1>3, <2>3, <2>4, <2>5, <2>6
          DEF Pop, TypeOK, Only, ThreadRecords, persistent, counters
<1>4. CASE WrittenAll(t)
  <2>1. Only(t) /\ thread'[t].at = "none" /\ thread'[t].op = "none"
    BY <1>4 DEF WrittenAll, NoThread, Thread, TypeOK, Only, ThreadRecords, Places, Ops
  <2>2. lock' = lock \/ {lock, lock'} \subseteq {t, Nobody}
    BY <1>4 DEF WrittenAll
  <2>3. Fetched' /\ ByTurns'
    BY <1>1, <2>1, <2>2, MoveKeepsTurns DEF Writing, Inside, AtSave
  <2>4. ReadyToRename' /\ FileComplete'
    BY <1>4, <2>1, MoveKeepsFiles DEF WrittenAll, Saving
  <2> QED BY <1>4, <2>1, <2>2, <2>3, <2>4
          DEF WrittenAll, TypeOK, Only, ThreadRecords, persistent, counters
<1>5. CASE Enter(t)
  <2>1. /\ Only(t) /\ thread'[t].at = "hw" /\ thread'[t].op = thread[t].op
        /\ thread'[t].p = thread[t].p /\ thread'[t].v = thread[t].v
    BY <1>5 DEF Enter, Goto, TypeOK, Only, ThreadRecords, Places
  <2>2. thread[t].p \in Params /\ lock' = t /\ {lock, lock'} \subseteq {t, Nobody}
    BY <1>5 DEF Enter, Fetched
  <2>3. Fetched' /\ ByTurns'
    BY <1>1, <1>5, <2>1, <2>2, MoveKeepsTurns DEF Enter, Fetched, Writing, Inside, AtSave
  <2>4. ReadyToRename' /\ FileComplete'
    BY <1>5, <2>1, MoveKeepsFiles DEF Enter, Saving
  <2> QED BY <1>5, <2>1, <2>2, <2>3, <2>4
          DEF Enter, TypeOK, Only, ThreadRecords, persistent, counters
<1> QED BY <1>2, <1>3, <1>4, <1>5

LEMMA WrappersKeepIndInv ==
  ASSUME IndInv, NEW t \in Threads,
         \/ WriteHardware(t) \/ ReadHardware(t) \/ LoadParameters(t)
         \/ HardwareFails(t) \/ Announce(t) \/ Omit(t)
  PROVE  IndInv'
<1> USE DEF IndInv
<1>1. /\ Inside(t) /\ thread[t].op # "start" /\ thread[Poller].op # "start"
      /\ lock = t /\ thread[t].p \in Params
  BY DEF WriteHardware, ReadHardware, LoadParameters, HardwareFails, Announce, Omit,
         Inside, ByTurns, AtSave, Fetched, Threads
<1>2. CASE WriteHardware(t)
  <2>1. PICK v \in Taken(thread[t].v) :
          /\ hw' = [hw EXCEPT ![thread[t].p] = v]
          /\ thread' = [thread EXCEPT ![t] = Thread(@.op, "announce", @.todo, @.p, v)]
    BY <1>2 DEF WriteHardware
  <2>2. v \in Values
    BY <1>2, <2>1, TakenIsValue DEF WriteHardware, Fetched, Writing
  <2>3. /\ Only(t) /\ thread'[t].at = "announce" /\ thread'[t].op = thread[t].op
        /\ thread'[t].p = thread[t].p /\ thread'[t].v = v
    BY <2>1, <2>2 DEF Thread, TypeOK, Only, ThreadRecords, Places
  <2>4. Fetched' /\ ByTurns'
    BY <1>1, <1>2, <2>2, <2>3, MoveKeepsTurns DEF Writing, WriteHardware, Inside, AtSave
  <2>5. ReadyToRename' /\ FileComplete'
    BY <1>2, <2>3, MoveKeepsFiles DEF WriteHardware, Saving
  <2>6. hw' \in Settings /\ unwritten' \subseteq Params
    BY <1>2, <2>1, <2>2 DEF WriteHardware, TypeOK, Settings
  <2> QED BY <1>2, <2>3, <2>4, <2>5, <2>6
          DEF WriteHardware, TypeOK, Only, ThreadRecords, persistent, counters
<1>3. CASE ReadHardware(t)
  <2>1. hw[thread[t].p] \in Values
    BY <1>1 DEF TypeOK, Settings
  <2>2. /\ Only(t) /\ thread'[t].op = "read"
        /\ thread'[t].p = thread[t].p /\ thread'[t].v \in Values
        /\ thread'[t].at \in {"announce", "save"}
    BY <1>1, <1>3, <2>1 DEF ReadHardware, Thread, TypeOK, Only, ThreadRecords, Places, Ops
  <2>3. Fetched' /\ ByTurns'
    BY <1>1, <1>3, <2>2, MoveKeepsTurns DEF Writing, ReadHardware, Inside, AtSave
  <2>4. ReadyToRename' /\ FileComplete'
    BY <1>3, <2>2, MoveKeepsFiles DEF ReadHardware, Saving
  <2> QED BY <1>3, <2>2, <2>3, <2>4
          DEF ReadHardware, TypeOK, Only, ThreadRecords, persistent, counters
<1>4. CASE LoadParameters(t)
  <2>1. Only(t) /\ thread'[t].op = "load" /\ thread'[t].at = "list"
    BY <1>4 DEF LoadParameters, Thread, TypeOK, Only, ThreadRecords, Places, Ops
  <2>2. Fetched' /\ ByTurns'
    BY <1>1, <1>4, <2>1, MoveKeepsTurns DEF Writing, LoadParameters, Inside, AtSave
  <2>3. ReadyToRename' /\ FileComplete'
    BY <1>1, <1>4, <2>1, InsideKeepsFiles DEF LoadParameters, Saving, FileComplete, persistent
  <2>4. Complete(file) \in Settings \cup {NoFile}
    BY DEF Complete, TypeOK
  <2>5. /\ persistentData' \in Settings \cup {NoFile}
        /\ value' \in Settings /\ writeDict' \in [Params -> Values \cup {Done}]
        /\ unwritten' \subseteq Params
    BY <1>4, <2>4 DEF LoadParameters, TypeOK, Settings
  <2> QED BY <1>4, <2>1, <2>2, <2>3, <2>5
          DEF LoadParameters, TypeOK, Only, ThreadRecords, persistent, counters
<1>5. CASE HardwareFails(t)
  <2>1. Only(t) /\ ~Saving(t)' /\ lock' \in Threads \cup {Nobody} /\ Fetched' /\ ByTurns'
    BY <1>1, <1>5, LeaveKeepsTurns DEF HardwareFails
  <2>2. ReadyToRename' /\ FileComplete'
    BY <1>5, <2>1, MoveKeepsFiles DEF HardwareFails
  <2>3. hw' \in Settings /\ faults' \in 0 .. MaxFaults
    BY <1>5, TakenIsValue DEF HardwareFails, Fetched, Writing, TypeOK, Settings
  <2> QED BY <1>5, <2>1, <2>2, <2>3
          DEF HardwareFails, TypeOK, Only, ThreadRecords, persistent
<1>6. CASE Announce(t)
  <2>1. thread[t].v \in Values /\ value' \in Settings
    BY <1>1, <1>6 DEF Announce, Fetched, TypeOK, Settings
  <2>2. CASE thread[t].p \in AutoSaved
    <3>1. /\ Only(t) /\ thread'[t].at = "save" /\ thread'[t].op = thread[t].op
          /\ thread'[t].p = thread[t].p
      BY <1>6, <2>2 DEF Announce, Goto, TypeOK, Only, ThreadRecords, Places
    <3>2. Fetched' /\ ByTurns'
      BY <1>1, <1>6, <2>1, <2>2, <3>1, MoveKeepsTurns
         DEF Writing, Announce, Inside, AtSave, Explicit
    <3>3. ReadyToRename' /\ FileComplete'
      BY <1>6, <3>1, MoveKeepsFiles DEF Announce, Saving
    <3> QED BY <1>6, <2>1, <2>2, <3>1, <3>2, <3>3
            DEF Announce, TypeOK, Only, ThreadRecords, persistent, counters
  <2>3. CASE thread[t].p \notin AutoSaved
    <3>1. Only(t) /\ ~Saving(t)' /\ lock' \in Threads \cup {Nobody} /\ Fetched' /\ ByTurns'
      BY <1>1, <1>6, <2>3, LeaveKeepsTurns DEF Announce
    <3>2. ReadyToRename' /\ FileComplete'
      BY <1>6, <3>1, MoveKeepsFiles DEF Announce
    <3> QED BY <1>6, <2>1, <3>1, <3>2
            DEF Announce, TypeOK, Only, ThreadRecords, persistent, counters
  <2> QED BY <2>2, <2>3
<1>7. CASE Omit(t)
  <2>1. Only(t) /\ ~Saving(t)' /\ lock' \in Threads \cup {Nobody} /\ Fetched' /\ ByTurns'
    BY <1>1, <1>7, LeaveKeepsTurns DEF Omit
  <2>2. ReadyToRename' /\ FileComplete'
    BY <1>7, <2>1, MoveKeepsFiles DEF Omit
  <2> QED BY <1>7, <2>1, <2>2
          DEF Omit, TypeOK, Only, ThreadRecords, persistent, counters
<1> QED BY <1>2, <1>3, <1>4, <1>5, <1>6, <1>7

-----------------------------------------------------------------------------
(* Requests, polls, crashes and power downs.                               *)

LEMMA CallKeepsIndInv ==
  ASSUME IndInv, NEW t \in Threads, Created,
         NEW op \in Ops \ {"start"}, NEW at \in {"enter", "list"},
         NEW p \in Params \cup {Nobody}, NEW v \in Values \cup {Done},
         at = "enter" => p \in Params /\ (op # "read" => v \in Values),
         Call(t, op, at, p, v),
         requests' \in 0 .. MaxRequests,
         writeDict' \in [Params -> Values \cup {Done}],
         unwritten' \subseteq Params,
         UNCHANGED <<persistent, hw, value, persistentData, lock, lost, faults, stops>>
  PROVE  IndInv'
<1> USE DEF IndInv
<1>1. /\ Only(t) /\ thread'[t].op = op /\ thread'[t].at = at
      /\ thread'[t].p = p /\ thread'[t].v = v
  BY DEF Call, Thread, TypeOK, Only, ThreadRecords, Places
<1>2. Fetched' /\ ByTurns'
  BY <1>1, MoveKeepsTurns DEF Created, Writing, Inside, AtSave
<1>3. ReadyToRename' /\ FileComplete'
  BY <1>1, MoveKeepsFiles DEF Saving
<1> QED BY <1>1, <1>2, <1>3 DEF TypeOK, Only, ThreadRecords, persistent

LEMMA RequestsKeepIndInv ==
  ASSUME IndInv, NEW t \in Threads, Read(t) \/ Change(t) \/ FactoryReset(t)
  PROVE  IndInv'
<1> USE DEF IndInv
<1>1. CASE Read(t)
  <2>1. PICK p \in Params : Call(t, "read", "enter", p, Done)
    BY <1>1 DEF Read
  <2>2. "read" \in Ops \ {"start"}
    BY DEF Ops
  <2> QED BY <1>1, <2>1, <2>2, CallKeepsIndInv DEF Read, TypeOK, counters
<1>2. CASE Change(t)
  <2>1. PICK p \in Params, v \in Values : Call(t, "change", "enter", p, v)
    BY <1>2 DEF Change
  <2>2. "change" \in Ops \ {"start"}
    BY DEF Ops
  <2>3. requests' \in 0 .. MaxRequests
    BY <1>2 DEF Change, TypeOK
  <2> QED BY <1>2, <2>1, <2>2, <2>3, CallKeepsIndInv DEF Change, TypeOK
<1>3. CASE FactoryReset(t)
  <2>1. "reset" \in Ops \ {"start"}
    BY DEF Ops
  <2>2. requests' \in 0 .. MaxRequests
    BY <1>3 DEF FactoryReset, TypeOK
  <2>3. writeDict' \in [Params -> Values \cup {Done}] /\ unwritten' \subseteq Params
    BY <1>3 DEF FactoryReset
  <2> QED BY <1>3, <2>1, <2>2, <2>3, CallKeepsIndInv DEF FactoryReset
<1> QED BY <1>1, <1>2, <1>3

LEMMA StopsKeepIndInv == ASSUME IndInv, Crash \/ PowerDown PROVE IndInv'
<1> USE DEF IndInv
<1>1. CASE Crash
  <2>1. Complete(file') \in Settings \cup {NoFile} /\ FileComplete'
    BY <1>1 DEF Crash, Complete, TypeOK, FileComplete, persistent
  <2>2. /\ value' \in Settings /\ writeDict' \in [Params -> Values \cup {Done}]
        /\ persistentData' \in Settings \cup {NoFile}
    BY <1>1, <2>1, StartIsSettings DEF Crash, Create, Settings
  <2>3. hw' \in Settings /\ lost' \in BOOLEAN
    BY <1>1 DEF Crash, TypeOK, Settings
  <2>4. stops' \in 0 .. MaxStops
    BY <1>1 DEF Crash, TypeOK
  <2>5. thread' = Creating /\ lock' = Nobody /\ unwritten' = Params
    BY <1>1 DEF Crash, Create
  <2>6. Fetched' /\ ByTurns' /\ ReadyToRename'
    BY <2>5, CreatingParts
       DEF Fetched, Writing, ByTurns, ReadyToRename, AtSave, Inside, Saving, Explicit, Threads
  <2>7. TypeOK'
    BY <1>1, <2>1, <2>2, <2>3, <2>5, <2>4, CreatingParts DEF Crash, TypeOK, persistent
  <2> QED BY <2>1, <2>6, <2>7
<1>2. CASE PowerDown
  <2>1. hw' \in Settings /\ stops' \in 0 .. MaxStops
    BY <1>2 DEF PowerDown, TypeOK, Settings
  <2>2. Fetched' /\ ByTurns' /\ ReadyToRename' /\ FileComplete'
    BY <1>2 DEF PowerDown, Fetched, Writing, ByTurns, ReadyToRename, FileComplete, AtSave, Inside,
                Saving, Explicit, persistent
  <2> QED BY <1>2, <2>1, <2>2 DEF PowerDown, TypeOK, persistent
<1> QED BY <1>1, <1>2

LEMMA NextKeepsIndInv == IndInv /\ [Next]_vars => IndInv'
<1> SUFFICES ASSUME IndInv, [Next]_vars PROVE IndInv'
  OBVIOUS
<1>1. CASE UNCHANGED vars
  BY <1>1 DEF vars, IndInv, TypeOK, Fetched, Writing, ByTurns, ReadyToRename, FileComplete, AtSave,
              Inside, Saving, Explicit
<1>2. ASSUME NEW t \in Threads, Step(t) \/ Omit(t) \/ SaveFails(t) \/ HardwareFails(t) \/ Read(t)
      PROVE  IndInv'
  BY <1>2, SavingKeepsIndInv, InitWritesKeepIndInv, WrappersKeepIndInv, RequestsKeepIndInv
     DEF Step
<1>3. ASSUME NEW t \in Handlers, Change(t) \/ FactoryReset(t) PROVE IndInv'
  BY <1>3, RequestsKeepIndInv DEF Threads
<1> QED BY <1>1, <1>2, <1>3, StopsKeepIndInv DEF Next

THEOREM IndInvHolds == SafetySpec => []IndInv
BY InitIndInv, NextKeepsIndInv, PTL DEF SafetySpec

\* The variables of a module with persistent parameters have their types.
THEOREM TypeCorrect == SafetySpec => []TypeOK
<1>1. IndInv => TypeOK
  BY DEF IndInv
<1> QED BY <1>1, IndInvHolds, PTL

\* Whenever the server stops, at any point of __save_params and with any number
\* of threads, it finds a complete file when it is started again.
THEOREM FileIsComplete == SafetySpec => []FileComplete
<1>1. IndInv => FileComplete
  BY DEF IndInv
<1> QED BY <1>1, IndInvHolds, PTL

-----------------------------------------------------------------------------
(* As long as nothing has failed, persistentData is what is in the file.   *)

LEMMA StepKeepsKnown ==
  ASSUME IndInv, KnownWhatIsSaved, NEW t \in Threads, Step(t) \/ Omit(t)
  PROVE  KnownWhatIsSaved'
<1> USE DEF IndInv
<1>0. faults' = faults
  BY DEF Step, Save, Open, Dump, Rename, List, Pop, WrittenAll, Enter, WriteHardware,
         ReadHardware, LoadParameters, Announce, Omit, counters
<1>1. CASE Open(t) \/ Dump(t)
  BY <1>0, <1>1 DEF Open, Dump, Goto, TypeOK, KnownWhatIsSaved, Saving
<1>2. CASE Rename(t)
  BY <1>0, <1>2 DEF Rename, ReadyToRename, KnownWhatIsSaved
<1>3. CASE Save(t)
  <2>1. CASE Goto(t, "open")
    BY <1>0, <2>1 DEF Goto, TypeOK, KnownWhatIsSaved, Saving
  <2>2. CASE Saved(t) /\ UNCHANGED <<file, persistentData>>
    <3>1. \A u \in Threads : ~Saving(u)
      BY <1>3, OneInside DEF Save, Saving, Inside, AtSave
    <3> QED BY <1>0, <2>2, <3>1 DEF KnownWhatIsSaved
  <2> QED BY <1>3, <2>1, <2>2 DEF Save
<1>4. CASE LoadParameters(t)
  BY <1>0, <1>4 DEF LoadParameters, Complete, FileComplete, KnownWhatIsSaved, persistent
<1>5. ASSUME UNCHANGED <<file, persistentData>>, ~Saving(t),
             \A u \in Threads : u # t => thread'[u] = thread[u]
      PROVE  KnownWhatIsSaved'
  BY <1>0, <1>5 DEF KnownWhatIsSaved, Saving
<1>6. CASE List(t) \/ Pop(t) \/ WrittenAll(t) \/ Enter(t) \/ WriteHardware(t) \/ ReadHardware(t)
  <2>1. /\ UNCHANGED <<file, persistentData>>
        /\ ~Saving(t)
    BY <1>6 DEF List, Pop, WrittenAll, Enter, WriteHardware, ReadHardware, persistent, Saving
  <2>2. \A u \in Threads : u # t => thread'[u] = thread[u]
    BY <1>6 DEF List, Pop, WrittenAll, Enter, WriteHardware, ReadHardware, Goto, TypeOK
  <2> QED BY <1>5, <2>1, <2>2
<1>7. CASE Announce(t) \/ Omit(t)
  <2>1. UNCHANGED <<file, persistentData>> /\ ~Saving(t)
    BY <1>7 DEF Announce, Omit, persistent, Saving
  <2>2. \A u \in Threads : u # t => thread'[u] = thread[u]
    BY <1>7 DEF Announce, Omit, Leave, Goto, TypeOK
  <2> QED BY <1>5, <2>1, <2>2
<1> QED BY <1>1, <1>2, <1>3, <1>4, <1>6, <1>7 DEF Step

LEMMA NextKeepsKnown == IndInv /\ KnownWhatIsSaved /\ [Next]_vars => KnownWhatIsSaved'
<1> SUFFICES ASSUME IndInv, KnownWhatIsSaved, [Next]_vars PROVE KnownWhatIsSaved'
  OBVIOUS
<1> USE DEF IndInv
<1>1. CASE UNCHANGED vars
  BY <1>1 DEF vars, KnownWhatIsSaved, Saving
<1>2. ASSUME NEW t \in Threads, Step(t) \/ Omit(t)
      PROVE  KnownWhatIsSaved'
  BY <1>2, StepKeepsKnown
<1>3. ASSUME NEW t \in Threads, SaveFails(t) \/ HardwareFails(t)
      PROVE  KnownWhatIsSaved'
  <2>1. faults' # 0
    BY <1>3 DEF SaveFails, HardwareFails, TypeOK
  <2> QED BY <2>1 DEF KnownWhatIsSaved
<1>4. ASSUME NEW t \in Threads, Read(t) \/ Change(t) \/ FactoryReset(t)
      PROVE  KnownWhatIsSaved'
  <2>1. UNCHANGED <<file, persistentData, faults>> /\ Idle(t)
    BY <1>4 DEF Read, Change, FactoryReset, Call, persistent, counters
  <2>2. \A u \in Threads : u # t => thread'[u] = thread[u]
    BY <1>4 DEF Read, Change, FactoryReset, Call, TypeOK
  <2> QED BY <2>1, <2>2 DEF KnownWhatIsSaved, Saving, Idle, NoThread, Thread
<1>5. CASE Crash
  BY <1>5 DEF Crash, Create, Complete, FileComplete, KnownWhatIsSaved, persistent
<1>6. CASE PowerDown
  BY <1>6 DEF PowerDown, KnownWhatIsSaved, Saving, persistent
<1> QED BY <1>1, <1>2, <1>3, <1>4, <1>5, <1>6 DEF Next, Threads

\* Unless something has failed, a value different from the one in the file is
\* different from the one in persistentData, and is saved the next time.
THEOREM FileIsKnown == SafetySpec => []KnownWhatIsSaved
<1>1. Init => KnownWhatIsSaved
  BY DEF Init, KnownWhatIsSaved
<1> QED BY <1>1, NextKeepsKnown, IndInvHolds, PTL DEF SafetySpec

-----------------------------------------------------------------------------
(* As long as nothing has failed, no initial value is forgotten.           *)

\* What is not yet in the hardware is still in writeDict, or a thread which has
\* taken it out of there is on its way to write it.
Remembered ==
  /\ \A t \in Threads : thread[t].at \in {"list", "item"} => thread[t].op # "read"
  /\ faults = 0 =>
       \A p \in unwritten :
         p \in ToWrite \/ \E t \in Threads : Writing(t) /\ thread[t].p = p

\* A step of a thread which forgets no value.
LEMMA StepRemembers ==
  ASSUME Remembered, NEW t \in Threads,
         \A u \in Threads : u # t => thread'[u] = thread[u],
         faults' = 0 => faults = 0,
         thread'[t].at \in {"list", "item"} => thread'[t].op # "read",
         \A p \in unwritten' :
           \/ p \in ToWrite'
           \/ p \in unwritten \ ToWrite /\ ~(Writing(t) /\ thread[t].p = p)
           \/ Writing(t)' /\ thread'[t].p = p
  PROVE  Remembered'
<1>1. ASSUME faults' = 0, NEW p \in unwritten'
      PROVE  p \in ToWrite' \/ \E u \in Threads : Writing(u)' /\ thread'[u].p = p
  <2>1. CASE p \in unwritten \ ToWrite /\ ~(Writing(t) /\ thread[t].p = p)
    <3>1. PICK u \in Threads : Writing(u) /\ thread[u].p = p
      BY <1>1, <2>1 DEF Remembered
    <3>2. u # t
      BY <2>1, <3>1
    <3> QED
      BY <3>1, <3>2 DEF Writing
  <2> QED
    BY <1>1, <2>1
<1> QED
  BY <1>1 DEF Remembered

\* A step of a thread which is not writing, and leaves writeDict alone.
LEMMA OtherStepRemembers ==
  ASSUME Remembered, NEW t \in Threads, ~Writing(t), UNCHANGED <<writeDict, unwritten>>,
         \A u \in Threads : u # t => thread'[u] = thread[u],
         faults' = 0 => faults = 0,
         thread'[t].at \in {"list", "item"} => thread'[t].op # "read"
  PROVE  Remembered'
<1>1. ToWrite' = ToWrite
  BY DEF ToWrite
<1> QED
  BY <1>1, StepRemembers

LEMMA SavingRemembers ==
  ASSUME IndInv, Remembered, NEW t \in Threads,
         Save(t) \/ Open(t) \/ Dump(t) \/ Rename(t) \/ SaveFails(t)
  PROVE  Remembered'
<1> USE DEF IndInv
<1>1. /\ ~Writing(t) /\ UNCHANGED <<writeDict, unwritten>> /\ (faults' = 0 => faults = 0)
  BY DEF Save, Open, Dump, Rename, SaveFails, Writing, counters, TypeOK
<1>2. Saved(t) \/ Leave(t) \/ \E at \in {"open", "dump", "rename"} : Goto(t, at)
  BY DEF Save, Open, Dump, Rename, SaveFails
<1>3. /\ \A u \in Threads : u # t => thread'[u] = thread[u]
      /\ thread'[t].at \in {"list", "item"} => thread'[t].op # "read"
  BY <1>2 DEF Saved, Leave, Goto, TypeOK, NoThread, Thread
<1> QED
  BY <1>1, <1>3, OtherStepRemembers

LEMMA InitWritesRemember ==
  ASSUME IndInv, Remembered, NEW t \in Threads,
         List(t) \/ Pop(t) \/ WrittenAll(t) \/ Enter(t)
  PROVE  Remembered'
<1> USE DEF IndInv
<1>1. faults' = faults /\ unwritten' = unwritten
  BY DEF List, Pop, WrittenAll, Enter, counters
<1>2. CASE List(t) \/ WrittenAll(t)
  <2>1. ~Writing(t) /\ writeDict' = writeDict
    BY <1>2 DEF List, WrittenAll, Writing
  <2>2. /\ \A u \in Threads : u # t => thread'[u] = thread[u]
        /\ thread'[t].at \in {"list", "item"} => thread'[t].op # "read"
    BY <1>2 DEF List, WrittenAll, TypeOK, NoThread, Thread, Remembered
  <2> QED
    BY <1>1, <2>1, <2>2, OtherStepRemembers
<1>3. CASE Pop(t)
  <2>1. PICK p \in thread[t].todo :
          /\ thread' = [thread EXCEPT ![t] =
               IF p \in ToWrite
                 THEN Thread(@.op, "enter", @.todo \ {p}, p, writeDict[p])
                 ELSE Thread(@.op, "item", @.todo \ {p}, Nobody, Done)]
          /\ writeDict' = [writeDict EXCEPT ![p] = Done]
    BY <1>3 DEF Pop
  <2>2. thread[t].at = "item" /\ thread[t].op # "read"
    BY <1>3 DEF Pop, Remembered
  <2>3. /\ \A u \in Threads : u # t => thread'[u] = thread[u]
        /\ thread'[t].op = thread[t].op
        /\ p \in ToWrite => thread'[t].at = "enter" /\ thread'[t].p = p
    BY <2>1 DEF TypeOK, Thread
  <2>4. \A q \in Params : q # p => (q \in ToWrite <=> q \in ToWrite')
    BY <2>1 DEF ToWrite, TypeOK
  <2>5. p \in ToWrite => Writing(t)' /\ thread'[t].p = p
    BY <2>2, <2>3 DEF Writing
  <2>6. ~Writing(t)
    BY <2>2 DEF Writing
  <2>7. unwritten \subseteq Params
    BY DEF TypeOK
  <2>8. ASSUME NEW q \in unwritten'
        PROVE  \/ q \in ToWrite'
               \/ q \in unwritten \ ToWrite
               \/ Writing(t)' /\ thread'[t].p = q
    BY <1>1, <2>4, <2>5, <2>7
  <2> QED
    BY <1>1, <2>2, <2>3, <2>6, <2>8, StepRemembers
<1>4. CASE Enter(t)
  <2>1. /\ \A u \in Threads : u # t => thread'[u] = thread[u]
        /\ thread[t].at = "enter" /\ thread'[t].at = "hw"
        /\ thread'[t].op = thread[t].op /\ thread'[t].p = thread[t].p
    BY <1>4 DEF Enter, Goto, TypeOK
  <2>2. ToWrite' = ToWrite
    BY <1>4 DEF Enter, ToWrite
  <2>3. Writing(t) => Writing(t)'
    BY <2>1 DEF Writing
  <2> QED
    BY <1>1, <2>1, <2>2, <2>3, StepRemembers
<1> QED
  BY <1>2, <1>3, <1>4

LEMMA WrappersRemember ==
  ASSUME IndInv, Remembered, NEW t \in Threads,
         \/ WriteHardware(t) \/ ReadHardware(t) \/ LoadParameters(t)
         \/ HardwareFails(t) \/ Announce(t) \/ Omit(t)
  PROVE  Remembered'
<1> USE DEF IndInv
<1>1. \A u \in Threads : u # t => thread'[u] = thread[u]
  BY DEF WriteHardware, ReadHardware, LoadParameters, HardwareFails, Announce, Omit, Leave,
         Goto, TypeOK
<1>2. CASE WriteHardware(t)
  <2>1. thread'[t].at = "announce"
    BY <1>2 DEF WriteHardware, TypeOK, Thread
  <2>2. ToWrite' = ToWrite /\ faults' = faults /\ unwritten' = unwritten \ {thread[t].p}
    BY <1>2 DEF WriteHardware, ToWrite, counters
  <2> QED
    BY <1>1, <2>1, <2>2, StepRemembers
<1>3. CASE ReadHardware(t)
  <2>1. ~Writing(t) /\ UNCHANGED <<writeDict, unwritten, faults>>
    BY <1>3 DEF ReadHardware, Writing, counters
  <2>2. thread'[t].at \notin {"list", "item"}
    BY <1>3 DEF ReadHardware, TypeOK, Thread
  <2> QED
    BY <1>1, <2>1, <2>2, OtherStepRemembers
<1>4. CASE LoadParameters(t)
  <2>1. thread'[t].op = "load" /\ ~Writing(t) /\ faults' = faults
    BY <1>4 DEF LoadParameters, TypeOK, Thread, Writing, counters
  <2>2. CASE Complete(file) = NoFile
    <3>1. writeDict' = writeDict /\ unwritten' = unwritten
      BY <1>4, <2>2 DEF LoadParameters, TypeOK
    <3> QED
      BY <1>1, <2>1, <3>1, OtherStepRemembers
  <2>3. CASE Complete(file) # NoFile
    <3>1. Complete(file) \in Settings /\ unwritten' = unwritten \cup Params
      BY <1>4, <2>3 DEF LoadParameters, Complete, TypeOK, FileComplete
    <3>2. writeDict' = [p \in Params |-> Complete(file)[p]]
      BY <1>4, <2>3 DEF LoadParameters
    <3>3. \A p \in Params : writeDict'[p] \in Values
      BY <3>1, <3>2 DEF Settings
    <3>4. (\A p \in Params : p \in ToWrite') /\ unwritten' \subseteq Params
      BY <3>1, <3>3 DEF ToWrite, TypeOK
    <3> QED
      BY <1>1, <2>1, <3>4, StepRemembers
  <2> QED
    BY <2>2, <2>3
<1>5. CASE HardwareFails(t)
  <2>1. faults' # 0
    BY <1>5 DEF HardwareFails, TypeOK
  <2>2. thread'[t].at \in {"list", "item"} => thread'[t].op # "read"
    BY <1>5 DEF HardwareFails, Leave, Goto, TypeOK, NoThread, Thread
  <2> QED
    BY <1>1, <2>1, <2>2 DEF Remembered
<1>6. CASE Announce(t) \/ Omit(t)
  <2>1. ~Writing(t) /\ UNCHANGED <<writeDict, unwritten, faults>>
    BY <1>6 DEF Announce, Omit, Writing, counters
  <2>2. Leave(t) \/ Goto(t, "save")
    BY <1>6 DEF Announce, Omit
  <2>3. thread'[t].at \in {"list", "item"} => thread'[t].op # "read"
    BY <2>2 DEF Leave, Goto, TypeOK, NoThread, Thread
  <2> QED
    BY <1>1, <2>1, <2>3, OtherStepRemembers
<1> QED
  BY <1>2, <1>3, <1>4, <1>5, <1>6

LEMMA RequestsRemember ==
  ASSUME IndInv, Remembered, NEW t \in Threads, Read(t) \/ Change(t) \/ FactoryReset(t)
  PROVE  Remembered'
<1> USE DEF IndInv
<1>1. /\ ~Writing(t) /\ faults' = faults
      /\ \A u \in Threads : u # t => thread'[u] = thread[u]
      /\ thread'[t].at \in {"list", "item"} => thread'[t].op # "read"
  BY DEF Read, Change, FactoryReset, Call, Idle, NoThread, Thread, Writing, TypeOK, counters
<1>2. CASE Read(t) \/ Change(t)
  BY <1>1, <1>2, OtherStepRemembers DEF Read, Change
<1>3. CASE FactoryReset(t)
  <2>1. writeDict' = [p \in Params |-> Initial] /\ unwritten' = Params
    BY <1>3 DEF FactoryReset
  <2>2. \A p \in Params : p \in ToWrite'
    BY <2>1 DEF ToWrite
  <2> QED
    BY <1>1, <2>1, <2>2, StepRemembers
<1> QED
  BY <1>2, <1>3

\* A module just created has everything in writeDict.
LEMMA CreatedRemembers ==
  ASSUME NEW saved \in Settings \cup {NoFile}, thread = Creating, writeDict = Start(saved),
         unwritten = Params
  PROVE  Remembered
<1>1. \A p \in Params : writeDict[p] \in Values
  BY StartIsSettings DEF Settings
<1>2. \A p \in Params : p \in ToWrite
  BY <1>1 DEF ToWrite
<1>3. \A t \in Threads : thread[t].at \notin {"list", "item"}
  BY CreatingParts
<1> QED
  BY <1>2, <1>3 DEF Remembered

LEMMA NextRemembers == IndInv /\ Remembered /\ [Next]_vars => Remembered'
<1> SUFFICES ASSUME IndInv, Remembered, [Next]_vars PROVE Remembered'
  OBVIOUS
<1>1. CASE UNCHANGED vars
  BY <1>1 DEF vars, Remembered, ToWrite, Writing
<1>2. ASSUME NEW t \in Threads, Step(t) \/ Omit(t) \/ SaveFails(t) \/ HardwareFails(t) \/ Read(t)
      PROVE  Remembered'
  BY <1>2, SavingRemembers, InitWritesRemember, WrappersRemember, RequestsRemember DEF Step
<1>3. ASSUME NEW t \in Handlers, Change(t) \/ FactoryReset(t) PROVE Remembered'
  BY <1>3, RequestsRemember DEF Threads
<1>4. CASE Crash
  <2>1. Complete(file') \in Settings \cup {NoFile}
    BY <1>4 DEF Crash, Complete, IndInv, TypeOK, persistent
  <2>2. /\ thread' = Creating /\ unwritten' = Params
        /\ writeDict' = Start(Complete(file'))
    BY <1>4 DEF Crash, Create
  <2>3. \A p \in Params : writeDict'[p] \in Values
    BY <2>1, <2>2, StartIsSettings DEF Settings
  <2>4. \A p \in Params : p \in ToWrite'
    BY <2>3 DEF ToWrite
  <2>5. \A t \in Threads : thread'[t].at \notin {"list", "item"}
    BY <2>2, CreatingParts
  <2> QED
    BY <2>2, <2>4, <2>5 DEF Remembered
<1>5. CASE PowerDown
  BY <1>5 DEF PowerDown, Remembered, ToWrite, Writing
<1> QED
  BY <1>1, <1>2, <1>3, <1>4, <1>5 DEF Next

LEMMA SavingStarts ==
  ASSUME IndInv, NEW t \in Threads, Next, StartsSaving(t)
  PROVE  ToWrite = {}
<1> USE DEF IndInv
<1>1. thread[t].at = "save" /\ thread[t].op # "start" /\ thread'[t].at = "open"
  BY DEF StartsSaving
<1>2. ASSUME NEW u \in Threads, Save(u) PROVE ToWrite = {}
  <2>1. CASE u = t
    <3>1. Saved(t) => thread'[t].at # "open"
      BY <1>1, <2>1 DEF Saved, Leave, Goto, TypeOK, NoThread, Thread
    <3> QED
      BY <1>1, <1>2, <2>1, <3>1 DEF Save
  <2>2. CASE u # t
    <3>1. thread'[t] = thread[t]
      BY <1>2, <2>2 DEF Save, Saved, Leave, Goto, TypeOK
    <3> QED
      BY <1>1, <3>1
  <2> QED
    BY <2>1, <2>2
<1>3. ASSUME NEW u \in Threads, Open(u) \/ Dump(u) \/ Rename(u) \/ SaveFails(u)
      PROVE  FALSE
  <2>1. u # t
    BY <1>1, <1>3 DEF Open, Dump, Rename, SaveFails
  <2>2. thread'[t] = thread[t]
    BY <1>3, <2>1 DEF Open, Dump, Rename, SaveFails, Saved, Leave, Goto, TypeOK
  <2> QED
    BY <1>1, <2>2
<1>4. ASSUME NEW u \in Threads, List(u) \/ Pop(u) \/ WrittenAll(u) \/ Enter(u)
      PROVE  FALSE
  <2>1. u # t
    BY <1>1, <1>4 DEF List, Pop, WrittenAll, Enter
  <2>2. thread'[t] = thread[t]
    BY <1>4, <2>1 DEF List, Pop, WrittenAll, Enter, Goto, TypeOK
  <2> QED
    BY <1>1, <2>2
<1>5. ASSUME NEW u \in Threads,
             \/ WriteHardware(u) \/ ReadHardware(u) \/ LoadParameters(u)
             \/ HardwareFails(u) \/ Announce(u) \/ Omit(u)
      PROVE  FALSE
  <2>1. u # t
    BY <1>1, <1>5 DEF WriteHardware, ReadHardware, LoadParameters, HardwareFails, Announce,
                      Omit
  <2>2. thread'[t] = thread[t]
    BY <1>5, <2>1 DEF WriteHardware, ReadHardware, LoadParameters, HardwareFails, Announce,
                      Omit, Leave, Goto, TypeOK
  <2> QED
    BY <1>1, <2>2
<1>6. ASSUME NEW u \in Threads, Read(u) \/ Change(u) \/ FactoryReset(u) PROVE FALSE
  <2>1. u # t
    BY <1>1, <1>6 DEF Read, Change, FactoryReset, Call, Idle, NoThread, Thread
  <2>2. thread'[t] = thread[t]
    BY <1>6, <2>1 DEF Read, Change, FactoryReset, Call, TypeOK
  <2> QED
    BY <1>1, <2>2
<1>7. CASE Crash \/ PowerDown
  BY <1>1, <1>7, CreatingParts DEF Crash, Create, PowerDown, Threads
<1> QED
  BY <1>2, <1>3, <1>4, <1>5, <1>6, <1>7 DEF Next, Step, Threads

\* As long as nothing has failed, and however many requests have been served and
\* crashes survived before, the poll thread saves only when all initial values are
\* in the hardware: __save_params (persistent.py) looks at writeDict, and what has
\* been taken out of it has been written, unless a request is underway.
THEOREM SavesWhatIsWritten == SafetySpec => SavedWhenAlone
<1>1. Init => Remembered
  BY CreatedRemembers DEF Init
<1>2. ASSUME IndInv, Remembered, Next, faults = 0, \A t \in Handlers : Idle(t),
             StartsSaving(Poller)
      PROVE  unwritten = {}
  <2>1. ToWrite = {}
    BY <1>2, SavingStarts DEF Threads
  <2>2. \A t \in Threads : ~Writing(t)
    BY <1>2 DEF Idle, NoThread, Thread, Writing, StartsSaving, Threads
  <2> QED
    BY <1>2, <2>1, <2>2 DEF Remembered
<1>3. IndInv /\ Remembered /\ [Next]_vars
        => [faults = 0 /\ (\A t \in Handlers : Idle(t)) /\ StartsSaving(Poller)
              => unwritten = {}]_vars
  BY <1>2
<1> QED
  BY <1>1, <1>3, NextRemembers, IndInvHolds, PTL DEF SafetySpec, SavedWhenAlone
=============================================================================
