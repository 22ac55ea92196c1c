------------------------------ MODULE SecNode ------------------------------
(***************************************************************************)
(* The modules of a SEC node, from their creation until they are shut      *)
(* down, through restarts of the server within one process (secnode.py,    *)
(* attached.py, HasIO of io.py, dynamic.py).  All of it runs in the main   *)
(* thread; what varies is the configuration: which module is attached to   *)
(* which, and when it looks at the attached one.                           *)
(*                                                                         *)
(* Modules are numbers, in the order of the configuration.  A module may   *)
(* be looked at several times before it is initialised, and when modules   *)
(* are attached to each other get_module calls itself: the frames of these *)
(* calls are on the stack.                                                 *)
(***************************************************************************)
EXTENDS Naturals, FiniteSets, FiniteSetsExt, SequencesExt

CONSTANTS ModuleCount,  \* number of modules
          MaxAttached,  \* bound on the attachments in a configuration
          MaxStarts,    \* bound on the starts of the server
          MaxDepth      \* bound on the recursion of get_module, more than ModuleCount

VARIABLES
  cfg,       \* the configuration
  known,     \* the names in srv.module_cfg
  ioDict,    \* HasIO.ioDict knows the communicator
  starts,
  phase,     \* where the main thread is
  todos,     \* names or objects to be worked on
  objects,   \* the module objects, in the order of their creation
  modules,   \* secnode.modules: objects, in the order in which they were added
  stack,     \* get_module calling itself, from the check of the properties or not
  errors,    \* error_count > 0
  polled,    \* pairs of objects: the polledModules of the first one contain the second one
  running,   \* the objects whose poll thread was started
  unmarked, path, sorted,   \* local variables of _getSortedModules
  order,     \* names of modules to be shut down
  shut       \* history: modules shut down

nodeVars == <<known, ioDict, objects, modules, errors, polled>>
sortVars == <<unmarked, path, sorted, order>>
vars == <<cfg, starts, phase, todos, stack, running, shut, nodeVars, sortVars>>

None == 0
Names == 1 .. ModuleCount
Auto == ModuleCount + 1     \* the communicator created for a uri

-----------------------------------------------------------------------------
(* Configurations: a module looks at a module attached to it in initModule *)
(* ("io" for its communicator, "init" for any other one), or not before    *)
(* its properties are checked ("check").  A module found by a pinata is    *)
(* the last one.                                                           *)

Attachments == {e \in Names \X Names \X {"io", "init", "check"} : e[1] # e[2]}

Configurations ==
  {c \in [attached : UNION {kSubset(k, Attachments) : k \in 0 .. MaxAttached},
          uri : SUBSET Names, pinata : 0 .. ModuleCount - 1, broken : {None, 2}] :
     /\ \A d, e \in c.attached : d[1] = e[1] /\ d # e => d[2] # e[2] /\ {d[3], e[3]} # {"io"}
     /\ \A e \in c.attached : e[3] = "io" => e[1] \notin c.uri}

Attached(n, kind) == {e[2] : e \in {e \in cfg.attached : e[1] = n /\ e[3] = kind}}
Io(n) == IF n \in cfg.uri THEN {Auto} ELSE Attached(n, "io")

InOrder(s) == CHOOSE q \in SetToSeqs(s) : \A i, j \in DOMAIN q : i < j => q[i] < q[j]

\* What initModule looks at: HasIO.initModule first.
InitReads(n) == InOrder(Io(n)) \o InOrder(Attached(n, "init"))
AllProperties(n) == InOrder(Io(n)) \o InOrder(Attached(n, "init") \cup Attached(n, "check"))

Configured == IF cfg.pinata = None THEN Names ELSE Names \ {ModuleCount}

-----------------------------------------------------------------------------
(* Objects, and the dictionary of modules.                                 *)

NewObject(n) == [name |-> n, inits |-> 0, ready |-> FALSE, attached |-> {}]

Stored(n) == \E o \in ToSet(modules) : objects[o].name = n
ObjectOf(n) == CHOOSE o \in ToSet(modules) : objects[o].name = n

\* HasIO.__init__ adds the communicator the first time its uri is seen.
MakesIo(n) == n \in cfg.uri /\ ~ioDict
WithIo(n) == IF MakesIo(n) THEN <<NewObject(Auto)>> ELSE << >>

\* get_module_instance, for a name which is not yet in the dictionary.
Construct(n) ==
  /\ objects' = objects \o WithIo(n) \o <<NewObject(n)>>
  /\ ioDict' = (ioDict \/ MakesIo(n))
Constructed(n) == Len(objects) + Len(WithIo(n)) + 1
AddedIo(n) == IF MakesIo(n) THEN <<Len(objects) + 1>> ELSE << >>

Missing(n) == ~Stored(n) /\ (n \notin known \/ n = cfg.broken)

Init ==
  /\ cfg \in Configurations
  /\ known = Configured /\ ioDict = FALSE /\ starts = 1
  /\ phase = "create" /\ todos = InOrder(known)
  /\ objects = << >> /\ modules = << >> /\ stack = << >> /\ errors = FALSE
  /\ polled = {} /\ running = {}
  /\ unmarked = {} /\ path = << >> /\ sorted = << >> /\ order = << >> /\ shut = << >>

-----------------------------------------------------------------------------
(* create_modules                                                          *)

Frame(o, reads) == [obj |-> o, wait |-> reads, check |-> FALSE]
Initialising(o, n) == Frame(o, InitReads(n))

Creating == phase = "create" /\ todos # << >>

AlreadyCreated ==
  /\ Creating /\ Stored(Head(todos))
  /\ todos' = Tail(todos)
  /\ UNCHANGED <<cfg, starts, phase, stack, running, shut, nodeVars, sortVars>>

\* a slip: the error is logged, but not counted
NotAClassUncounted ==
  /\ Creating /\ Head(todos) = cfg.broken
  /\ todos' = Tail(todos) /\ known' = known \cup {Head(todos)}
  /\ UNCHANGED <<cfg, starts, phase, stack, running, shut, ioDict, objects, modules, errors,
                 polled, sortVars>>

NotAClass ==
  /\ Creating /\ Head(todos) = cfg.broken
  /\ todos' = Tail(todos) /\ known' = known \cup {Head(todos)} /\ errors' = TRUE
  /\ UNCHANGED <<cfg, starts, phase, stack, running, shut, ioDict, objects, modules, polled,
                 sortVars>>

\* A pinata is initialised at once, and then asked for its modules.
Create ==
  LET n == Head(todos) IN
  /\ Creating /\ ~Stored(n) /\ n # cfg.broken
  /\ Construct(n)
  /\ modules' = modules \o AddedIo(n) \o <<Constructed(n)>>
  /\ known' = known \cup {n}
  /\ todos' = Tail(todos)
  /\ IF n = cfg.pinata
     THEN /\ phase' = "scan"
          /\ stack' = <<Initialising(Constructed(n), n)>>
     ELSE UNCHANGED <<phase, stack>>
  /\ UNCHANGED <<cfg, starts, running, shut, errors, polled, sortVars>>

ScanModules ==
  /\ phase = "scan" /\ stack = << >>
  /\ phase' = "create" /\ todos' = Append(todos, ModuleCount)
  /\ UNCHANGED <<cfg, starts, stack, running, shut, nodeVars, sortVars>>

AllCreated ==
  /\ phase = "create" /\ todos = << >>
  /\ phase' = "init" /\ todos' = modules
  /\ UNCHANGED <<cfg, starts, stack, running, shut, nodeVars, sortVars>>

\* Each module is initialised, unless it was as an attached one, then the modules attached
\* to it are looked at.
Initialise ==
  LET o == Head(todos)
      n == objects[o].name
  IN
  /\ phase = "init" /\ stack = << >> /\ todos # << >>
  /\ IF objects[o].ready
     THEN /\ stack' = <<[Frame(o, AllProperties(n)) EXCEPT !.check = TRUE]>>
          /\ todos' = Tail(todos)
     ELSE stack' = <<Initialising(o, n)>> /\ UNCHANGED todos
  /\ UNCHANGED <<cfg, starts, phase, running, shut, nodeVars, sortVars>>

-----------------------------------------------------------------------------
(* get_module, called by Attached.__get__ when the attribute is not yet    *)
(* among the attachedModules.                                              *)

Top == Last(stack)
Below == Front(stack)
Looking == stack # << >> /\ Top.wait # << >>
Wanted == Head(Top.wait)
IsAttached(o, n) == \E e \in objects[o].attached : e[1] = n

Looked(frames) == Append(Front(frames), [Last(frames) EXCEPT !.wait = Tail(@)])
Attach(o, n, m) == [objects EXCEPT ![o].attached = @ \cup {<<n, m>>}]

AlreadyAttached ==
  /\ Looking /\ IsAttached(Top.obj, Wanted)
  /\ stack' = Looked(stack)
  /\ UNCHANGED <<cfg, starts, phase, todos, running, shut, nodeVars, sortVars>>

AttachReady ==
  /\ Looking /\ ~IsAttached(Top.obj, Wanted)
  /\ Stored(Wanted) /\ objects[ObjectOf(Wanted)].ready
  /\ objects' = Attach(Top.obj, Wanted, ObjectOf(Wanted))
  /\ stack' = Looked(stack)
  /\ UNCHANGED <<cfg, starts, phase, todos, running, shut, known, ioDict, modules, errors,
                 polled, sortVars>>

\* A module which is not yet initialised is initialised first; one which is not in the
\* dictionary is created, and not put there.
GetModule ==
  LET n == Wanted IN
  /\ Looking /\ ~IsAttached(Top.obj, n) /\ ~Missing(n) /\ Len(stack) < MaxDepth
  /\ IF Stored(n)
     THEN /\ ~objects[ObjectOf(n)].ready
          /\ stack' = Append(stack, Initialising(ObjectOf(n), n))
          /\ UNCHANGED <<objects, ioDict, modules>>
     ELSE /\ stack' = Append(stack, Initialising(Constructed(n), n))
          /\ Construct(n)
          /\ modules' = modules \o AddedIo(n)
  /\ UNCHANGED <<cfg, starts, phase, todos, running, shut, known, errors, polled, sortVars>>

\* An error is logged and counted while the properties are checked; otherwise it ends the
\* start, as a module attached to itself over others does.
NoSuchModule ==
  /\ Looking /\ ~IsAttached(Top.obj, Wanted) /\ Missing(Wanted)
  /\ errors' = TRUE
  /\ IF Head(stack).check
     THEN stack' = Looked(<<Head(stack)>>) /\ UNCHANGED phase
     ELSE stack' = << >> /\ phase' = "failed"
  /\ UNCHANGED <<cfg, starts, todos, running, shut, known, ioDict, objects, modules, polled,
                 sortVars>>

RecursionError ==
  /\ Looking /\ ~IsAttached(Top.obj, Wanted) /\ ~Missing(Wanted) /\ Len(stack) = MaxDepth
  /\ ~(Stored(Wanted) /\ objects[ObjectOf(Wanted)].ready)
  /\ stack' = << >> /\ phase' = "failed"
  /\ UNCHANGED <<cfg, starts, todos, running, shut, nodeVars, sortVars>>

\* initModule registers the module with the poll thread of its communicator, or its own.
Poller(o) ==
  LET io == {e[2] : e \in {e \in objects[o].attached : e[1] \in Io(objects[o].name)}}
  IN  IF io = {} THEN o ELSE CHOOSE p \in io : TRUE

Initialised ==
  LET o == Top.obj
      ready == [objects EXCEPT ![o].ready = TRUE, ![o].inits = @ + 1]
  IN
  /\ stack # << >> /\ Top.wait = << >> /\ ~Top.check
  /\ polled' = polled \cup {<<Poller(o), o>>}
  /\ IF Below = << >>
     THEN objects' = ready /\ stack' = << >>
     ELSE /\ objects' = [ready EXCEPT ![Last(Below).obj].attached =
                           @ \cup {<<objects[o].name, o>>}]
          /\ stack' = Looked(Below)
  /\ UNCHANGED <<cfg, starts, phase, todos, running, shut, known, ioDict, modules, errors,
                 sortVars>>

Checked ==
  /\ stack # << >> /\ Top.wait = << >> /\ Top.check
  /\ stack' = << >>
  /\ UNCHANGED <<cfg, starts, phase, todos, running, shut, nodeVars, sortVars>>

-----------------------------------------------------------------------------
(* Poll threads: none is started when there was an error.                  *)

StartModules ==
  /\ phase = "init" /\ todos = << >> /\ stack = << >>
  /\ IF errors
     THEN phase' = "failed" /\ UNCHANGED running
     ELSE /\ phase' = "run"
          /\ running' = {o \in ToSet(modules) : \E p \in polled : p[1] = o}
  /\ UNCHANGED <<cfg, starts, todos, stack, shut, nodeVars, sortVars>>

\* stopPollThread of all modules ...
StopPollThreads ==
  /\ phase = "run"
  /\ phase' = "join"
  /\ polled' = {p \in polled : p[1] \notin running}
  /\ UNCHANGED <<cfg, starts, todos, stack, running, shut, known, ioDict, objects, modules,
                 errors, sortVars>>

\* ... and joinPollThread, which gives up after a while.
JoinPollThreads ==
  /\ phase = "join"
  /\ phase' = "sort"
  /\ unmarked' = {objects[o].name : o \in ToSet(modules)}
  /\ path' = << >> /\ sorted' = << >> /\ order' = << >>
  /\ UNCHANGED <<cfg, starts, todos, stack, running, shut, nodeVars>>

-----------------------------------------------------------------------------
(* _getSortedModules: a depth first search over the attached modules.      *)

UsedBy(n) == {e[1] : e \in objects[ObjectOf(n)].attached}
Visit(n) == [name |-> n, rest |-> UsedBy(n)]
Visited == {path[i].name : i \in DOMAIN path}

PickUnmarked ==
  /\ phase = "sort" /\ path = << >>
  /\ \E n \in unmarked : path' = <<Visit(n)>> /\ unmarked' = unmarked \ {n}
  /\ UNCHANGED <<cfg, starts, phase, todos, stack, running, shut, nodeVars, sorted, order>>

Descend ==
  /\ phase = "sort" /\ path # << >>
  /\ \E n \in Last(path).rest :
       LET rest == Append(Front(path), [Last(path) EXCEPT !.rest = @ \ {n}]) IN
       /\ n \in ToSet(sorted) \/ n \notin Visited
       /\ path' = IF n \in ToSet(sorted) THEN rest ELSE Append(rest, Visit(n))
       /\ unmarked' = unmarked \ {n}
  /\ UNCHANGED <<cfg, starts, phase, todos, stack, running, shut, nodeVars, sorted, order>>

Leave ==
  /\ phase = "sort" /\ path # << >> /\ Last(path).rest = {}
  /\ sorted' = Append(sorted, Last(path).name)
  /\ path' = Front(path)
  /\ UNCHANGED <<cfg, starts, phase, todos, stack, running, shut, nodeVars, unmarked, order>>

\* a slip: in the order in which the search leaves them
SortedUnturned ==
  /\ phase = "sort" /\ path = << >> /\ unmarked = {}
  /\ order' = sorted /\ phase' = "shutdown"
  /\ UNCHANGED <<cfg, starts, todos, stack, running, shut, nodeVars, unmarked, path, sorted>>

AllSorted ==
  /\ phase = "sort" /\ path = << >> /\ unmarked = {}
  /\ order' = Reverse(sorted) /\ phase' = "shutdown"
  /\ UNCHANGED <<cfg, starts, todos, stack, running, shut, nodeVars, unmarked, path, sorted>>

\* The search gives up when modules are attached to each other: the rest comes in any order.
Cycle ==
  /\ phase = "sort" /\ path # << >>
  /\ \E n \in Last(path).rest : n \notin ToSet(sorted) /\ n \in Visited
  /\ \E visited \in SetToSeqs(Visited), rest \in SetToSeqs(unmarked) :
       order' = Reverse(sorted) \o visited \o rest
  /\ phase' = "shutdown"
  /\ UNCHANGED <<cfg, starts, todos, stack, running, shut, nodeVars, unmarked, path, sorted>>

ShutdownModule ==
  /\ phase = "shutdown" /\ order # << >>
  /\ shut' = Append(shut, Head(order)) /\ order' = Tail(order)
  /\ UNCHANGED <<cfg, starts, phase, todos, stack, running, nodeVars, unmarked, path, sorted>>

ShutDown ==
  /\ phase = "shutdown" /\ order = << >>
  /\ phase' = "down"
  /\ UNCHANGED <<cfg, starts, todos, stack, running, shut, nodeVars, sortVars>>

\* A new SecNode in the same process; srv.module_cfg and HasIO.ioDict stay.
Restart ==
  /\ phase = "down" /\ starts < MaxStarts
  /\ starts' = starts + 1
  /\ phase' = "create" /\ todos' = InOrder(known)
  /\ objects' = << >> /\ modules' = << >> /\ errors' = FALSE /\ polled' = {} /\ shut' = << >>
  /\ unmarked' = {} /\ path' = << >> /\ sorted' = << >>
  /\ running' = {}
  /\ UNCHANGED <<cfg, stack, known, ioDict, order>>

CreateModules == AlreadyCreated \/ NotAClass \/ Create \/ ScanModules \/ AllCreated \/ Initialise
GetModules == AlreadyAttached \/ AttachReady \/ GetModule \/ NoSuchModule \/ RecursionError
              \/ Initialised \/ Checked
ShutdownModules == StopPollThreads \/ JoinPollThreads \/ PickUnmarked \/ Descend \/ Leave
                   \/ AllSorted \/ Cycle \/ ShutdownModule \/ ShutDown

Next == CreateModules \/ GetModules \/ StartModules \/ ShutdownModules \/ Restart

Spec == Init /\ [][Next]_vars

-----------------------------------------------------------------------------
Phases == {"create", "scan", "init", "failed", "run", "join", "sort", "shutdown", "down"}

TypeOK ==
  /\ cfg \in Configurations /\ known \subseteq Names /\ ioDict \in BOOLEAN
  /\ starts \in 1 .. MaxStarts /\ phase \in Phases
  /\ objects \in Seq([name : Names \cup {Auto}, inits : Nat, ready : BOOLEAN,
                      attached : SUBSET ((Names \cup {Auto}) \X Nat)])
  /\ modules \in Seq(1 .. Len(objects)) /\ errors \in BOOLEAN
  /\ Len(stack) <= MaxDepth /\ running \subseteq 1 .. Len(objects)
  /\ order \in Seq(Names \cup {Auto}) /\ shut \in Seq(Names \cup {Auto})

\* "already created via Attached" (secnode.py:147): there is one object for each module.
\* Violated by a pinata looking at a module which comes later in the configuration.
OnePerName == \A i, j \in DOMAIN objects : objects[i].name = objects[j].name => i = j

\* A node in operation has all modules of its configuration, each of them initialised once,
\* with its attached modules being modules of the node, and polled by one running thread -
\* unless there are two objects for a module.
Complete(o) ==
  /\ objects[o].ready /\ objects[o].inits = 1
  /\ \A e \in objects[o].attached : e[2] \in ToSet(modules)
  /\ {e[1] : e \in objects[o].attached} =
       Io(objects[o].name) \cup Attached(objects[o].name, "init")
         \cup Attached(objects[o].name, "check")
  /\ Cardinality({p \in polled : p[2] = o /\ p[1] \in running}) = 1

NodeComplete ==
  phase = "run" /\ OnePerName =>
    /\ Names \subseteq {objects[o].name : o \in ToSet(modules)}
    /\ \A o \in ToSet(modules) : Complete(o)

\* Every module is shut down once, and before the modules attached to it as long as modules
\* are not attached to each other.
Acyclic == \A s \in SUBSET Names : s # {} => \E n \in s : \A m \in s : m \notin UsedBy(n)
Position(n) == CHOOSE i \in DOMAIN shut : shut[i] = n

UsersFirst ==
  phase = "down" =>
    /\ IsInjective(shut) /\ ToSet(shut) = {objects[o].name : o \in ToSet(modules)}
    /\ Acyclic => \A m \in ToSet(shut) : \A n \in UsedBy(m) : Position(m) < Position(n)

\* A node which has started once starts again: "automatic creation of the attached
\* communication module" (io.py:47).
StartsAgain == phase = "failed" => starts = 1
=============================================================================
