------------------------------ MODULE Updates -------------------------------
(***************************************************************************)
(* How the value of a parameter reaches the clients of a SEC node:         *)
(* Module.announceUpdate and the read_/write_ wrappers of                  *)
(* frappy/modulebase.py, the Dispatcher of frappy/protocol/dispatcher.py,  *)
(* and the request loop of frappy/protocol/interface/handler.py.           *)
(*                                                                         *)
(* One exported parameter of one module.  Each connection has a handler    *)
(* thread; other threads (poll threads, state functions, other modules)    *)
(* read, write or assign the parameter.  Three kinds of locks are          *)
(* modelled: the dispatcher lock (one request at a time), the accessLock   *)
(* (one read_/write_ at a time) and the updateLock (one announceUpdate at  *)
(* a time).  What is read of the parameter without a lock is read in as    *)
(* many steps as the code has: readerror, value and timestamp.             *)
(*                                                                         *)
(* Sending to a connection keeps the order (send_lock, TCP), so a client   *)
(* is modelled by what has been sent to it.  The timestamp of a parameter  *)
(* is the number of the update it was set by.                              *)
(*                                                                         *)
(* A definition marked as a slip is a wrong variant of the definition it   *)
(* precedes; Next does not use it.                                         *)
(***************************************************************************)
EXTENDS Integers, FiniteSets

CONSTANTS
  Values,      \* values of the parameter
  Errors,      \* read errors
  None,        \* no error, no thread
  Conns,       \* connections, and their handler threads
  Updaters,    \* the other threads
  MaxUpdates   \* bound on the number of announced updates

ASSUME ValuesAssumption ==
  Values # {} /\ None \notin Values \cup Errors /\ Values \cap Errors = {}
ASSUME ThreadsAssumption == None \notin Conns \cup Updaters /\ Conns \cap Updaters = {}
ASSUME MaxUpdatesAssumption == MaxUpdates \in Nat

Threads == Conns \cup Updaters
Items == Values \cup Errors

VARIABLES
  value, readerror, timestamp,  \* the parameter
  updateLock, accessLock, dispatcherLock,   \* the owner, or None
  open,        \* the connections not yet closed
  active,      \* per connection: the scopes it has activated
  thread,      \* per thread: where it is, see NoFrame
  last,        \* history: the last message for this parameter sent to a client
  covered,     \* history: the newest update a client has got since activating
  ordered      \* history: number of the last update event sent to a client

vars == <<value, readerror, timestamp, updateLock, accessLock, dispatcherLock,
          open, active, thread, last, covered, ordered>>
param == <<value, readerror, timestamp>>
locks == <<updateLock, accessLock, dispatcherLock>>
clients == <<last, covered, ordered>>

-----------------------------------------------------------------------------
(* A thread is in a request or operation (op, at), and possibly in a call  *)
(* of announceUpdate (call), which returns to it.                          *)

NoFrame == [op |-> "none", at |-> "none", call |-> "none", err |-> None,
            item |-> None, stamp |-> 0, todo |-> {}, failed |-> FALSE]

NoMessage == [kind |-> "none", item |-> None, stamp |-> 0]

Init ==
  /\ value \in Values /\ readerror = None /\ timestamp = 0
  /\ updateLock = None /\ accessLock = None /\ dispatcherLock = None
  /\ open = Conns
  /\ active = [c \in Conns |-> {}]
  /\ thread = [t \in Threads |-> NoFrame]
  /\ last = [c \in Conns |-> NoMessage]
  /\ covered = [c \in Conns |-> 0]
  /\ ordered = [c \in Conns |-> 0]

Current == IF readerror = None THEN value ELSE readerror

\* Slip: the subscribers of single modules and parameters are forgotten.
ListenersToAll == {c \in open : "all" \in active[c]}

\* broadcast_event: who listens to the parameter now.
Listeners == {c \in open : active[c] # {}}

\* What is kept in the history when an update came after a newer one, or twice.
Overtaken == -1

\* send_reply of a message for the parameter.
Send(c, message) ==
  /\ last' = [last EXCEPT ![c] = message]
  /\ covered' = [covered EXCEPT ![c] =
       IF message.stamp = timestamp /\ message.item = Current THEN timestamp ELSE @]
  /\ ordered' = IF message.kind # "update" THEN ordered
                ELSE [ordered EXCEPT ![c] = IF message.stamp > @ THEN message.stamp ELSE Overtaken]

-----------------------------------------------------------------------------
(* announceUpdate.                                                         *)

\* The frame of a thread that calls announceUpdate with a value or an error:
\* it waits for the updateLock.
Calling(frame, item) ==
  [frame EXCEPT !.call = "enter", !.item = IF item \in Errors THEN None ELSE item,
                !.err = IF item \in Errors THEN item ELSE None,
                !.failed = item \in Errors]

Returned(frame) == [frame EXCEPT !.call = "none"]

\* A value is stored at once.  A repeated error is not announced, and neither
\* (recent) is an unchanged value within a short time.
Enter(t, recent) ==
  LET frame == thread[t]
      changed == value # frame.item \/ readerror # None
      omit == IF frame.err = None THEN ~changed /\ recent ELSE frame.err = readerror
  IN
  /\ frame.call = "enter"
  /\ updateLock = None
  /\ value' = IF frame.err = None THEN frame.item ELSE value
  /\ IF omit
       THEN thread' = [thread EXCEPT ![t] = Returned(frame)] /\ UNCHANGED updateLock
       ELSE thread' = [thread EXCEPT ![t].call = "stamp"] /\ updateLock' = t
  /\ UNCHANGED <<readerror, timestamp, accessLock, dispatcherLock, open, active,
                 clients>>

SetTimestamp(t) ==
  /\ thread[t].call = "stamp"
  /\ timestamp' = timestamp + 1
  /\ thread' = [thread EXCEPT ![t].call = "error"]
  /\ UNCHANGED <<value, readerror, locks, open, active, clients>>

\* Slip: the value is taken for the error.
SetReadErrorSwapped(t) ==
  /\ thread[t].call = "error"
  /\ readerror' = thread[t].item
  /\ thread' = [thread EXCEPT ![t].call = "broadcast"]
  /\ UNCHANGED <<value, timestamp, locks, open, active, clients>>

SetReadError(t) ==
  /\ thread[t].call = "error"
  /\ readerror' = thread[t].err
  /\ thread' = [thread EXCEPT ![t].call = "broadcast"]
  /\ UNCHANGED <<value, timestamp, locks, open, active, clients>>

\* Slip: the updateLock is released before the update is sent.
BroadcastUnlocked(t) ==
  /\ thread[t].call = "broadcast"
  /\ thread' = [thread EXCEPT ![t].call = "send", ![t].todo = Listeners,
                              ![t].item = Current, ![t].stamp = timestamp]
  /\ updateLock' = None
  /\ UNCHANGED <<param, accessLock, dispatcherLock, open, active, clients>>

\* make_update and the collection of listeners, still under the updateLock.
Broadcast(t) ==
  /\ thread[t].call = "broadcast"
  /\ thread' = [thread EXCEPT ![t].call = "send", ![t].todo = Listeners,
                              ![t].item = Current, ![t].stamp = timestamp]
  /\ UNCHANGED <<param, locks, open, active, clients>>

\* A connection closed meanwhile is skipped (its running flag is cleared).
SendUpdate(t, c) ==
  /\ thread[t].call = "send" /\ c \in thread[t].todo
  /\ thread' = [thread EXCEPT ![t].todo = @ \ {c}]
  /\ IF c \in open
       THEN Send(c, [kind |-> "update", item |-> thread[t].item,
                     stamp |-> thread[t].stamp])
       ELSE UNCHANGED clients
  /\ UNCHANGED <<param, locks, open, active>>

Leave(t) ==
  /\ thread[t].call = "send" /\ thread[t].todo = {}
  /\ updateLock' = None
  /\ thread' = [thread EXCEPT ![t] = Returned(@)]
  /\ UNCHANGED <<param, accessLock, dispatcherLock, open, active, clients>>

AnnounceUpdate(t) ==
  \/ \E recent \in BOOLEAN : Enter(t, recent)
  \/ SetTimestamp(t) \/ SetReadError(t) \/ Broadcast(t)
  \/ \E c \in Conns : SendUpdate(t, c)
  \/ Leave(t)

-----------------------------------------------------------------------------
(* Reading, writing and assigning the parameter.                           *)

At(t, label) == thread[t].call = "none" /\ thread[t].at = label

Begin(t, op, label) ==
  thread' = [thread EXCEPT ![t] = [NoFrame EXCEPT !.op = op, !.at = label]]

\* The bound on announced updates, counting those which may still come.
MayUpdate ==
  timestamp + Cardinality({t \in Threads : thread[t].at = "access" \/
                             thread[t].call \in {"enter", "stamp"}}) < MaxUpdates

\* module.<param> = value, from any thread, without the accessLock.
Assign(t, v) ==
  /\ t \in Updaters /\ thread[t].op = "none"
  /\ MayUpdate
  /\ thread' = [thread EXCEPT ![t] = Calling([NoFrame EXCEPT !.op = "set",
                                                           !.at = "done"], v)]
  /\ UNCHANGED <<param, locks, open, active, clients>>

\* read_<param>(), from a poll thread for example.
Read(t) ==
  /\ t \in Updaters /\ thread[t].op = "none"
  /\ MayUpdate
  /\ Begin(t, "read", "access")
  /\ UNCHANGED <<param, locks, open, active, clients>>

\* Under the accessLock the hardware is read: a value or an error is
\* announced.
ReadHardware(t, result) ==
  /\ At(t, "access") /\ thread[t].op = "read"
  /\ accessLock = None
  /\ accessLock' = t
  /\ thread' = [thread EXCEPT ![t] = Calling([@ EXCEPT !.at = "unlock"], result)]
  /\ UNCHANGED <<param, updateLock, dispatcherLock, open, active, clients>>

\* The value accepted by the hardware is announced, an error is not.
WriteHardware(t, result) ==
  /\ At(t, "access") /\ thread[t].op = "change"
  /\ accessLock = None
  /\ accessLock' = t
  /\ thread' = [thread EXCEPT ![t] =
       IF result \in Errors THEN [@ EXCEPT !.at = "unlock", !.failed = TRUE]
       ELSE Calling([@ EXCEPT !.at = "unlock"], result)]
  /\ UNCHANGED <<param, updateLock, dispatcherLock, open, active, clients>>

\* Slip: an error of the hardware leaves the accessLock taken.
ReleaseAccessNotOnError(t) ==
  /\ At(t, "unlock")
  /\ accessLock' = IF thread[t].failed THEN accessLock ELSE None
  /\ thread' = [thread EXCEPT ![t].at =
       IF t \in Updaters THEN "done"
       ELSE IF thread[t].failed THEN "release" ELSE "value"]
  /\ UNCHANGED <<param, updateLock, dispatcherLock, open, active, clients>>

\* A poll thread is done then, a handler goes on to build the reply.
ReleaseAccess(t) ==
  /\ At(t, "unlock")
  /\ accessLock' = None
  /\ thread' = [thread EXCEPT ![t].at =
       IF t \in Updaters THEN "done"
       ELSE IF thread[t].failed THEN "release" ELSE "value"]
  /\ UNCHANGED <<param, updateLock, dispatcherLock, open, active, clients>>

Done(t) ==
  /\ At(t, "done")
  /\ thread' = [thread EXCEPT ![t] = NoFrame]
  /\ UNCHANGED <<param, locks, open, active, clients>>

-----------------------------------------------------------------------------
(* Requests, each handled under the dispatcher lock.                       *)

Request(c) ==
  /\ c \in open /\ thread[c].op = "none"
  /\ dispatcherLock = None
  /\ dispatcherLock' = c

ReadRequest(c) ==
  /\ Request(c)
  /\ MayUpdate
  /\ Begin(c, "read", "access")
  /\ UNCHANGED <<param, updateLock, accessLock, open, active, clients>>

ChangeRequest(c) ==
  /\ Request(c)
  /\ MayUpdate
  /\ Begin(c, "change", "access")
  /\ UNCHANGED <<param, updateLock, accessLock, open, active, clients>>

\* handle_activate: first subscribe, then send what is subscribed.
Scopes == {"all", "module", "parameter"}

Activate(c, scope) ==
  /\ Request(c)
  /\ active' = [active EXCEPT ![c] = @ \cup {scope}]
  /\ covered' = [covered EXCEPT ![c] = IF active[c] = {} THEN -1 ELSE @]
  /\ Begin(c, "activate", "error")
  /\ UNCHANGED <<param, updateLock, accessLock, open, last, ordered>>

\* A module subscription includes its parameters; deactivating all modules
\* leaves the subscriptions of single modules and parameters.
Deactivate(c, scope) ==
  /\ Request(c)
  /\ active' = [active EXCEPT ![c] =
       @ \ IF scope = "module" THEN {"module", "parameter"} ELSE {scope}]
  /\ Begin(c, "deactivate", "release")
  /\ UNCHANGED <<param, updateLock, accessLock, open, clients>>

\* *IDN? resets the connection.
Ident(c) ==
  /\ Request(c)
  /\ active' = [active EXCEPT ![c] = {}]
  /\ Begin(c, "ident", "release")
  /\ UNCHANGED <<param, updateLock, accessLock, open, clients>>

\* make_update, called by handle_activate without the updateLock, looks at
\* readerror first ...
CheckReadError(c) ==
  /\ At(c, "error")
  /\ thread' = [thread EXCEPT ![c].at =
                  IF readerror = None THEN "value" ELSE "errorname"]
  /\ UNCHANGED <<param, locks, open, active, clients>>

\* ... and then again: when the error has gone, None has no name, and the
\* request fails.
GetReadError(c) ==
  /\ At(c, "errorname")
  /\ thread' = [thread EXCEPT ![c].at = IF readerror = None THEN "release" ELSE "stamp",
                              ![c].item = readerror]
  /\ UNCHANGED <<param, locks, open, active, clients>>

\* The value and the timestamp of an update or of a reply.
GetValue(c) ==
  /\ At(c, "value")
  /\ thread' = [thread EXCEPT ![c].at = "stamp", ![c].item = value]
  /\ UNCHANGED <<param, locks, open, active, clients>>

GetTimestamp(c) ==
  /\ At(c, "stamp")
  /\ thread' = [thread EXCEPT ![c].stamp = timestamp,
                ![c].at = IF thread[c].op = "activate" THEN "snapshot" ELSE "release"]
  /\ UNCHANGED <<param, locks, open, active, clients>>

SendSnapshot(c) ==
  /\ At(c, "snapshot")
  /\ Send(c, [kind |-> "snapshot", item |-> thread[c].item, stamp |-> thread[c].stamp])
  /\ thread' = [thread EXCEPT ![c].at = "release"]
  /\ UNCHANGED <<param, locks, open, active>>

\* The dispatcher lock is released before the reply is sent.
ReleaseDispatcher(c) ==
  /\ At(c, "release")
  /\ dispatcherLock' = None
  /\ thread' = [thread EXCEPT ![c].at = "reply"]
  /\ UNCHANGED <<param, updateLock, accessLock, open, active, clients>>

\* Of the replies, a reply to read (also with an error) or a successful one to
\* change is taken by the client as news about the parameter.  An error reply
\* has no timestamp.
Reply(c) ==
  LET frame == thread[c]
      reply == CASE frame.op = "read" /\ frame.failed ->
                      [kind |-> "reply", item |-> frame.err, stamp |-> 0]
                 [] frame.op \in {"read", "change"} /\ ~frame.failed ->
                      [kind |-> "reply", item |-> frame.item, stamp |-> frame.stamp]
                 [] OTHER -> NoMessage
  IN
  /\ At(c, "reply")
  /\ IF reply.kind = "reply" THEN Send(c, reply) ELSE UNCHANGED clients
  /\ thread' = [thread EXCEPT ![c] = NoFrame]
  /\ UNCHANGED <<param, locks, open, active>>

\* The end of the handler thread: the connection is removed, not under the
\* dispatcher lock.
Close(c) ==
  /\ c \in open /\ thread[c].op = "none"
  /\ open' = open \ {c}
  /\ active' = [active EXCEPT ![c] = {}]
  /\ UNCHANGED <<param, locks, thread, clients>>

-----------------------------------------------------------------------------

\* What a thread does to finish what it has begun.
Proceed(t) ==
  \/ AnnounceUpdate(t)
  \/ \E result \in Items : ReadHardware(t, result) \/ WriteHardware(t, result)
  \/ ReleaseAccess(t) \/ Done(t)
  \/ CheckReadError(t) \/ GetReadError(t) \/ GetValue(t) \/ GetTimestamp(t)
  \/ SendSnapshot(t) \/ ReleaseDispatcher(t) \/ Reply(t)

Next ==
  \/ \E t \in Threads : Proceed(t)
  \/ \E t \in Updaters : Read(t) \/ \E v \in Values : Assign(t, v)
  \/ \E c \in Conns :
       \/ ReadRequest(c) \/ ChangeRequest(c) \/ Ident(c) \/ Close(c)
       \/ \E scope \in Scopes : Activate(c, scope) \/ Deactivate(c, scope)

\* Hardware access and sending return (there are timeouts), and no thread waits
\* forever for a lock which is released again and again.
Fairness == \A t \in Threads : SF_vars(Proceed(t))

SafetySpec == Init /\ [][Next]_vars
Spec == SafetySpec /\ Fairness

-----------------------------------------------------------------------------
(* Properties.                                                             *)

Operations == {"none", "set", "read", "change", "activate", "deactivate", "ident"}
Labels == {"none", "access", "unlock", "done", "error", "errorname", "value", "stamp",
           "snapshot", "release", "reply"}
Frames ==
  [op : Operations, at : Labels,
   call : {"none", "enter", "stamp", "error", "broadcast", "send"},
   err : Errors \cup {None}, item : Items \cup {None}, stamp : Nat,
   todo : SUBSET Conns, failed : BOOLEAN]
Messages == [kind : {"none", "update", "snapshot", "reply"}, item : Items \cup {None}, stamp : Nat]

\* Every variable stays within its range; an updater never handles requests,
\* and a value is ready for who calls announceUpdate without an error.
TypeOK ==
  /\ value \in Values
  /\ readerror \in Errors \cup {None}
  /\ timestamp \in Nat
  /\ updateLock \in Threads \cup {None} /\ accessLock \in Threads \cup {None}
  /\ dispatcherLock \in Conns \cup {None}
  /\ open \subseteq Conns
  /\ active \in [Conns -> SUBSET Scopes]
  /\ thread \in [Threads -> Frames]
  /\ \A t \in Updaters :
       /\ thread[t].op \in {"none", "set", "read"}
       /\ thread[t].at \in {"none", "access", "unlock", "done"}
  /\ \A t \in Threads :
       thread[t].call = "enter" /\ thread[t].err = None => thread[t].item \in Values
  /\ last \in [Conns -> Messages]
  /\ covered \in [Conns -> Int]
  /\ ordered \in [Conns -> Nat \cup {Overtaken}]

\* Nobody is updating the parameter, and connection c does not wait for the
\* reply to its activation.
Settled(c) ==
  /\ updateLock = None
  /\ thread[c].op # "activate"

\* "Whenever a parameter is changed ..., an update message is sent to all
\* activated clients": a client which has activated the parameter and got the
\* reply has been sent the newest update, in an update event or in the
\* initial updates of the activation, however these two race.
NothingMissed ==
  \A c \in open : active[c] # {} /\ Settled(c) => covered[c] = timestamp

UpdatesInOrder == \A c \in Conns : ordered[c] # Overtaken

StaleOnlyByAnswer ==
  \A c \in open :
    active[c] # {} /\ Settled(c) /\ last[c].kind = "update" =>
      last[c].item = Current

\* The updates of several threads reach each client in the order in which they were made,
\* none twice; and the cache of a client, which keeps the last message whatever its
\* timestamp, is behind only when that message was an answer to this client (an initial
\* update, a reply to read or change) overtaken by an update.
ClientsFollow == UpdatesInOrder /\ StaleOnlyByAnswer

\* No thread is stuck: every request is answered, every read and every
\* assignment is completed.
Completed == \A t \in Threads : thread[t].op # "none" ~> thread[t].op = "none"
=============================================================================
