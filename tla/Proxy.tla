------------------------------- MODULE Proxy --------------------------------
(***************************************************************************)
(* A proxy of a module on an other SEC node (frappy/proxy.py) and what it  *)
(* is told by its client: the cache and the states of the connection       *)
(* (frappy/client/__init__.py).                                            *)
(*                                                                         *)
(* The threads: the rx thread of the client, the threads running           *)
(* _reconnect, and the handler of the requests to the proxy, which read or *)
(* change a parameter and may connect the client too.  The accessLock and  *)
(* the lock of the dispatcher let one request at a time through.           *)
(*                                                                         *)
(* The remote node is external: it sends an update for each change, all    *)
(* values when asked to activate, and answers in order.  What happens      *)
(* inside of a connection to the tx thread and to requests left over is    *)
(* the matter of ClientConnection and ClientRequests: here a request sent  *)
(* is answered, or aborted when the connection is lost.                    *)
(*                                                                         *)
(* A definition marked as a slip is a wrong variant of the definition it   *)
(* precedes; Next does not use it.                                         *)
(***************************************************************************)
EXTENDS Naturals, Sequences, SequencesExt

CONSTANTS
  Params, Writable, Fallible,   \* parameters but status, those which may be changed, may fail
  Values,                       \* values of a parameter, and of the status
  Connectors, Handler, NoThread,  \* threads running _reconnect, the handler, no thread
  MaxChanges, MaxLosses, MaxFails, MaxAsked

VARIABLES
  remote,       \* what the remote module has: a value, or "failed"
  feed, wire,   \* messages on the way to the client; the state of the connection
  io, online, lock, cache,   \* of the client
  reader,       \* the rx thread: the message it is announcing, or what it does
  parameters,   \* of the proxy: value and readerror
  disconnected, \* _connection_status is set
  proc,         \* per thread: where it is, see Idle
  late,         \* history: parameters announced by a request with what was not true any more
  raced,        \* history: taken offline by one thread while an other one connected
  changes, losses, fails, asked

remoteVars == <<remote, feed, wire>>
clientVars == <<io, online, lock, cache, reader>>
proxyVars == <<parameters, disconnected, late>>
counts == <<changes, losses, fails, asked>>
proxyAll == <<remoteVars, clientVars, proxyVars, proc, raced, counts>>

Accessibles == Params \cup {"status"}
Threads == Connectors \cup {Handler}

\* failed: a readerror of the remote module; offline: from nodeStateChange; unreachable: the
\* connection is refused; internal: any exception which is not a SECoP error
Errors == {"failed", "offline", "unreachable", "internal"}

\* the statuses of a proxy itself: ERROR, disconnected, and IDLE, <state of the connection>
DISCONNECTED == "disconnected"
CONNECTION == "connection"

Idle == [at |-> "none", back |-> "none", left |-> {}, reply |-> "none",
         op |-> "none", param |-> "status", item |-> "none"]

\* After initModule, where register_callback has called nodeStateChange(False).
Init ==
  /\ remote \in [Accessibles -> {CHOOSE v \in Values : TRUE}]
  /\ feed = << >> /\ wire = "none"
  /\ io = FALSE /\ online = FALSE /\ lock = NoThread
  /\ cache = [p \in Accessibles |-> "undefined"]
  /\ reader = "off"
  /\ parameters = [p \in Accessibles |->
       IF p = "status" THEN [value |-> DISCONNECTED, readerror |-> "none"]
                       ELSE [value |-> "default", readerror |-> "offline"]]
  /\ disconnected = TRUE
  /\ LET first == CHOOSE c \in Connectors : TRUE      \* spawn_connect
     IN  proc = [t \in Threads |-> IF t = first THEN [Idle EXCEPT !.at = "enter"] ELSE Idle]
  /\ late = {} /\ raced = FALSE
  /\ changes = 0 /\ losses = 0 /\ fails = 0 /\ asked = 0

-----------------------------------------------------------------------------
(* announceUpdate: an error leaves the value as it was.                    *)

Announced(p, item) ==
  [parameters EXCEPT ![p] = IF item \in Errors THEN [@ EXCEPT !.readerror = item]
                            ELSE [value |-> item, readerror |-> "none"]]

Shown(p) == IF parameters[p].readerror # "none" THEN parameters[p].readerror ELSE parameters[p].value

Goto(t, place) == proc' = [proc EXCEPT ![t].at = place]

\* A request is sent, and its reply waited for.
Send(t, place) == proc' = [proc EXCEPT ![t].at = place, ![t].reply = "none"]

-----------------------------------------------------------------------------
(* _set_state, which calls nodeStateChange of the proxy.                   *)

\* Where a thread calling _set_state goes on, and where it returns to.
SetState(t, isOnline, back) ==
  /\ online' = isOnline
  /\ proc' = [proc EXCEPT ![t].at = IF isOnline THEN "online" ELSE "offline", ![t].back = back]

\* Taken offline by _reconnect, which does not hold the lock, while there is a connection.
Races(t) ==
  raced' = (raced \/ (proc[t].back = "enter" /\ (io \/ lock # NoThread)))

\* _reconnect is still telling the proxy that the client is offline.
TakesOffline(c) == proc[c].back = "enter" /\ proc[c].at \in {"offline", "errors"}

Online(t) ==
  /\ proc[t].at = "online"
  /\ Goto(t, IF disconnected THEN "show" ELSE proc[t].back)
  /\ UNCHANGED <<remoteVars, clientVars, proxyVars, raced, counts>>

ShowConnection(t) ==
  /\ proc[t].at = "show"
  /\ parameters' = Announced("status", CONNECTION) /\ late' = late \ {"status"}
  /\ Goto(t, proc[t].back)
  /\ UNCHANGED <<remoteVars, clientVars, disconnected, raced, counts>>

Offline(t) ==
  /\ proc[t].at = "offline"
  /\ IF parameters["status"].value = DISCONNECTED
       THEN Goto(t, proc[t].back)
       ELSE proc' = [proc EXCEPT ![t].at = "errors", ![t].left = Params]
  /\ Races(t)
  /\ UNCHANGED <<remoteVars, clientVars, proxyVars, counts>>

ShowError(t) ==
  /\ proc[t].at = "errors"
  /\ \E p \in proc[t].left :
       /\ parameters' = Announced(p, "offline") /\ late' = late \ {p}
       /\ proc' = [proc EXCEPT ![t].left = @ \ {p}]
  /\ Races(t)
  /\ UNCHANGED <<remoteVars, clientVars, disconnected, counts>>

ShowDisconnected(t) ==
  /\ proc[t].at = "errors" /\ proc[t].left = {}
  /\ parameters' = Announced("status", DISCONNECTED) /\ late' = late \ {"status"}
  /\ disconnected' = TRUE
  /\ Goto(t, proc[t].back)
  /\ Races(t)
  /\ UNCHANGED <<remoteVars, clientVars, counts>>

-----------------------------------------------------------------------------
(* connect, called by the threads of _reconnect and by requests.  Its      *)
(* try_period is 0: the first failure is raised.                           *)

\* What a thread does when connect has returned.
Connected(t) == IF t = Handler THEN "send" ELSE "none"

EnterConnect(t) ==
  /\ proc[t].at = "enter" /\ lock = NoThread
  /\ IF io THEN Goto(t, Connected(t)) /\ UNCHANGED <<online, lock>>
           ELSE lock' = t /\ SetState(t, online, "open")
  /\ UNCHANGED <<remoteVars, io, cache, reader, proxyVars, raced, counts>>

Open(t) ==
  /\ proc[t].at = "open"
  /\ io' = TRUE /\ wire' = "open" /\ feed' = << >> /\ reader' = "read"
  /\ SetState(t, TRUE, "activate")
  /\ raced' = (raced \/ \E c \in Threads : TakesOffline(c))
  /\ UNCHANGED <<remote, lock, cache, proxyVars, counts>>

\* A failure leaves the client online, if it was.
OpenFails(t) ==
  /\ proc[t].at = "open" /\ fails < MaxFails
  /\ fails' = fails + 1
  /\ SetState(t, online, "raise")
  /\ UNCHANGED <<remoteVars, io, lock, cache, reader, proxyVars, raced, changes, losses, asked>>

Message(to, p, item) == [to |-> to, param |-> p, item |-> item]

\* What the remote node sends for a request to activate: all it has, and the answer.
Activated(t) ==
  LET all == SetToSeq(Accessibles)
  IN  [i \in 1 .. Len(all) |-> Message(NoThread, all[i], remote[all[i]])] \o <<Message(t, "none", "active")>>

\* The request to activate.  queue_request calls connect, which has to open the connection
\* again when it is lost already (and then activates once more, which is left out).
Activate(t) ==
  /\ proc[t].at = "activate"
  /\ IF io THEN Send(t, "starting") /\ UNCHANGED online ELSE SetState(t, online, "open")
  /\ IF io /\ wire = "open" THEN wire' = "active" /\ feed' = feed \o Activated(t)
                            ELSE UNCHANGED <<feed, wire>>
  /\ UNCHANGED <<remote, io, lock, cache, reader, proxyVars, raced, counts>>

Started(t) ==
  /\ proc[t].at = "starting"
  /\ \/ proc[t].reply = "active" /\ SetState(t, TRUE, "release")
     \/ proc[t].reply = "aborted" /\ SetState(t, online, "raise")
  /\ UNCHANGED <<remoteVars, io, lock, cache, reader, proxyVars, raced, counts>>

ReleaseLock(t) ==
  /\ proc[t].at \in {"release", "raise"}
  /\ lock' = NoThread
  /\ Goto(t, IF proc[t].at = "release" THEN Connected(t) ELSE "failed")
  /\ UNCHANGED <<remoteVars, io, online, cache, reader, proxyVars, raced, counts>>

-----------------------------------------------------------------------------
(* _reconnect after a failure: it tries again, first for some time staying *)
(* online, and then going offline, which is decided and done without lock. *)

Retry(c) ==
  /\ c # Handler /\ proc[c].at = "failed"
  /\ Goto(c, "enter")
  /\ UNCHANGED <<remoteVars, clientVars, proxyVars, raced, counts>>

DecideOffline(c) ==
  /\ c # Handler /\ proc[c].at = "failed" /\ online
  /\ Goto(c, "give up")
  /\ UNCHANGED <<remoteVars, clientVars, proxyVars, raced, counts>>

GiveUp(c) ==
  /\ proc[c].at = "give up"
  /\ SetState(c, FALSE, "enter")
  /\ raced' = (raced \/ io \/ lock # NoThread)
  /\ UNCHANGED <<remoteVars, io, lock, cache, reader, proxyVars, counts>>

-----------------------------------------------------------------------------
(* The rx thread.  Replies to read and change are updates too.             *)

\* Slip: a status arriving does not end the status of the connection.
StatusKeeps(p, item) == FALSE

\* updateEvent: the status of the remote module replaces the one of the connection.
StatusReplaces(p, item) == p = "status" /\ item \notin Errors

\* updateValue fills the cache and calls updateEvent.
Receive ==
  /\ reader = "read" /\ feed # << >>
  /\ LET message == Head(feed) IN
       /\ cache' = IF message.param = "none" THEN cache
                   ELSE [cache EXCEPT ![message.param] = message.item]
       /\ disconnected' = (disconnected /\ ~StatusReplaces(message.param, message.item))
  /\ reader' = "announce"
  /\ UNCHANGED <<remoteVars, io, online, lock, parameters, late, proc, raced, counts>>

\* The value is announced, and the thread waiting for the message is woken.
UpdateEvent ==
  /\ reader = "announce"
  /\ LET message == Head(feed) IN
       /\ IF message.param = "none" THEN UNCHANGED <<parameters, late>>
          ELSE /\ parameters' = Announced(message.param, message.item)
               /\ late' = late \ {message.param}
       /\ proc' = IF message.to = NoThread THEN proc
                  ELSE [proc EXCEPT ![message.to].reply =
                          IF message.param = "none" THEN message.item ELSE "done"]
  /\ feed' = Tail(feed) /\ reader' = "read"
  /\ UNCHANGED <<remote, wire, io, online, lock, cache, disconnected, raced, counts>>

\* ConnectionClosed: what was sent is aborted, and an other thread connects again.
ConnectionClosed ==
  /\ reader = "read" /\ wire = "lost" /\ feed = << >>
  /\ wire' = "none" /\ io' = FALSE /\ reader' = "off"
  /\ \E c \in Connectors :
       /\ proc[c].at = "none"
       /\ proc' = [t \in Threads |->
            CASE t = c -> [Idle EXCEPT !.at = "enter"]
              [] proc[t].at \in {"starting", "reply"} /\ proc[t].reply = "none" ->
                   [proc[t] EXCEPT !.reply = "aborted"]
              [] OTHER -> proc[t]]
  /\ UNCHANGED <<remote, feed, online, lock, cache, proxyVars, raced, counts>>

-----------------------------------------------------------------------------
(* Requests to the proxy: rfunc takes what is in the cache when there is   *)
(* something, wfunc asks the remote node.  Both announce the result.       *)

ReadFromCache(p) ==
  /\ proc[Handler].at = "none" /\ asked < MaxAsked
  /\ cache[p] # "undefined" \/ ~online
  /\ proc' = [proc EXCEPT ![Handler] =
       [Idle EXCEPT !.at = "announce", !.op = "read", !.param = p,
                    !.item = IF cache[p] = "undefined" THEN "internal" ELSE cache[p]]]
  /\ asked' = asked + 1
  /\ UNCHANGED <<remoteVars, clientVars, proxyVars, raced, changes, losses, fails>>

Ask(op, p, item) ==
  /\ proc[Handler].at = "none" /\ asked < MaxAsked
  /\ proc' = [proc EXCEPT ![Handler] = [Idle EXCEPT !.at = "enter", !.op = op, !.param = p, !.item = item]]
  /\ asked' = asked + 1
  /\ UNCHANGED <<remoteVars, clientVars, proxyVars, raced, changes, losses, fails>>

ReadParameter(p) == cache[p] = "undefined" /\ online /\ Ask("read", p, "none")
SetParameter(p, v) == Ask("change", p, v)

\* request: a change may be refused.  A connection which is gone is opened again.
Request ==
  /\ proc[Handler].at = "send"
  /\ Send(Handler, IF io THEN "reply" ELSE "enter")
  /\ LET frame == proc[Handler]
         p == frame.param
         update == IF wire = "active" THEN <<Message(NoThread, p, frame.item)>> ELSE << >>
     IN
     \/ /\ io /\ wire \in {"open", "active"} /\ frame.op = "read"
        /\ feed' = Append(feed, Message(Handler, p, remote[p])) /\ UNCHANGED remote
     \/ /\ io /\ wire \in {"open", "active"} /\ frame.op = "change"
        /\ \/ /\ remote' = [remote EXCEPT ![p] = frame.item]
              /\ feed' = feed \o update \o <<Message(Handler, p, frame.item)>>
           \/ feed' = Append(feed, Message(Handler, "none", "refused")) /\ UNCHANGED remote
     \/ ~(io /\ wire \in {"open", "active"}) /\ UNCHANGED <<remote, feed>>
  /\ UNCHANGED <<wire, clientVars, proxyVars, raced, counts>>

\* What is announced at the end of a request: nothing when a change has failed.
Result(item) ==
  proc' = [proc EXCEPT ![Handler] =
    IF @.op = "change" /\ item \in Errors THEN Idle ELSE [@ EXCEPT !.at = "announce", !.item = item]]

\* The reply has come: what is announced is in the cache now.
Replied ==
  LET frame == proc[Handler] IN
  /\ frame.at = "reply" /\ frame.reply # "none"
  /\ Result(IF frame.reply = "done" THEN cache[frame.param] ELSE "internal")
  /\ UNCHANGED <<remoteVars, clientVars, proxyVars, raced, counts>>

\* connect has failed.  readParameter puts the error into the cache, when it is a SECoP error.
NotConnected ==
  LET frame == proc[Handler]
      error == IF frame.reply = "aborted" THEN "internal" ELSE "unreachable"
  IN
  /\ frame.at = "failed"
  /\ Result(error)
  /\ cache' = IF frame.op = "read" /\ error = "unreachable"
                THEN [cache EXCEPT ![frame.param] = error] ELSE cache
  /\ UNCHANGED <<remoteVars, io, online, lock, reader, proxyVars, raced, counts>>

\* A result which is not, or no longer, what the client knows of the remote module is noted.
AnnounceResult ==
  LET frame == proc[Handler] IN
  /\ frame.at = "announce"
  /\ parameters' = Announced(frame.param, frame.item)
  /\ late' = IF online /\ frame.item = cache[frame.param] /\ frame.item \in Values \cup {"failed"}
                THEN late \ {frame.param} ELSE late \cup {frame.param}
  /\ proc' = [proc EXCEPT ![Handler] = Idle]
  /\ UNCHANGED <<remoteVars, clientVars, disconnected, raced, counts>>

-----------------------------------------------------------------------------
(* The remote module, and the connection to it.                            *)

RemoteChanges(p, item) ==
  /\ changes < MaxChanges /\ item # remote[p]
  /\ item = "failed" => p \in Fallible
  /\ changes' = changes + 1
  /\ remote' = [remote EXCEPT ![p] = item]
  /\ feed' = IF wire = "active" THEN Append(feed, Message(NoThread, p, item)) ELSE feed
  /\ UNCHANGED <<wire, clientVars, proxyVars, proc, raced, losses, fails, asked>>

\* Only a part of what was sent arrives.
Lose ==
  /\ wire \in {"open", "active"} /\ losses < MaxLosses
  /\ losses' = losses + 1
  /\ wire' = "lost"
  /\ \E n \in 0 .. Len(feed) :
       /\ reader = "announce" => n > 0
       /\ feed' = SubSeq(feed, 1, n)
  /\ UNCHANGED <<remote, clientVars, proxyVars, proc, raced, changes, fails, asked>>

-----------------------------------------------------------------------------

StateStep(t) ==
  \/ Online(t) \/ ShowConnection(t) \/ Offline(t) \/ ShowError(t) \/ ShowDisconnected(t)
ConnectStep(t) ==
  \/ EnterConnect(t) \/ Open(t) \/ OpenFails(t) \/ Activate(t) \/ Started(t)
  \/ ReleaseLock(t) \/ Retry(t) \/ DecideOffline(t) \/ GiveUp(t)
ReaderStep == Receive \/ UpdateEvent \/ ConnectionClosed
HandlerStep ==
  \/ \E p \in Accessibles : ReadFromCache(p) \/ ReadParameter(p)
  \/ \E p \in Writable, v \in Values : SetParameter(p, v)
  \/ Request \/ Replied \/ NotConnected \/ AnnounceResult
RemoteStep ==
  \/ \E p \in Accessibles, item \in Values \cup {"failed"} : RemoteChanges(p, item)
  \/ Lose

Next ==
  \/ \E t \in Threads : StateStep(t) \/ ConnectStep(t)
  \/ ReaderStep \/ HandlerStep \/ RemoteStep

Spec == Init /\ [][Next]_proxyAll

-----------------------------------------------------------------------------

\* No thread is busy, but for threads waiting to try again.
Calm ==
  /\ \A t \in Threads : proc[t].at \in {"none"} \cup (IF t = Handler THEN {} ELSE {"enter", "failed"})
  /\ lock = NoThread /\ reader # "announce" /\ feed = << >>

\* The proxy shows what the remote module has as long as the client is connected, and that
\* it is disconnected once the client is offline, whatever parts of the connection were
\* lost in between.  Exceptions: a parameter announced last by a request with an answer
\* which was not true any more, and a client taken offline by one thread while an other
\* one connects.
ProxyTrue ==
  Calm /\ ~raced =>
    \A p \in Accessibles \ late :
      /\ wire = "active" => online /\ Shown(p) = remote[p]
      /\ ~online => Shown(p) = IF p = "status" THEN DISCONNECTED ELSE "offline"

\* Not a property of the code: a client which is connected is online.  It is violated when a
\* thread takes the client offline after an other one has connected; the proxy then shows
\* errors until updates arrive, and an unpolled parameter for ever.
StaysOnline == Calm /\ wire = "active" => online
=============================================================================
