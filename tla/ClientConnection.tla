-------------------------- MODULE ClientConnection --------------------------
(***************************************************************************)
(* How a SecopClient (frappy/client/__init__.py) gets, loses and closes    *)
(* its connection: connect() and disconnect(), called by users, by the rx  *)
(* and the tx thread of each connection and by the thread reconnecting.    *)
(* Only connect() takes _lock; nothing else is protected, and each access  *)
(* to an attribute other threads assign is a step.                         *)
(*                                                                         *)
(* Connections are numbered; connection n has the threads Tx(n) and Rx(n), *)
(* and Rx(n) may start Rc(n) to connect again.  The requests on a          *)
(* connection are those of ClientRequests; here a thread has one at most,  *)
(* and only what becomes of it matters: it is put into a queue, sent,      *)
(* answered, aborted (its event is set without a reply) or forgotten (its  *)
(* event will never be set).  The heartbeat is not put into the queue:     *)
(* nobody waits for its reply.                                             *)
(*                                                                         *)
(* connect() makes requests, and a request calls connect(): stack[t] holds *)
(* what each call of connect() under way is for.                           *)
(***************************************************************************)
EXTENDS Naturals, Sequences, FiniteSets

CONSTANTS
  Users,      \* threads using the client
  MaxLinks,   \* bound on the number of connections
  MaxCalls,   \* bound on the requests of users
  MayClose,   \* whether a user calls disconnect, once
  MaxFaults,  \* bound on the connections refused or lost
  TryAgain,   \* whether the try_period outlasts an attempt failing on a connection made
  Slow,       \* whether a request may time out while it is under way
  MayBlock    \* whether sending may time out on an open connection

Links == 1 .. MaxLinks
NoLink == 0
Queues == 0 .. MaxLinks    \* a queue for each connection, made before it
Tx(n) == <<"tx", n>>
Rx(n) == <<"rx", n>>
Rc(n) == <<"rc", n>>
Queue(q) == <<"queue", q>>
Threads == Users \cup ({"tx", "rx", "rc"} \X Links)
Nobody == <<"nobody", NoLink>>
Marker == <<"marker", NoLink>>     \* None in the queue

VARIABLES
  self,     \* the attributes of the client
  at,       \* per thread: where it is
  stack,    \* per thread: the purposes of its calls of connect()
  ref,      \* per thread: a thread, a queue or an entry it has in hand
  request,  \* per thread: what became of its last request
  txq,      \* per queue: what is in it; connect() makes a new queue
  link,     \* per connection: "none", "open", "shut" or "gone"
  calls, faults,
  closing,  \* history: a user has called disconnect
  since,    \* history, per thread: the connections served before its disconnect() began
  overtaken \* history: a later connection was closed, or its threads forgotten, by a thread
            \* which had to do with an earlier one

history == <<since, overtaken>>
env == <<link, faults, calls, closing, history>>
vars == <<self, at, stack, ref, request, txq, env>>

Requests == {"none", "queued", "active", "sent", "answered", "aborted", "forgotten"}
Purposes == {"request", "reconnect", "heartbeat", "describe", "activate"}
\* The places within calls of connect(), of the tx and rx threads, of disconnect(), and others.
Calling == {"lock", "try", "start", "identified", "except", "connected", "put", "wait"}
Closing == {"quit", "stop", "drain", "tx", "rx", "close", "join conn", "join tx", "join rx"}
Places ==
  Calling \cup Closing \cup
  {"none", "idle", "dead", "loop", "get", "send", "end", "read", "crash", "closed",
   "again", "failed", "over"}
States == {"", "connecting", "reconnecting", "activating", "connected", "shutdown"}

Init ==
  /\ self = [io |-> NoLink, running |-> FALSE, shutdown |-> FALSE, lock |-> Nobody,
             txthread |-> Nobody, rxthread |-> Nobody, connthread |-> Nobody,
             queue |-> 0, online |-> FALSE, state |-> ""]
  /\ at = [t \in Threads |-> IF t \in Users THEN "idle" ELSE "none"]
  /\ stack = [t \in Threads |-> <<>>]
  /\ ref = [t \in Threads |-> Nobody]
  /\ request = [t \in Threads |-> "none"]
  /\ txq = [q \in Queues |-> <<>>]
  /\ link = [n \in Links |-> "none"]
  /\ calls = 0 /\ faults = 0 /\ closing = FALSE
  /\ since = [t \in Threads |-> {}] /\ overtaken = FALSE

-----------------------------------------------------------------------------
(* Steps.                                                                  *)

\* The connections which have got their threads.
Serving == {n \in Links : at[Rx(n)] # "none"}
\* What a thread does to a connection it has nothing to do with.
Overtakes(late) == overtaken' = (overtaken \/ late)

Dead(t) == at[t] \in {"none", "idle", "dead"}
Made == Cardinality({n \in Links : link[n] # "none"})
Purpose(t) == stack[t][Len(stack[t])]
Pop(s) == SubSeq(s, 1, Len(s) - 1)
\* The state of self.io: without a connection, using it raises as well.
Io == IF self.io = NoLink THEN "gone" ELSE link[self.io]

Go(t, from, to) == at[t] = from /\ at' = [at EXCEPT ![t] = to]

\* Where a thread goes when its disconnect() is over, and when it raises.
AfterDisconnect(t) ==
  CASE t \in Users -> "idle" [] t \notin Users /\ t[1] = "rx" -> "closed" [] OTHER -> "dead"
AfterFailure(t) == IF t \in Users THEN "idle" ELSE "dead"

\* A call of connect() for a purpose.
CallConnect(t, from, purpose) ==
  /\ Go(t, from, "lock")
  /\ stack' = [stack EXCEPT ![t] = Append(@, purpose)]

\* connect() returns: the request it was called for is made next.
ReturnFromConnect(t, from) ==
  LET next == CASE Purpose(t) = "reconnect" -> "over"
                [] Purpose(t) = "heartbeat" -> "read"
                [] OTHER -> "put"
  IN /\ Go(t, from, next)
     /\ stack' = IF next = "put" THEN stack ELSE [stack EXCEPT ![t] = Pop(@)]

\* connect(), or the request it was called for, raises.
Raise(t, from) ==
  /\ Go(t, from, CASE Purpose(t) = "request" -> "idle"
                   [] Purpose(t) = "reconnect" -> "failed"
                   [] Purpose(t) = "heartbeat" -> "crash"
                   [] OTHER -> "except")
  /\ stack' = [stack EXCEPT ![t] = Pop(@)]

\* The RLock is released with the outermost of the nested calls.
Released(t) == IF Len(stack[t]) = 1 THEN Nobody ELSE self.lock

-----------------------------------------------------------------------------
(* connect()                                                               *)

\* active_requests.clear()
Cleared == [t \in Threads |-> IF request[t] \in {"active", "sent"} THEN "forgotten"
                                                                   ELSE request[t]]

\* Slip: connect() does not test whether there is a connection.
LockAnew(t) ==
  /\ self.lock \in {Nobody, t}
  /\ Go(t, "lock", "try")
  /\ self' = [self EXCEPT !.lock = t, !.shutdown = FALSE, !.queue = Made]
  /\ request' = Cleared
  /\ txq' = [txq EXCEPT ![Made] = <<>>]
  /\ UNCHANGED <<stack, ref, env>>

Lock(t) ==
  /\ at[t] = "lock" /\ self.lock \in {Nobody, t}
  /\ IF self.io # NoLink
       THEN /\ self' = [self EXCEPT !.lock = Released(t)]
            /\ ReturnFromConnect(t, "lock")
            /\ UNCHANGED <<request, txq>>
       ELSE /\ Go(t, "lock", "try")
            /\ self' = [self EXCEPT !.lock = t, !.shutdown = FALSE,
                          !.queue = Made,
                          !.state = IF self.online THEN "reconnecting" ELSE "connecting"]
            /\ request' = Cleared
            /\ txq' = [txq EXCEPT ![Made] = <<>>]
            /\ UNCHANGED stack
  /\ UNCHANGED <<ref, env>>

\* After a shutdown, connect() returns without a connection.
TryShutdown(t) ==
  /\ self.shutdown
  /\ ReturnFromConnect(t, "try")
  /\ self' = [self EXCEPT !.lock = Released(t)]
  /\ UNCHANGED <<ref, request, txq, env>>

Open(t) ==
  /\ ~self.shutdown /\ Made < MaxLinks
  /\ Go(t, "try", "start")
  /\ link' = [link EXCEPT ![Made + 1] = "open"]
  /\ self' = [self EXCEPT !.io = Made + 1]
  /\ UNCHANGED <<stack, ref, request, txq, faults, calls, closing, history>>

\* After the bound on connections no connection is made any more.
Refused(t) ==
  /\ ~self.shutdown /\ (faults < MaxFaults \/ Made = MaxLinks)
  /\ Go(t, "try", "except")
  /\ faults' = IF faults < MaxFaults THEN faults + 1 ELSE faults
  /\ UNCHANGED <<self, stack, ref, request, txq, link, calls, closing, history>>

\* The identification is answered ...
Identified(t) ==
  /\ Io = "open"
  /\ Go(t, "start", "identified")
  /\ UNCHANGED <<self, stack, ref, request, txq, env>>

\* ... the threads are started and the description is requested, whatever has become of
\* the connection meanwhile.
Start(t) ==
  /\ at[t] = "identified"
  /\ at' = [at EXCEPT ![t] = "lock", ![Rx(Made)] = "read", ![Tx(Made)] = "loop"]
  /\ stack' = [stack EXCEPT ![t] = Append(@, "describe")]
  /\ self' = [self EXCEPT !.running = TRUE, !.rxthread = Rx(Made), !.txthread = Tx(Made)]
  /\ UNCHANGED <<ref, request, txq, env>>

\* The identification fails: the connection is lost, or closed by an other thread.
NotIdentified(t) ==
  /\ Io # "open"
  /\ Go(t, "start", "except")
  /\ UNCHANGED <<self, stack, ref, request, txq, env>>

Connect(t) ==
  /\ ReturnFromConnect(t, "connected")
  /\ self' = [self EXCEPT !.online = TRUE, !.state = "connected", !.lock = Released(t)]
  /\ UNCHANGED <<ref, request, txq, env>>

\* The handler of exceptions when the try_period is over; it leaves the client online.
GiveUp(t) ==
  /\ Raise(t, "except")
  /\ self' = [self EXCEPT !.lock = Released(t)]
  /\ UNCHANGED <<ref, request, txq, env>>

\* Within the try_period, the next attempt follows after a second.
Retry(t) ==
  /\ self.io = NoLink \/ TryAgain
  /\ Go(t, "except", "try")
  /\ UNCHANGED <<self, stack, ref, request, txq, env>>

-----------------------------------------------------------------------------
(* A request: by a user, or within connect().                              *)

Request(u) ==
  /\ calls < MaxCalls /\ calls' = calls + 1
  /\ CallConnect(u, "idle", "request")
  /\ UNCHANGED <<self, ref, request, txq, link, faults, closing, history>>

Put(t) ==
  /\ Go(t, "put", "wait")
  /\ txq' = [txq EXCEPT ![self.queue] = Append(@, t)]
  /\ request' = [request EXCEPT ![t] = "queued"]
  /\ UNCHANGED <<self, stack, ref, env>>

GetReply(t) ==
  /\ request[t] = "answered"
  /\ CASE Purpose(t) = "request" ->
            /\ Go(t, "wait", "idle")
            /\ stack' = [stack EXCEPT ![t] = Pop(@)]
            /\ UNCHANGED self
       [] Purpose(t) = "describe" ->
            /\ Go(t, "wait", "lock")
            /\ stack' = [stack EXCEPT ![t] = Append(Pop(@), "activate")]
            /\ self' = [self EXCEPT !.online = TRUE, !.state = "activating"]
       [] OTHER ->
            /\ Go(t, "wait", "connected")
            /\ stack' = [stack EXCEPT ![t] = Pop(@)]
            /\ UNCHANGED self
  /\ request' = [request EXCEPT ![t] = "none"]
  /\ UNCHANGED <<ref, txq, env>>

\* A thread which might still bring the reply.
UnderWay(t) ==
  \/ request[t] = "queued" /\ \E n \in Links : at[Tx(n)] \in {"loop", "get", "send"}
  \/ request[t] = "active" /\ \E n \in Links : at[Tx(n)] = "send" /\ ref[Tx(n)] = t
  \/ request[t] = "sent" /\ Io = "open"
     /\ \E n \in Links : at[Rx(n)] \in {"read", "lock"}

\* The event is set without a reply, or not set in time.
NoReply(t) ==
  /\ at[t] = "wait" /\ request[t] # "answered"
  /\ request[t] = "aborted" \/ Slow \/ ~UnderWay(t)
  /\ Raise(t, "wait")
  /\ request' = [request EXCEPT ![t] = "none"]
  /\ txq' = [q \in Queues |-> SelectSeq(txq[q], LAMBDA e : e # t)]
  /\ UNCHANGED <<self, ref, env>>

-----------------------------------------------------------------------------
(* The tx thread.                                                          *)

TxLoop(n) ==
  /\ Go(Tx(n), "loop", IF self.running THEN "get" ELSE "end")
  /\ ref' = [ref EXCEPT ![Tx(n)] = IF self.running THEN Queue(self.queue) ELSE Nobody]
  /\ UNCHANGED <<self, stack, request, txq, env>>

TxGet(n) ==
  LET q == ref[Tx(n)][2]
      e == Head(txq[q])
  IN /\ at[Tx(n)] = "get" /\ txq[q] # <<>>
     /\ Go(Tx(n), "get", IF e = Marker THEN "end" ELSE "send")
     /\ ref' = [ref EXCEPT ![Tx(n)] = IF e = Marker THEN Nobody ELSE e]
     /\ request' = IF e = Marker THEN request ELSE [request EXCEPT ![e] = "active"]
     /\ txq' = [txq EXCEPT ![q] = Tail(@)]
     /\ UNCHANGED <<self, stack, env>>

\* Sending on a lost connection, or to a node which does not read, may fail: the thread
\* ends by an exception.
TxSend(n) ==
  LET e == ref[Tx(n)]
  IN /\ \/ /\ Io # "gone"
           /\ Go(Tx(n), "send", "loop")
           /\ request' = IF request[e] = "active" THEN [request EXCEPT ![e] = "sent"]
                                                  ELSE request
        \/ /\ Io # "open" \/ MayBlock
           /\ Go(Tx(n), "send", "dead")
           /\ UNCHANGED request
     /\ ref' = [ref EXCEPT ![Tx(n)] = Nobody]
     /\ UNCHANGED <<self, stack, txq, env>>

TxEnd(n) ==
  /\ Go(Tx(n), "end", "quit")
  /\ self' = [self EXCEPT !.txthread = Nobody]
  /\ Overtakes(self.txthread \notin {Tx(n), Nobody})
  /\ UNCHANGED <<stack, ref, request, txq, link, faults, calls, closing, since>>

-----------------------------------------------------------------------------
(* The rx thread.                                                          *)

\* _running is tested at least once a second.
RxStops(n) ==
  /\ ~self.running
  /\ Go(Rx(n), "read", "end")
  /\ UNCHANGED <<self, stack, ref, request, txq, env>>

Receive(n) ==
  /\ at[Rx(n)] = "read" /\ Io = "open"
  /\ \E t \in Threads :
       /\ request[t] = "sent"
       /\ request' = [request EXCEPT ![t] = "answered"]
  /\ UNCHANGED <<self, at, stack, ref, txq, env>>

\* Nothing comes for 5 seconds.
Heartbeat(n) ==
  /\ at[Rx(n)] = "read" /\ Io = "open"
  /\ CallConnect(Rx(n), "read", "heartbeat")
  /\ UNCHANGED <<self, ref, request, txq, env>>

ConnectionClosed(n) ==
  /\ Io = "shut"
  /\ Go(Rx(n), "read", "end")
  /\ UNCHANGED <<self, stack, ref, request, txq, env>>

\* self.io, or its socket, is None.
RxFails(n) ==
  /\ Io = "gone"
  /\ Go(Rx(n), "read", "crash")
  /\ UNCHANGED <<self, stack, ref, request, txq, env>>

RxEnd(n) ==
  /\ \/ Go(Rx(n), "end", "quit")
     \/ Go(Rx(n), "crash", "stop")
  /\ self' = [self EXCEPT !.rxthread = Nobody]
  /\ Overtakes(self.rxthread \notin {Rx(n), Nobody})
  /\ UNCHANGED <<stack, ref, request, txq, link, faults, calls, closing, since>>

RxClosed(n) ==
  /\ at[Rx(n)] = "closed"
  /\ IF self.shutdown
       THEN Go(Rx(n), "closed", "dead") /\ UNCHANGED self
       ELSE /\ at' = [at EXCEPT ![Rx(n)] = "dead", ![Rc(n)] = "again"]
            /\ self' = [self EXCEPT !.connthread = Rc(n)]
  /\ UNCHANGED <<stack, ref, request, txq, env>>

-----------------------------------------------------------------------------
(* The thread connecting again.                                            *)

Reconnect(n) ==
  /\ IF self.shutdown
       THEN Go(Rc(n), "again", "over") /\ UNCHANGED stack
       ELSE CallConnect(Rc(n), "again", "reconnect")
  /\ UNCHANGED <<self, ref, request, txq, env>>

\* After reconnect_timeout, the client is declared offline.
ReconnectFailed(n) ==
  /\ Go(Rc(n), "failed", "again")
  /\ self' \in {self, [self EXCEPT !.online = FALSE]}
  /\ UNCHANGED <<stack, ref, request, txq, env>>

ReconnectOver(n) ==
  /\ Go(Rc(n), "over", "dead")
  /\ self' = [self EXCEPT !.connthread = Nobody]
  /\ UNCHANGED <<stack, ref, request, txq, env>>

-----------------------------------------------------------------------------
(* disconnect(): "stop" is the entry with shutdown, "quit" without.        *)

Disconnect(u) ==
  /\ MayClose /\ ~closing /\ closing' = TRUE
  /\ Go(u, "idle", "stop")
  /\ UNCHANGED <<self, stack, ref, request, txq, link, calls, faults, history>>

Stop(t) ==
  /\ Go(t, "stop", CASE self.connthread = Nobody -> "drain"
                     [] self.connthread = t -> AfterDisconnect(t)
                     [] OTHER -> "join conn")
  /\ ref' = [ref EXCEPT ![t] = IF self.connthread = t THEN Nobody ELSE self.connthread]
  /\ self' = [self EXCEPT !.running = FALSE, !.shutdown = TRUE, !.online = FALSE,
                !.state = "shutdown"]
  /\ since' = [since EXCEPT ![t] = Serving]
  /\ UNCHANGED <<stack, request, txq, link, faults, calls, closing, overtaken>>

Waiting(q) == {txq[q][i] : i \in DOMAIN txq[q]}

\* Slip: _running is not reset.
DrainRunning(t) ==
  /\ Go(t, "drain", "tx") \/ Go(t, "quit", "tx")
  /\ txq' = [txq EXCEPT ![self.queue] = <<>>]
  /\ request' = [e \in Threads |-> IF e \in Waiting(self.queue) THEN "forgotten"
                                                               ELSE request[e]]
  /\ link' = [n \in Links |-> IF n = self.io /\ link[n] = "open" THEN "shut" ELSE link[n]]
  /\ since' = IF at[t] = "quit" THEN [since EXCEPT ![t] = Serving] ELSE since
  /\ UNCHANGED <<self, stack, ref, faults, calls, closing, overtaken>>

\* txq is emptied, and the socket is shut.
Drain(t) ==
  /\ \/ Go(t, "drain", "tx") /\ UNCHANGED self
     \/ Go(t, "quit", "tx") /\ self' = [self EXCEPT !.running = FALSE]
  /\ txq' = [txq EXCEPT ![self.queue] = <<>>]
  /\ request' = [e \in Threads |-> IF e \in Waiting(self.queue) THEN "forgotten"
                                                               ELSE request[e]]
  /\ link' = [n \in Links |-> IF n = self.io /\ link[n] = "open" THEN "shut" ELSE link[n]]
  /\ since' = IF at[t] = "quit" THEN [since EXCEPT ![t] = Serving] ELSE since
  /\ UNCHANGED <<stack, ref, faults, calls, closing, overtaken>>

\* Threads not yet known to have ended are joined, the tx thread after a marker is put.
TestTxThread(t) ==
  /\ self.txthread # Nobody
  /\ Go(t, "tx", "join tx")
  /\ txq' = [txq EXCEPT ![self.queue] = Append(@, Marker)]
  /\ ref' = [ref EXCEPT ![t] = self.txthread]
  /\ UNCHANGED <<self, stack, request, env>>

TestRxThread(t) ==
  LET next == IF self.rxthread = Nobody THEN "close" ELSE "join rx"
  IN /\ \/ Go(t, "tx", next) /\ self.txthread = Nobody
        \/ Go(t, "rx", next)
     /\ ref' = [ref EXCEPT ![t] = self.rxthread]
     /\ UNCHANGED <<self, stack, request, txq, env>>

\* self._txthread.join() reads the attribute again, and finds None if the thread
\* has come to its end in between.
JoinFails(t) ==
  /\ \/ Go(t, "join conn", AfterFailure(t)) /\ self.connthread = Nobody
     \/ Go(t, "join tx", AfterFailure(t)) /\ self.txthread = Nobody
     \/ Go(t, "join rx", AfterFailure(t)) /\ self.rxthread = Nobody
  /\ ref' = [ref EXCEPT ![t] = Nobody]
  /\ since' = [since EXCEPT ![t] = {}]
  /\ UNCHANGED <<self, stack, request, txq, link, faults, calls, closing, overtaken>>

Joined(t) ==
  /\ at[t] \in {"join conn", "join tx", "join rx"} /\ Dead(ref[t])
  /\ \/ Go(t, "join conn", "drain") /\ self' = [self EXCEPT !.connthread = Nobody]
        /\ UNCHANGED overtaken
     \/ Go(t, "join tx", "rx") /\ self' = [self EXCEPT !.txthread = Nobody]
        /\ Overtakes(self.txthread \notin {ref[t], Nobody})
     \/ Go(t, "join rx", "close") /\ self' = [self EXCEPT !.rxthread = Nobody]
        /\ Overtakes(self.rxthread \notin {ref[t], Nobody})
  /\ ref' = [ref EXCEPT ![t] = Nobody]
  /\ UNCHANGED <<stack, request, txq, link, faults, calls, closing, since>>

\* Slip: the connection is forgotten before its socket is closed.
CloseNothing(t) ==
  /\ Go(t, "close", AfterDisconnect(t))
  /\ self' = [self EXCEPT !.io = NoLink]
  /\ request' = [e \in Threads |-> IF request[e] \in {"active", "sent"} THEN "aborted"
                                                                      ELSE request[e]]
  /\ Overtakes(self.io \notin since[t] \cup {NoLink})
  /\ since' = [since EXCEPT ![t] = {}]
  /\ UNCHANGED <<stack, ref, txq, link, faults, calls, closing>>

\* The socket is closed, the connection forgotten and the requests are aborted.
Close(t) ==
  /\ Go(t, "close", AfterDisconnect(t))
  /\ link' = [n \in Links |-> IF n = self.io THEN "gone" ELSE link[n]]
  /\ self' = [self EXCEPT !.io = NoLink]
  /\ request' = [e \in Threads |-> IF request[e] \in {"active", "sent"} THEN "aborted"
                                                                      ELSE request[e]]
  /\ Overtakes(self.io \notin since[t] \cup {NoLink})
  /\ since' = [since EXCEPT ![t] = {}]
  /\ UNCHANGED <<stack, ref, txq, faults, calls, closing>>

Disconnecting(t) ==
  \/ Stop(t) \/ Drain(t) \/ TestTxThread(t) \/ TestRxThread(t)
  \/ JoinFails(t) \/ Joined(t) \/ Close(t)

-----------------------------------------------------------------------------

Lose ==
  /\ faults < MaxFaults /\ faults' = faults + 1
  /\ \E n \in Links : link[n] = "open" /\ link' = [link EXCEPT ![n] = "shut"]
  /\ UNCHANGED <<self, at, stack, ref, request, txq, calls, closing, history>>

Connecting(t) ==
  \/ TryShutdown(t) \/ Open(t) \/ Refused(t) \/ Identified(t) \/ NotIdentified(t) \/ Start(t)
  \/ Connect(t) \/ GiveUp(t) \/ Retry(t)
  \/ Put(t) \/ GetReply(t) \/ NoReply(t)

TxStep(n) == TxLoop(n) \/ TxGet(n) \/ TxSend(n) \/ TxEnd(n)
RxStep(n) ==
  \/ RxStops(n) \/ Receive(n) \/ Heartbeat(n) \/ ConnectionClosed(n) \/ RxFails(n)
  \/ RxEnd(n) \/ RxClosed(n)
RcStep(n) == Reconnect(n) \/ ReconnectFailed(n) \/ ReconnectOver(n)

Next ==
  \/ \E u \in Users : Request(u) \/ Disconnect(u)
  \/ \E t \in Threads : at[t] \in Calling /\ (Lock(t) \/ Connecting(t))
  \/ \E t \in Threads : at[t] \in Closing /\ Disconnecting(t)
  \/ \E n \in Links : TxStep(n) \/ RxStep(n) \/ RcStep(n)
  \/ Lose

Step(t) ==
  \/ Connecting(t) \/ Disconnecting(t)
  \/ \E n \in Links : \/ (t = Tx(n) /\ TxStep(n))
                       \/ (t = Rx(n) /\ RxStep(n))
                       \/ (t = Rc(n) /\ RcStep(n))

\* Users go on, and so do the other threads taken together; a user waiting for the lock
\* gets it at last, if it is free again and again.
Fairness ==
  /\ \A u \in Users : WF_vars(Step(u)) /\ SF_vars(Lock(u))
  /\ WF_vars(\E t \in Threads \ Users : Step(t) \/ Lock(t))

Spec == Init /\ [][Next]_vars /\ Fairness

-----------------------------------------------------------------------------
TypeOK ==
  /\ self \in [io : Links \cup {NoLink}, running : BOOLEAN, shutdown : BOOLEAN,
               lock : Threads \cup {Nobody}, txthread : Threads \cup {Nobody},
               rxthread : Threads \cup {Nobody}, connthread : Threads \cup {Nobody},
               queue : Queues, online : BOOLEAN, state : States]
  /\ at \in [Threads -> Places] /\ DOMAIN ref = Threads
  /\ stack \in [Threads -> Seq(Purposes)]
  /\ since \in [Threads -> SUBSET Links] /\ overtaken \in BOOLEAN
  /\ request \in [Threads -> Requests]
  /\ link \in [Links -> {"none", "open", "shut", "gone"}]

\* Replies are matched with requests by one rx thread: two of them never wait at the same
\* time for what comes on the connection.  With a try_period they may, see TryAgain, and
\* after a connection was closed by a disconnect() begun before it was made.
OneReader == \A n, m \in Links : at[Rx(n)] = "read" /\ at[Rx(m)] = "read" => n = m

\* However connect() and the disconnect() of several threads overlap, no connection stays
\* open without being the one of the client.
NoLeak == \A n \in Links : link[n] \in {"open", "shut"} => n = self.io

\* The client has one connection, however often it connects again, and as long as nothing is
\* overtaken, one thread reads from it.
OneLink == NoLeak /\ (~overtaken => OneReader)

AtRest(t) ==
  \/ Dead(t)
  \/ at[t] = "get" /\ txq[ref[t][2]] = <<>>
  \/ at[t] = "read" /\ self.running /\ Io = "open"

Quiet == \A t \in Threads : AtRest(t)

\* When no thread has anything left to do and the client is running, its connection is
\* open and served by both of its threads.
Served ==
  self.running /\ Quiet =>
    Io = "open" /\ at[Rx(self.io)] = "read" /\ at[Tx(self.io)] = "get"

\* "connected or reconnecting since a short time" (client/__init__.py:203): when no thread
\* has anything left to do, in particular none is connecting again, a client which is online
\* has an open connection.
OnlineIsTrue == Quiet /\ self.online => Io = "open"

\* "make sure we are connected" (client/__init__.py:675): after connect(), at rest, there is a
\* connection with its threads, or none at all.
MadeSure == Quiet /\ self.io # NoLink => Io = "open" /\ self.running

\* A user waiting in request() gets a reply or an exception, also while the connection is
\* lost, made again or closed.
RequestsReturn == \A u \in Users : stack[u] # <<>> ~> stack[u] = <<>>
=============================================================================
