--------------------------------- MODULE IO ---------------------------------
(***************************************************************************)
(* The communicators of frappy/io.py (IOBase, StringIO), with the sockets  *)
(* of frappy/lib/asynconn.py (AsynTcp) and the device they talk to.        *)
(*                                                                         *)
(* The Poller is the poll thread of the communicator: it polls             *)
(* is_connected and calls communicate for the modules polled in the same   *)
(* thread.  Users are threads serving requests or polling other modules.   *)
(* Two re-entrant locks: _lock (lineLock) held for an exchange with the    *)
(* device, and accessLock, held by the wrappers of read_is_connected and   *)
(* write_is_connected.  closeConnection is called with and without them,   *)
(* so its assignments are steps of their own; so are the assignments of    *)
(* connectStart and the one the wrapper of read_is_connected adds.         *)
(*                                                                         *)
(* A method called by a method pushes where to go on (stack); an exception *)
(* leaves all methods and locks at once.  The identification is one        *)
(* command.  Sockets are numbered; a number no one refers to is reused.    *)
(* An answer is the name of the thread whose request it answers, or Late,  *)
(* when another request has been sent in the meantime.                     *)
(*                                                                         *)
(* A definition marked as a slip is a wrong variant of the definition it   *)
(* precedes; Next does not use it.                                         *)
(***************************************************************************)
EXTENDS Naturals, Sequences, FiniteSets

CONSTANTS
  Poller, Users,     \* the threads
  None, Late,
  Ops,               \* the operations Users call
  HasIdent,          \* an identification is configured
  RetryFirstIdn,     \* and repeated once
  MaxFaults,         \* bound on drops, refused connections and time-outs
  MaxCalls,          \* bound on the calls of Users
  MaxAttempts        \* bound on the attempts counted

ASSUME ThreadsAssumption ==
  /\ IsFiniteSet(Users)
  /\ None \notin {Poller} \cup Users \cup Nat
  /\ Late \notin {Poller, None} \cup Users
ASSUME OpsAssumption ==
  Ops \subseteq {"communicate", "multicomm", "connect", "disconnect", "reconnect"}
ASSUME FlagsAssumption == HasIdent \in BOOLEAN /\ RetryFirstIdn \in BOOLEAN
ASSUME BoundsAssumption ==
  MaxFaults \in Nat /\ MaxCalls \in Nat /\ MaxAttempts \in Nat

Threads == {Poller} \cup Users

VARIABLES
  is_connected,
  conn,         \* _conn: a socket or None
  sockets,      \* state, arrived and owed answers, and whether one was late
  lineLock, accessLock,
  last_error,   \* BOOLEAN: _last_error is set
  registered,   \* the reconnect callback of the poll thread is registered
  thread,       \* per thread: where it is, see Idle
  faults, calls,   \* counted for the bounds
  attempts      \* history: what communicate tried in this pollinterval to connect

vars == <<is_connected, conn, sockets, lineLock, accessLock, last_error,
          registered, thread, faults, calls, attempts>>
locks == <<lineLock, accessLock>>
bounds == <<faults, calls>>

-----------------------------------------------------------------------------
(* Threads and locks.                                                      *)

Free == [owner |-> None, depth |-> 0]
CanTake(lock, t) == lock.owner \in {None, t}
Taken(lock, t) == [owner |-> t, depth |-> lock.depth + 1]
\* Slip: the owner is kept.
ReleasedOwnerKept(lock) == [lock EXCEPT !.depth = @ - 1]

Released(lock) == IF lock.depth = 1 THEN Free ELSE [lock EXCEPT !.depth = @ - 1]

Dropped(lock, t) == IF lock.owner = t THEN Free ELSE lock

Idle == [pc |-> "idle", stack |-> <<>>, on |-> None, got |-> None,
         result |-> FALSE, more |-> 0]

\* One for conn, one per reading thread and a new one.
Sockets == 1 .. Cardinality(Threads) + 2
Closed == [state |-> "closed", arrived |-> <<>>, owed |-> <<>>, late |-> FALSE]

\* A closed socket gives nothing more.
Shut(socket) == [Closed EXCEPT !.late = socket.late]

At(t, pc) == thread[t].pc = pc
Goto(t, pc) == thread' = [thread EXCEPT ![t].pc = pc]

\* Call the method starting at pc, and go on at next.
Call(t, pc, next) ==
  thread' = [thread EXCEPT ![t].pc = pc, ![t].stack = <<next>> \o @]

Returned(frame) ==
  IF frame.stack = <<>> THEN Idle
  ELSE [frame EXCEPT !.pc = Head(frame.stack), !.stack = Tail(frame.stack), !.on = None]

Return(t) == thread' = [thread EXCEPT ![t] = Returned(@)]

\* An exception ends the call from outside.
Raise(t) ==
  /\ thread' = [thread EXCEPT ![t] = Idle]
  /\ lineLock' = Dropped(lineLock, t)
  /\ accessLock' = Dropped(accessLock, t)

Init ==
  /\ is_connected = FALSE
  /\ conn = None
  /\ sockets = [s \in Sockets |-> Closed]
  /\ lineLock = Free /\ accessLock = Free
  /\ last_error = FALSE
  /\ registered = TRUE
  /\ thread = [t \in Threads |-> Idle]
  /\ faults = 0 /\ calls = 0 /\ attempts = 0

-----------------------------------------------------------------------------
(* The device.  Referenced are the sockets python has not yet closed.      *)

Referenced == {s \in Sockets : s = conn \/ \E t \in Threads : thread[t].on = s}
State(s) == IF s = None THEN "closed" ELSE sockets[s].state
Up(s) == State(s) = "up"

Answer(s) ==
  /\ Up(s) /\ sockets[s].owed # <<>>
  /\ sockets' = [sockets EXCEPT ![s].owed = Tail(@),
                                ![s].arrived = Append(@, Head(sockets[s].owed))]
  /\ UNCHANGED <<is_connected, conn, locks, last_error, registered, thread,
                 bounds, attempts>>

Drop(s) ==
  /\ Up(s) /\ faults < MaxFaults
  /\ faults' = faults + 1
  /\ sockets' = [sockets EXCEPT ![s].state = "dropped", ![s].owed = <<>>]
  /\ UNCHANGED <<is_connected, conn, locks, last_error, registered, thread, calls,
                 attempts>>

Device == \E s \in Referenced : Answer(s) \/ Drop(s)

-----------------------------------------------------------------------------
(* closeConnection.                                                        *)

CloseConnection(t) ==
  /\ At(t, "close")
  /\ IF conn = None
       THEN Raise(t) /\ last_error' = (last_error \/ Head(thread[t].stack) = "lost")
            /\ UNCHANGED sockets
       ELSE /\ sockets' = [sockets EXCEPT ![conn] = Shut(@)]
            /\ Goto(t, "forget")
            /\ UNCHANGED <<locks, last_error>>
  /\ UNCHANGED <<is_connected, conn, registered, bounds, attempts>>

ForgetConnection(t) ==
  /\ At(t, "forget")
  /\ conn' = None
  /\ Goto(t, "unflag")
  /\ UNCHANGED <<is_connected, sockets, locks, last_error, registered, bounds,
                 attempts>>

\* Slip: is_connected is not set to False, see the docstring of closeConnection.
ConnectionClosedNotFlagged(t) ==
  /\ At(t, "unflag")
  /\ Return(t)
  /\ UNCHANGED <<is_connected, conn, sockets, locks, last_error, registered, bounds,
                 attempts>>

ConnectionClosed(t) ==
  /\ At(t, "unflag")
  /\ is_connected' = FALSE
  /\ Return(t)
  /\ UNCHANGED <<conn, sockets, locks, last_error, registered, bounds, attempts>>

-----------------------------------------------------------------------------
(* communicate.                                                            *)

\* An exception within communicate or read_is_connected is remembered.
Fail(t) == Raise(t) /\ last_error' = TRUE

\* check_connection: _last_connect_attempt stays 0, hence pollinterval does
\* not delay the attempt.
CheckConnection(t) ==
  /\ At(t, "check")
  /\ IF is_connected
       THEN Goto(t, "take") /\ UNCHANGED attempts
       ELSE /\ Call(t, "enter", "checked")
            /\ attempts' = IF attempts < MaxAttempts THEN attempts + 1 ELSE attempts
  /\ UNCHANGED <<is_connected, conn, sockets, locks, last_error, registered, bounds>>

ConnectionChecked(t) ==
  /\ At(t, "checked")
  /\ IF thread[t].result THEN Goto(t, "take") /\ UNCHANGED <<locks, last_error>>
                         ELSE Fail(t)
  /\ UNCHANGED <<is_connected, conn, sockets, registered, bounds, attempts>>

\* Slip: _lock is not taken.
TakeLineUnlocked(t) ==
  /\ At(t, "take")
  /\ lineLock' = Taken(lineLock, t)
  /\ Goto(t, "flush")
  /\ UNCHANGED <<is_connected, conn, sockets, accessLock, last_error, registered,
                 bounds, attempts>>

TakeLine(t) ==
  /\ At(t, "take") /\ CanTake(lineLock, t)
  /\ lineLock' = Taken(lineLock, t)
  /\ Goto(t, "flush")
  /\ UNCHANGED <<is_connected, conn, sockets, accessLock, last_error, registered,
                 bounds, attempts>>

\* Without a connection, or on one closed by this side, an exception other
\* than ConnectionClosed.
NoConnection(t) ==
  /\ thread[t].pc \in {"flush", "send", "read"}
  /\ State(conn) = "closed"
  /\ Fail(t)
  /\ UNCHANGED <<is_connected, conn, sockets, registered, bounds, attempts>>

Flush(t) ==
  /\ At(t, "flush")
  /\ \/ /\ Up(conn)
        /\ sockets' = [sockets EXCEPT ![conn].arrived = <<>>]
        /\ Goto(t, "send")
     \/ /\ State(conn) = "dropped"
        /\ Call(t, "close", "lost")
        /\ UNCHANGED sockets
  /\ UNCHANGED <<is_connected, conn, locks, last_error, registered, bounds, attempts>>

AllLate(answers) == [i \in DOMAIN answers |-> Late]

\* The connection knows from now on that an earlier answer may come late.
Sent(s, t, noreply) ==
  [s EXCEPT !.arrived = AllLate(@),
            !.owed = AllLate(@) \o (IF noreply THEN <<>> ELSE <<t>>)]

Identifying(t) == thread[t].stack # <<>> /\ Head(thread[t].stack) \in {"ident", "again"}

\* On a dropped connection the data may be lost.
Send(t, noreply) ==
  /\ At(t, "send")
  /\ noreply => ~Identifying(t)
  /\ \/ Up(conn) /\ sockets' = [sockets EXCEPT ![conn] = Sent(@, t, noreply)]
     \/ State(conn) = "dropped" /\ UNCHANGED sockets
  /\ Goto(t, IF noreply THEN "given" ELSE "read")
  /\ UNCHANGED <<is_connected, conn, locks, last_error, registered, bounds, attempts>>

\* ... or rejected.
SendFails(t) ==
  /\ At(t, "send") /\ State(conn) = "dropped"
  /\ Fail(t)
  /\ UNCHANGED <<is_connected, conn, sockets, registered, bounds, attempts>>

StartReading(t) ==
  /\ At(t, "read") /\ State(conn) # "closed"
  /\ thread' = [thread EXCEPT ![t].pc = "reading", ![t].on = conn]
  /\ UNCHANGED <<is_connected, conn, sockets, locks, last_error, registered, bounds,
                 attempts>>

ReadAnswer(t) ==
  LET s == thread[t].on IN
  /\ At(t, "reading") /\ sockets[s].arrived # <<>>
  /\ thread' = [thread EXCEPT ![t].pc = "given", ![t].got = Head(sockets[s].arrived)]
  /\ sockets' = [sockets EXCEPT ![s].arrived = Tail(@)]
  /\ UNCHANGED <<is_connected, conn, locks, last_error, registered, bounds, attempts>>

\* No answer within the timeout; it may come later.
Timeout(t) ==
  LET s == thread[t].on IN
  /\ At(t, "reading") /\ Up(s) /\ sockets[s].arrived = <<>>
  /\ IF sockets[s].owed = <<>>
       THEN UNCHANGED <<faults, sockets>>
       ELSE /\ faults < MaxFaults /\ faults' = faults + 1
            /\ sockets' = [sockets EXCEPT ![s].late = TRUE]
  /\ Fail(t)
  /\ UNCHANGED <<is_connected, conn, registered, calls, attempts>>

\* End of file: dropped by the device, or closed by an other thread while
\* blocked in recv.
EndOfFile(t) ==
  LET s == thread[t].on IN
  /\ At(t, "reading") /\ ~Up(s) /\ sockets[s].arrived = <<>>
  /\ thread' = [thread EXCEPT ![t].pc = "close", ![t].stack = <<"lost">> \o @,
                              ![t].on = None]
  /\ UNCHANGED <<is_connected, conn, sockets, locks, last_error, registered, bounds,
                 attempts>>

\* Closed by an other thread, but not blocked in recv.
ReadClosed(t) ==
  /\ At(t, "reading") /\ State(thread[t].on) = "closed"
  /\ Fail(t)
  /\ UNCHANGED <<is_connected, conn, sockets, registered, bounds, attempts>>

ConnectionLost(t) ==
  /\ At(t, "lost")
  /\ Fail(t)
  /\ UNCHANGED <<is_connected, conn, sockets, registered, bounds, attempts>>

\* Slip: _lock is not released.
GivenLocked(t) ==
  /\ At(t, "given")
  /\ last_error' = TRUE
  /\ Return(t)
  /\ UNCHANGED <<is_connected, conn, sockets, locks, registered, bounds, attempts>>

Given(t) ==
  /\ At(t, "given")
  /\ lineLock' = Released(lineLock)
  /\ last_error' = TRUE
  /\ Return(t)
  /\ UNCHANGED <<is_connected, conn, sockets, accessLock, registered, bounds, attempts>>

-----------------------------------------------------------------------------
(* read_is_connected, with its wrapper, and connectStart.                  *)

\* Slip: the accessLock is not waited for.
EnterReadUnlocked(t) ==
  /\ At(t, "enter")
  /\ accessLock' = Taken(accessLock, t)
  /\ Goto(t, "test")
  /\ UNCHANGED <<is_connected, conn, sockets, lineLock, last_error, registered,
                 bounds, attempts>>

EnterRead(t) ==
  /\ At(t, "enter") /\ CanTake(accessLock, t)
  /\ accessLock' = Taken(accessLock, t)
  /\ Goto(t, "test")
  /\ UNCHANGED <<is_connected, conn, sockets, lineLock, last_error, registered,
                 bounds, attempts>>

TestConnected(t) ==
  /\ At(t, "test")
  /\ thread' = [thread EXCEPT ![t].pc = IF is_connected THEN "announce" ELSE "open",
                              ![t].result = TRUE]
  /\ UNCHANGED <<is_connected, conn, sockets, locks, last_error, registered, bounds,
                 attempts>>

\* A connection replaced is closed unless a thread still reads from it.
Open(t) ==
  LET new == CHOOSE s \in Sockets : s \notin Referenced
      replaced == {conn} \ {thread[u].on : u \in Threads}
  IN
  /\ At(t, "open")
  /\ conn' = new
  /\ sockets' = [s \in Sockets |-> IF s = new THEN [Closed EXCEPT !.state = "up"]
                                   ELSE IF s \in replaced THEN Shut(sockets[s]) ELSE sockets[s]]
  /\ Goto(t, "flag")
  /\ UNCHANGED <<is_connected, locks, last_error, registered, bounds, attempts>>

Refused(t) ==
  /\ At(t, "open") /\ faults < MaxFaults
  /\ faults' = faults + 1
  /\ Fail(t)
  /\ UNCHANGED <<is_connected, conn, sockets, registered, calls, attempts>>

\* checkHWIdent is called, when there is something to check.
FlagConnected(t) ==
  /\ At(t, "flag")
  /\ is_connected' = TRUE
  /\ IF HasIdent THEN Call(t, "check", IF RetryFirstIdn THEN "ident" ELSE "again")
                 ELSE Goto(t, "connected")
  /\ UNCHANGED <<conn, sockets, locks, last_error, registered, bounds, attempts>>

\* Only the device's answer to the identification command matches.
CheckHWIdent(t) ==
  /\ \/ At(t, "ident") /\ thread[t].got # t /\ Call(t, "check", "again")
     \/ At(t, "again") /\ thread[t].got # t /\ Call(t, "close", "lost")
     \/ thread[t].pc \in {"ident", "again"} /\ thread[t].got = t /\ Goto(t, "connected")
  /\ UNCHANGED <<is_connected, conn, sockets, locks, last_error, registered, bounds,
                 attempts>>

\* callCallbacks: trigger_all returns None, for which it is removed.
TriggerAll == None
Connected(t) ==
  /\ At(t, "connected")
  /\ registered' = (registered /\ (last_error => TriggerAll \notin {None, FALSE}))
  /\ last_error' = TRUE
  /\ Goto(t, "connection")
  /\ UNCHANGED <<is_connected, conn, sockets, locks, bounds, attempts>>

ReturnConnected(t) ==
  /\ At(t, "connection")
  /\ thread' = [thread EXCEPT ![t].pc = "announce", ![t].result = is_connected]
  /\ UNCHANGED <<is_connected, conn, sockets, locks, last_error, registered, bounds,
                 attempts>>

\* The wrappers of read_is_connected and write_is_connected assign the result.
Announce(t) ==
  /\ At(t, "announce")
  /\ is_connected' = thread[t].result
  /\ accessLock' = Released(accessLock)
  /\ Return(t)
  /\ UNCHANGED <<conn, sockets, lineLock, last_error, registered, bounds, attempts>>

-----------------------------------------------------------------------------
(* The calls from outside.                                                 *)

DoPoll ==
  /\ At(Poller, "idle")
  /\ Goto(Poller, "enter")
  /\ UNCHANGED <<is_connected, conn, sockets, locks, last_error, registered, bounds,
                 attempts>>

PollModule ==
  /\ At(Poller, "idle")
  /\ Goto(Poller, "check")
  /\ UNCHANGED <<is_connected, conn, sockets, locks, last_error, registered, bounds,
                 attempts>>

Start(t, op) ==
  /\ At(t, "idle") /\ op \in Ops /\ calls < MaxCalls
  /\ calls' = calls + 1
  /\ UNCHANGED <<is_connected, conn, sockets, locks, last_error, registered, faults,
                 attempts>>

Communicate(t) == Start(t, "communicate") /\ Goto(t, "check")

\* reconnect calls closeConnection, then read_is_connected.
Reconnect(t) == Start(t, "reconnect") /\ Call(t, "close", "enter")

WriteIsConnected(t, value) ==
  /\ Start(t, IF value THEN "connect" ELSE "disconnect")
  /\ thread' = [thread EXCEPT ![t].pc = "write", ![t].result = value]

Write(t) ==
  /\ At(t, "write") /\ CanTake(accessLock, t)
  /\ accessLock' = Taken(accessLock, t)
  /\ Call(t, IF thread[t].result THEN "enter" ELSE "close", "announce")
  /\ UNCHANGED <<is_connected, conn, sockets, lineLock, last_error, registered,
                 bounds, attempts>>

\* Two requests in one go.
Multicomm(t) ==
  /\ Start(t, "multicomm")
  /\ thread' = [thread EXCEPT ![t].pc = "lock", ![t].more = 2]

MulticommLock(t) ==
  /\ At(t, "lock") /\ CanTake(lineLock, t)
  /\ lineLock' = Taken(lineLock, t)
  /\ Goto(t, "multi")
  /\ UNCHANGED <<is_connected, conn, sockets, accessLock, last_error, registered,
                 bounds, attempts>>

MulticommNext(t) ==
  /\ At(t, "multi")
  /\ IF thread[t].more > 0
       THEN /\ thread' = [thread EXCEPT ![t].pc = "check", ![t].stack = <<"multi">>,
                                        ![t].more = @ - 1]
            /\ UNCHANGED lineLock
       ELSE lineLock' = Released(lineLock) /\ Return(t)
  /\ UNCHANGED <<is_connected, conn, sockets, accessLock, last_error, registered,
                 bounds, attempts>>

PollintervalOver ==
  /\ attempts # 0 /\ attempts' = 0
  /\ UNCHANGED <<is_connected, conn, sockets, locks, last_error, registered, thread,
                 bounds>>

-----------------------------------------------------------------------------
CallFrom(t) ==
  \/ Communicate(t) \/ Reconnect(t) \/ Multicomm(t)
  \/ \E value \in BOOLEAN : WriteIsConnected(t, value)

Step(t) ==
  \/ CloseConnection(t) \/ ForgetConnection(t) \/ ConnectionClosed(t)
  \/ CheckConnection(t) \/ ConnectionChecked(t)
  \/ TakeLine(t) \/ NoConnection(t) \/ Flush(t)
  \/ (\E noreply \in BOOLEAN : Send(t, noreply)) \/ SendFails(t)
  \/ StartReading(t) \/ ReadAnswer(t) \/ Timeout(t) \/ EndOfFile(t) \/ ReadClosed(t)
  \/ ConnectionLost(t) \/ Given(t)
  \/ EnterRead(t) \/ TestConnected(t) \/ Open(t) \/ Refused(t) \/ FlagConnected(t)
  \/ CheckHWIdent(t) \/ Connected(t) \/ ReturnConnected(t) \/ Announce(t)
  \/ Write(t) \/ MulticommLock(t) \/ MulticommNext(t)

Next ==
  \/ DoPoll \/ PollModule
  \/ \E t \in Users : CallFrom(t)
  \/ \E t \in Threads : Step(t)
  \/ Device
  \/ PollintervalOver

SafetySpec == Init /\ [][Next]_vars

\* The threads go on, a lock released again and again is got at last, the poll
\* thread polls, and the device answers.
Fairness ==
  /\ \A t \in Threads : SF_vars(Step(t))
  /\ SF_vars(DoPoll) /\ SF_vars(PollModule)
  /\ WF_vars(\E s \in Referenced : Answer(s))

Spec == SafetySpec /\ Fairness

-----------------------------------------------------------------------------
Labels == {"idle", "close", "forget", "unflag", "check", "checked", "take", "flush",
           "send", "read", "reading", "given", "lost", "enter", "test", "open", "flag",
           "ident", "again", "connected", "connection", "announce", "write", "lock",
           "multi"}

\* Where a method goes on after a call.
ReturnPlaces == {"checked", "lost", "ident", "again", "enter", "announce", "multi"}

SocketStates == [state : {"up", "dropped", "closed"}, late : BOOLEAN,
                 arrived : Seq(Threads \cup {Late}), owed : Seq(Threads \cup {Late})]
Locks == [owner : Threads \cup {None}, depth : Nat]
Frames == [pc : Labels, stack : Seq(ReturnPlaces), on : Sockets \cup {None},
           got : Threads \cup {Late, None}, result : BOOLEAN, more : 0 .. 2]

\* Types; a lock is free exactly when its depth is 0.
TypeOK ==
  /\ is_connected \in BOOLEAN /\ conn \in Sockets \cup {None}
  /\ sockets \in [Sockets -> SocketStates]
  /\ \A lock \in {lineLock, accessLock} :
       lock \in Locks /\ (lock.owner = None <=> lock.depth = 0)
  /\ last_error \in BOOLEAN /\ registered \in BOOLEAN
  /\ thread \in [Threads -> Frames]
  /\ faults \in 0 .. MaxFaults /\ calls \in 0 .. MaxCalls
  /\ attempts \in 0 .. MaxAttempts

\* A thread gets the answer to its own request, unless an earlier answer on
\* the same connection was late: communicate holds _lock from sending the
\* request to receiving the reply.
AnswersMatch ==
  \A t \in Threads :
    At(t, "given") /\ thread[t].on # None /\ thread[t].got # t
      => sockets[thread[t].on].late

\* With one thread besides the poll thread, there is at most one open connection
\* to the device, when an identification is configured and reconnect is not called:
\* connectStart is reached by one thread at a time, and only after closeConnection,
\* and a thread having made a connection waits for _lock to identify it.  Otherwise,
\* and with two of them, a connection replaced may stay open: a thread which has
\* passed check_connection waits for _lock while an other one closes the connection,
\* a new one is made, and only then is_connected is set to False.
OneConnection == \A s \in Referenced : Up(s) => s = conn

\* Between the polls, is_connected tells whether there is a connection, as long
\* as only the poll thread has used the communicator.
FlagTellsConnection ==
  calls = 0 /\ At(Poller, "idle") => (is_connected <=> conn # None)

\* The device is used over one connection, and the poll thread knows about it.
ConnectionKnown == OneConnection /\ FlagTellsConnection

\* Every call comes to an end: _lock and accessLock are got at last.
CallsEnd == \A t \in Threads : []<>At(t, "idle")

\* "self-healing is assured by polling the parameter 'is_connected'"
\* (io.py:237): with faults coming to an end, there is always again a
\* connection for read_is_connected to keep or to make.
HealsByPolling == []<>(is_connected /\ Up(conn))

\* The poll thread alone keeps that promise.
HealsWhenAlone == [](calls = 0) => HealsByPolling

\* "self-healing is assured by polling the parameter 'is_connected'"
\* (io.py:237): hence the poll thread finishes each of its polls.
PollingGoesOn == []<>At(Poller, "idle")

\* "self.is_connected is changed only by self.connectStart or
\* self.closeConnection" (io.py:163): no other step changes is_connected.
ChangedByConnectOrClose ==
  [][is_connected' # is_connected =>
       \E t \in Threads : At(t, "flag") \/ At(t, "unflag")]_vars

\* "we do not try to reconnect more often than pollinterval" (io.py:198):
\* check_connection tries at most once per pollinterval.
AtMostOneAttempt == attempts <= 1

\* "if the callback fails or returns False, it is cleared" (io.py:207):
\* trigger_all, which does neither, stays registered by callCallbacks.
CallbackStays == registered
=============================================================================
