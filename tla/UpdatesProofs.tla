---------------------------- MODULE UpdatesProofs ----------------------------
(***************************************************************************)
(* Proofs about Updates, for any number of connections, threads, values    *)
(* and updates.                                                            *)
(***************************************************************************)
EXTENDS Updates, TLAPS

-----------------------------------------------------------------------------
(* The inductive invariant.                                                *)

\* Thread t is between taking and releasing the updateLock.
Updating(t) == thread[t].call \in {"stamp", "error", "broadcast", "send"}

\* The update under way will still be sent to connection c.
Coming(c) ==
  \E t \in Threads :
    \/ thread[t].call \in {"stamp", "error", "broadcast"}
    \/ thread[t].call = "send" /\ c \in thread[t].todo

\* Connection c has been sent the newest update, or an update follows.
Reached(c) == covered[c] = timestamp \/ Coming(c)

\* One thread updates at a time.
Locked == \A t \in Threads : Updating(t) => updateLock = t

\* A thread without an operation calls nothing; a request to activate does
\* not update.
Framed ==
  \A t \in Threads :
    /\ thread[t].op = "none" => thread[t].call = "none"
    /\ thread[t].op = "activate" =>
         /\ thread[t].call = "none"
         /\ thread[t].at \notin {"none", "access", "unlock", "done"}

\* What is sent to the listeners is what the parameter is now.
Sending ==
  \A t \in Threads :
    thread[t].call = "send" => thread[t].item = Current /\ thread[t].stamp = timestamp

\* An update event not yet sent is newer than the ones sent.
Ordered ==
  \A c \in Conns :
    /\ ordered[c] \in Nat /\ ordered[c] <= timestamp
    /\ \A t \in Threads :
         \/ thread[t].call \in {"error", "broadcast"}
         \/ thread[t].call = "send" /\ c \in thread[t].todo
         => ordered[c] < timestamp

\* What the request to activate of connection c has read is still true, or an
\* update follows: it was subscribed before.
Activating(c) ==
  CASE thread[c].at = "error" -> TRUE
    [] thread[c].at = "errorname" -> readerror # None \/ Reached(c)
    [] thread[c].at = "value" -> readerror = None \/ Reached(c)
    [] thread[c].at = "stamp" -> thread[c].item = Current \/ Reached(c)
    [] thread[c].at = "snapshot" ->
         (thread[c].item = Current /\ thread[c].stamp = timestamp) \/ Reached(c)
    [] OTHER -> Reached(c)

Informed(c) ==
  c \in open /\ active[c] # {} =>
    IF thread[c].op = "activate" THEN Activating(c) ELSE Reached(c)

Subscribed == \A c \in Conns : Informed(c)

\* An update event which was the last message has not been overtaken.
NotStale(c) ==
  c \in open /\ active[c] # {} /\ covered[c] = timestamp /\ last[c].kind = "update" =>
    last[c].item = Current \/ Coming(c)

Shown == \A c \in Conns : NotStale(c)

Inv == TypeOK /\ Locked /\ Framed /\ Sending /\ Ordered /\ Subscribed /\ Shown
-----------------------------------------------------------------------------
(* Types.                                                                  *)

\* the frame of a caller of announceUpdate
LEMMA CallingTyped ==
  ASSUME NEW frame \in Frames, NEW item \in Items
  PROVE  LET new == Calling(frame, item) IN
         /\ new \in Frames
         /\ new.op = frame.op /\ new.at = frame.at /\ new.call = "enter"
         /\ new.err = None => new.item \in Values
<1> DEFINE i == IF item \in Errors THEN None ELSE item
           e == IF item \in Errors THEN item ELSE None
<1>1. i \in Items \cup {None} /\ e \in Errors \cup {None} /\ (e = None => i \in Values)
  BY ValuesAssumption DEF Items
<1>2. PICK failed \in BOOLEAN : failed <=> item \in Errors
  OBVIOUS
<1>3. Calling(frame, item) = [frame EXCEPT !.call = "enter", !.item = i, !.err = e,
                                          !.failed = failed]
  BY <1>2 DEF Calling
<1> HIDE DEF i, e
<1> QED
  BY <1>1, <1>3 DEF Frames

\* a thread going on with frame f
LEMMA FrameTyped ==
  ASSUME TypeOK, NEW t \in Threads, NEW f \in Frames,
         thread' = [thread EXCEPT ![t] = f],
         t \in Updaters => f.op \in {"none", "set", "read"} /\ f.at \in {"none", "access", "unlock", "done"},
         f.call = "enter" /\ f.err = None => f.item \in Values
  PROVE  /\ thread' \in [Threads -> Frames]
         /\ \A u \in Updaters :
              /\ thread'[u].op \in {"none", "set", "read"}
              /\ thread'[u].at \in {"none", "access", "unlock", "done"}
         /\ \A u \in Threads :
              thread'[u].call = "enter" /\ thread'[u].err = None => thread'[u].item \in Values
BY DEF TypeOK, Threads

\* the message a client gets
LEMMA SendTyped ==
  ASSUME TypeOK, NEW c \in Conns, NEW message \in Messages, Send(c, message)
  PROVE  /\ last' \in [Conns -> Messages] /\ covered' \in [Conns -> Int]
         /\ ordered' \in [Conns -> Nat \cup {Overtaken}]
BY DEF TypeOK, Send, Messages

LEMMA TypeStep == TypeOK /\ [Next]_vars => TypeOK'
<1> SUFFICES ASSUME TypeOK, [Next]_vars PROVE TypeOK'
  OBVIOUS
<1> USE ValuesAssumption, ThreadsAssumption
    DEF TypeOK, Frames, Items, Threads, Operations, Labels, Scopes, vars, param, locks, clients
<1>1. CASE UNCHANGED vars
  BY <1>1
<1>2. ASSUME NEW t \in Threads, NEW recent \in BOOLEAN, Enter(t, recent) PROVE TypeOK'
  <2>1. thread' \in [Threads -> Frames]
    BY <1>2 DEF Enter, Returned
  <2>2. \A u \in Updaters : thread'[u].op \in {"none", "set", "read"} /\ thread'[u].at \in {"none", "access", "unlock", "done"}
    BY <1>2 DEF Enter, Returned
  <2>3. \A u \in Threads : thread'[u].call = "enter" /\ thread'[u].err = None => thread'[u].item \in Values
    BY <1>2 DEF Enter, Returned
  <2>4. active' \in [Conns -> SUBSET Scopes]
    BY <1>2 DEF Enter, Returned
  <2> QED
    BY <1>2, <2>1, <2>2, <2>3, <2>4 DEF Enter, Returned
<1>3. ASSUME NEW t \in Threads, SetTimestamp(t) PROVE TypeOK'
  BY <1>3 DEF SetTimestamp
<1>4. ASSUME NEW t \in Threads, SetReadError(t) PROVE TypeOK'
  BY <1>4 DEF SetReadError
<1>5. ASSUME NEW t \in Threads, Broadcast(t) PROVE TypeOK'
  <2>1. Current \in Items /\ Listeners \subseteq Conns
    BY DEF Current, Listeners
  <2> DEFINE item == Current
             todo == Listeners
             frame == [thread[t] EXCEPT !.call = "send", !.todo = todo,
                                        !.item = item, !.stamp = timestamp]
  <2>2. thread' = [thread EXCEPT ![t] = frame]
    BY <1>5 DEF Broadcast
  <2> HIDE DEF item, todo
  <2>3. /\ thread[t] \in Frames /\ timestamp \in Nat
        /\ item \in Items \cup {None} /\ todo \in SUBSET Conns
    BY <2>1 DEF item, todo
  <2>4. /\ frame \in Frames /\ frame.op = thread[t].op /\ frame.at = thread[t].at
        /\ frame.call = "send"
    <3> HIDE DEF TypeOK, Items, Threads, Operations, Labels
    <3> QED
      BY <2>3
  <2> HIDE DEF frame
  <2>5. /\ thread' \in [Threads -> Frames]
        /\ \A u \in Updaters :
             /\ thread'[u].op \in {"none", "set", "read"}
             /\ thread'[u].at \in {"none", "access", "unlock", "done"}
        /\ \A u \in Threads :
             thread'[u].call = "enter" /\ thread'[u].err = None => thread'[u].item \in Values
    BY <2>2, <2>4, FrameTyped
  <2> QED
    BY <1>5, <2>5 DEF Broadcast
<1>6. ASSUME NEW t \in Threads, NEW c \in Conns, SendUpdate(t, c) PROVE TypeOK'
  <2>1. thread[t].item \in Items \cup {None} /\ thread[t].stamp \in Nat
    OBVIOUS
  <2>2. last' \in [Conns -> Messages] /\ covered' \in [Conns -> Int] /\ ordered' \in [Conns -> Nat \cup {Overtaken}]
    BY <1>6, <2>1, SendTyped DEF SendUpdate, Messages
  <2> QED
    BY <1>6, <2>2 DEF SendUpdate
<1>7. ASSUME NEW t \in Threads, Leave(t) PROVE TypeOK'
  BY <1>7 DEF Leave, Returned
<1>8. ASSUME NEW t \in Threads, NEW result \in Items, ReadHardware(t, result) PROVE TypeOK'
  <2>1. [thread[t] EXCEPT !.at = "unlock"] \in Frames
    OBVIOUS
  <2>2. Calling([thread[t] EXCEPT !.at = "unlock"], result) \in Frames
    BY <2>1, CallingTyped
  <2> DEFINE frame == Calling([thread[t] EXCEPT !.at = "unlock"], result)
  <2>3. /\ frame.op = thread[t].op /\ frame.at = "unlock"
        /\ frame.err = None => frame.item \in Values
    BY <2>1, CallingTyped
  <2> HIDE DEF frame
  <2>4. frame \in Frames
    BY <2>2 DEF frame
  <2>5. thread' = [thread EXCEPT ![t] = frame]
    BY <1>8 DEF ReadHardware, frame
  <2>6. t \in Updaters => thread[t].op = "read"
    BY <1>8 DEF ReadHardware
  <2>7. /\ thread' \in [Threads -> Frames]
        /\ \A u \in Updaters :
             /\ thread'[u].op \in {"none", "set", "read"}
             /\ thread'[u].at \in {"none", "access", "unlock", "done"}
        /\ \A u \in Threads :
             thread'[u].call = "enter" /\ thread'[u].err = None => thread'[u].item \in Values
    BY <2>3, <2>4, <2>5, <2>6, FrameTyped
  <2> QED
    BY <1>8, <2>7 DEF ReadHardware
<1>9. ASSUME NEW t \in Threads, NEW result \in Items, WriteHardware(t, result) PROVE TypeOK'
  <2>1. [thread[t] EXCEPT !.at = "unlock"] \in Frames
    OBVIOUS
  <2>2. Calling([thread[t] EXCEPT !.at = "unlock"], result) \in Frames
    BY <2>1, CallingTyped
  <2> DEFINE frame == Calling([thread[t] EXCEPT !.at = "unlock"], result)
  <2>3. /\ frame.op = thread[t].op /\ frame.at = "unlock"
        /\ frame.err = None => frame.item \in Values
    BY <2>1, CallingTyped
  <2> HIDE DEF frame
  <2>4. frame \in Frames
    BY <2>2 DEF frame
  <2>5. t \notin Updaters
    BY <1>9 DEF WriteHardware
  <2>6. /\ thread' \in [Threads -> Frames]
        /\ \A u \in Updaters :
             /\ thread'[u].op \in {"none", "set", "read"}
             /\ thread'[u].at \in {"none", "access", "unlock", "done"}
        /\ \A u \in Threads :
             thread'[u].call = "enter" /\ thread'[u].err = None => thread'[u].item \in Values
    <3>1. CASE result \in Errors
      <4>0. PICK failed \in BOOLEAN : failed = TRUE
        OBVIOUS
      <4> DEFINE kept == [thread[t] EXCEPT !.at = "unlock", !.failed = failed]
      <4>1. kept \in Frames /\ kept.call = thread[t].call
        <5>1. thread[t] \in Frames
          OBVIOUS
        <5> HIDE DEF TypeOK, Items, Threads, Operations
        <5> QED
          BY <5>1
      <4>2. thread' = [thread EXCEPT ![t] = kept] /\ thread[t].call = "none"
        BY <1>9, <3>1, <4>0 DEF WriteHardware, At
      <4> HIDE DEF kept
      <4> QED
        BY <2>5, <4>1, <4>2, FrameTyped
    <3>2. CASE result \notin Errors
      <4>1. thread' = [thread EXCEPT ![t] = frame]
        BY <1>9, <3>2 DEF WriteHardware, frame
      <4> QED
        BY <2>3, <2>4, <2>5, <4>1, FrameTyped
    <3> QED
      BY <3>1, <3>2
  <2> QED
    BY <1>9, <2>6 DEF WriteHardware
<1>10. ASSUME NEW t \in Threads, ReleaseAccess(t) PROVE TypeOK'
  BY <1>10 DEF ReleaseAccess, At
<1>11. ASSUME NEW t \in Threads, Done(t) PROVE TypeOK'
  BY <1>11 DEF Done, At, NoFrame
<1>12. ASSUME NEW t \in Threads, CheckReadError(t) PROVE TypeOK'
  BY <1>12 DEF CheckReadError, At
<1>13. ASSUME NEW t \in Threads, GetReadError(t) PROVE TypeOK'
  BY <1>13 DEF GetReadError, At
<1>14. ASSUME NEW t \in Threads, GetValue(t) PROVE TypeOK'
  BY <1>14 DEF GetValue, At
<1>15. ASSUME NEW t \in Threads, GetTimestamp(t) PROVE TypeOK'
  BY <1>15 DEF GetTimestamp, At
<1>16. ASSUME NEW t \in Threads, SendSnapshot(t) PROVE TypeOK'
  BY <1>16 DEF SendSnapshot, At, Send, Current, Messages, Overtaken
<1>17. ASSUME NEW t \in Threads, ReleaseDispatcher(t) PROVE TypeOK'
  BY <1>17 DEF ReleaseDispatcher, At
<1>18. ASSUME NEW t \in Threads, Reply(t) PROVE TypeOK'
  BY <1>18 DEF Reply, At, Send, Current, NoMessage, NoFrame, Messages, Overtaken
<1>19. ASSUME NEW t \in Updaters, Read(t) PROVE TypeOK'
  BY <1>19 DEF Read, Begin, NoFrame
<1>20. ASSUME NEW t \in Updaters, NEW v \in Values, Assign(t, v) PROVE TypeOK'
  <2> DEFINE begun == [NoFrame EXCEPT !.op = "set", !.at = "done"]
             frame == Calling(begun, v)
  <2>1. begun \in Frames /\ begun.op = "set" /\ begun.at = "done"
    BY DEF NoFrame
  <2>2. /\ frame \in Frames /\ frame.op = "set" /\ frame.at = "done"
        /\ frame.err = None => frame.item \in Values
    <3> HIDE DEF begun
    <3>1. v \in Items
      OBVIOUS
    <3> QED
      BY <2>1, <3>1, CallingTyped
  <2>3. thread' = [thread EXCEPT ![t] = frame]
    BY <1>20 DEF Assign
  <2> HIDE DEF frame
  <2> QED
    BY <1>20, <2>2, <2>3 DEF Assign
<1>21. ASSUME NEW c \in Conns, ReadRequest(c) PROVE TypeOK'
  BY <1>21 DEF ReadRequest, Request, Begin, NoFrame
<1>22. ASSUME NEW c \in Conns, ChangeRequest(c) PROVE TypeOK'
  BY <1>22 DEF ChangeRequest, Request, Begin, NoFrame
<1>23. ASSUME NEW c \in Conns, Ident(c) PROVE TypeOK'
  BY <1>23 DEF Ident, Request, Begin, NoFrame
<1>24. ASSUME NEW c \in Conns, Close(c) PROVE TypeOK'
  BY <1>24 DEF Close
<1>25. ASSUME NEW c \in Conns, NEW scope \in Scopes, Activate(c, scope) PROVE TypeOK'
  <2>1. thread' \in [Threads -> Frames]
    BY <1>25 DEF Activate, Request, Begin, NoFrame
  <2>2. \A u \in Updaters : thread'[u].op \in {"none", "set", "read"} /\ thread'[u].at \in {"none", "access", "unlock", "done"}
    BY <1>25 DEF Activate, Request, Begin, NoFrame
  <2>3. \A u \in Threads : thread'[u].call = "enter" /\ thread'[u].err = None => thread'[u].item \in Values
    BY <1>25 DEF Activate, Request, Begin, NoFrame
  <2>4. active' \in [Conns -> SUBSET Scopes]
    BY <1>25 DEF Activate, Request, Begin, NoFrame
  <2> QED
    BY <1>25, <2>1, <2>2, <2>3, <2>4 DEF Activate, Request, Begin, NoFrame
<1>26. ASSUME NEW c \in Conns, NEW scope \in Scopes, Deactivate(c, scope) PROVE TypeOK'
  <2>1. thread' \in [Threads -> Frames]
    BY <1>26 DEF Deactivate, Request, Begin, NoFrame
  <2>2. \A u \in Updaters : thread'[u].op \in {"none", "set", "read"} /\ thread'[u].at \in {"none", "access", "unlock", "done"}
    BY <1>26 DEF Deactivate, Request, Begin, NoFrame
  <2>3. \A u \in Threads : thread'[u].call = "enter" /\ thread'[u].err = None => thread'[u].item \in Values
    BY <1>26 DEF Deactivate, Request, Begin, NoFrame
  <2>4. active' \in [Conns -> SUBSET Scopes]
    BY <1>26 DEF Deactivate, Request, Begin, NoFrame
  <2> QED
    BY <1>26, <2>1, <2>2, <2>3, <2>4 DEF Deactivate, Request, Begin, NoFrame
<1> HIDE DEF TypeOK, Frames, Items, Threads, Operations, Labels, Scopes, vars, param, locks, clients
<1>27. ASSUME NEW t \in Threads, AnnounceUpdate(t) PROVE TypeOK'
  BY <1>2, <1>3, <1>4, <1>5, <1>6, <1>7, <1>27 DEF AnnounceUpdate
<1>28. ASSUME NEW t \in Threads, Proceed(t) PROVE TypeOK'
  BY <1>8, <1>9, <1>10, <1>11, <1>12, <1>13, <1>14, <1>15, <1>16, <1>17, <1>18, <1>27, <1>28 DEF Proceed
<1> QED
  BY <1>1, <1>19, <1>20, <1>21, <1>22, <1>23, <1>24, <1>25, <1>26, <1>28 DEF Next

\* announceUpdate returns at once and nothing has changed, or it takes the lock
LEMMA EnterTwice ==
  ASSUME TypeOK, NEW t \in Threads, NEW recent \in BOOLEAN, Enter(t, recent)
  PROVE  /\ thread[t].call = "enter" /\ updateLock = None
         /\ UNCHANGED <<readerror, timestamp, open, active, last, covered, ordered>>
         /\ \/ /\ thread' = [thread EXCEPT ![t].call = "none"]
               /\ UNCHANGED <<value, updateLock>>
            \/ /\ thread' = [thread EXCEPT ![t].call = "stamp"]
               /\ updateLock' = t
<1> DEFINE changed == value # thread[t].item \/ readerror # None
           omit == IF thread[t].err = None THEN ~changed /\ recent ELSE thread[t].err = readerror
<1>1. /\ thread[t].call = "enter" /\ updateLock = None
      /\ UNCHANGED <<readerror, timestamp, open, active, last, covered, ordered>>
      /\ value' = IF thread[t].err = None THEN thread[t].item ELSE value
  BY DEF Enter, clients
<1>2. CASE omit
  <2>1. thread' = [thread EXCEPT ![t].call = "none"] /\ UNCHANGED updateLock
    BY <1>2 DEF Enter, Returned
  <2>2. UNCHANGED value
    BY <1>1, <1>2
  <2> QED
    BY <1>1, <2>1, <2>2
<1>3. CASE ~omit
  <2>1. thread' = [thread EXCEPT ![t].call = "stamp"] /\ updateLock' = t
    BY <1>3 DEF Enter
  <2> QED
    BY <1>1, <2>1
<1> QED
  BY <1>2, <1>3

\* One thread updates at a time.
LEMMA LockedStep == Inv /\ [Next]_vars => Locked'
<1> SUFFICES ASSUME Inv, [Next]_vars PROVE Locked'
  OBVIOUS
<1>0. /\ TypeOK /\ thread \in [Threads -> Frames]
      /\ \A t \in Conns \cup Updaters : t \in Threads
      /\ None \notin Threads
      /\ Locked /\ Framed
  BY ThreadsAssumption DEF Inv, TypeOK, Threads
<1> USE ThreadsAssumption DEF vars, param, locks, clients
<1>1. CASE UNCHANGED vars
  BY <1>0, <1>1 DEF Locked, Updating
<1>2. ASSUME NEW t \in Threads, NEW recent \in BOOLEAN, Enter(t, recent) PROVE Locked'
  <2>0. /\ thread[t].call = "enter" /\ updateLock = None
        /\ UNCHANGED <<readerror, timestamp, open, active, last, covered, ordered>>
    BY <1>0, <1>2, EnterTwice
  <2>1. CASE thread' = [thread EXCEPT ![t].call = "none"] /\ UNCHANGED <<value, updateLock>>
    BY <1>0, <2>0, <2>1 DEF Locked, Updating
  <2>2. CASE thread' = [thread EXCEPT ![t].call = "stamp"] /\ updateLock' = t
    BY <1>0, <2>0, <2>2 DEF Locked, Updating
  <2> QED
    BY <1>0, <1>2, <2>1, <2>2, EnterTwice
<1>3. ASSUME NEW t \in Threads, SetTimestamp(t) PROVE Locked'
  BY <1>0, <1>3 DEF SetTimestamp, Locked, Updating
<1>4. ASSUME NEW t \in Threads, SetReadError(t) PROVE Locked'
  BY <1>0, <1>4 DEF SetReadError, Locked, Updating
<1>5. ASSUME NEW t \in Threads, Broadcast(t) PROVE Locked'
  BY <1>0, <1>5 DEF Broadcast, Locked, Updating
<1>6. ASSUME NEW t \in Threads, NEW c \in Conns, SendUpdate(t, c) PROVE Locked'
  BY <1>0, <1>6 DEF SendUpdate, Send, Current, Messages, Overtaken, Locked, Updating
<1>7. ASSUME NEW t \in Threads, Leave(t) PROVE Locked'
  BY <1>0, <1>7 DEF Leave, Returned, Locked, Updating
<1>8. ASSUME NEW t \in Threads, NEW result \in Items, ReadHardware(t, result) PROVE Locked'
  BY <1>0, <1>8 DEF ReadHardware, At, Calling, Locked, Updating
<1>9. ASSUME NEW t \in Threads, NEW result \in Items, WriteHardware(t, result) PROVE Locked'
  BY <1>0, <1>9 DEF WriteHardware, At, Calling, Locked, Updating
<1>10. ASSUME NEW t \in Threads, ReleaseAccess(t) PROVE Locked'
  BY <1>0, <1>10 DEF ReleaseAccess, At, Locked, Updating
<1>11. ASSUME NEW t \in Threads, Done(t) PROVE Locked'
  BY <1>0, <1>11 DEF Done, At, NoFrame, Locked, Updating
<1>12. ASSUME NEW t \in Threads, CheckReadError(t) PROVE Locked'
  BY <1>0, <1>12 DEF CheckReadError, At, Locked, Updating
<1>13. ASSUME NEW t \in Threads, GetReadError(t) PROVE Locked'
  BY <1>0, <1>13 DEF GetReadError, At, Locked, Updating
<1>14. ASSUME NEW t \in Threads, GetValue(t) PROVE Locked'
  BY <1>0, <1>14 DEF GetValue, At, Locked, Updating
<1>15. ASSUME NEW t \in Threads, GetTimestamp(t) PROVE Locked'
  BY <1>0, <1>15 DEF GetTimestamp, At, Locked, Updating
<1>16. ASSUME NEW t \in Threads, SendSnapshot(t) PROVE Locked'
  BY <1>0, <1>16 DEF SendSnapshot, At, Send, Current, Messages, Overtaken, Locked, Updating
<1>17. ASSUME NEW t \in Threads, ReleaseDispatcher(t) PROVE Locked'
  BY <1>0, <1>17 DEF ReleaseDispatcher, At, Locked, Updating
<1>18. ASSUME NEW t \in Threads, Reply(t) PROVE Locked'
  BY <1>0, <1>18 DEF Reply, At, Send, Current, NoMessage, NoFrame, Messages, Overtaken, Locked, Updating
<1>19. ASSUME NEW t \in Updaters, Read(t) PROVE Locked'
  BY <1>0, <1>19 DEF Read, Begin, NoFrame, Locked, Updating
<1>20. ASSUME NEW t \in Updaters, NEW v \in Values, Assign(t, v) PROVE Locked'
  BY <1>0, <1>20 DEF Assign, Calling, NoFrame, Locked, Updating
<1>21. ASSUME NEW c \in Conns, ReadRequest(c) PROVE Locked'
  BY <1>0, <1>21 DEF ReadRequest, Request, Begin, NoFrame, Locked, Updating
<1>22. ASSUME NEW c \in Conns, ChangeRequest(c) PROVE Locked'
  BY <1>0, <1>22 DEF ChangeRequest, Request, Begin, NoFrame, Locked, Updating
<1>23. ASSUME NEW c \in Conns, Ident(c) PROVE Locked'
  BY <1>0, <1>23 DEF Ident, Request, Begin, NoFrame, Locked, Updating
<1>24. ASSUME NEW c \in Conns, Close(c) PROVE Locked'
  BY <1>0, <1>24 DEF Close, Locked, Updating
<1>25. ASSUME NEW c \in Conns, NEW scope \in Scopes, Activate(c, scope) PROVE Locked'
  BY <1>0, <1>25 DEF Activate, Request, Begin, NoFrame, Locked, Updating
<1>26. ASSUME NEW c \in Conns, NEW scope \in Scopes, Deactivate(c, scope) PROVE Locked'
  BY <1>0, <1>26 DEF Deactivate, Request, Begin, NoFrame, Locked, Updating
<1>27. ASSUME NEW t \in Threads, AnnounceUpdate(t) PROVE Locked'
  BY <1>2, <1>3, <1>4, <1>5, <1>6, <1>7, <1>27 DEF AnnounceUpdate
<1>28. ASSUME NEW t \in Threads, Proceed(t) PROVE Locked'
  BY <1>8, <1>9, <1>10, <1>11, <1>12, <1>13, <1>14, <1>15, <1>16, <1>17, <1>18, <1>27, <1>28 DEF Proceed
<1> QED
  BY <1>1, <1>19, <1>20, <1>21, <1>22, <1>23, <1>24, <1>25, <1>26, <1>28 DEF Next

\* Threads without an operation, and those activating.
LEMMA FramedStep == Inv /\ [Next]_vars => Framed'
<1> SUFFICES ASSUME Inv, [Next]_vars PROVE Framed'
  OBVIOUS
<1>0. /\ TypeOK /\ thread \in [Threads -> Frames]
      /\ \A t \in Conns \cup Updaters : t \in Threads
      /\ None \notin Threads
      /\ Locked /\ Framed
  BY ThreadsAssumption DEF Inv, TypeOK, Threads
<1> USE ThreadsAssumption DEF vars, param, locks, clients
<1>1. CASE UNCHANGED vars
  BY <1>0, <1>1 DEF Framed
<1>2. ASSUME NEW t \in Threads, NEW recent \in BOOLEAN, Enter(t, recent) PROVE Framed'
  <2>0. /\ thread[t].call = "enter" /\ updateLock = None
        /\ UNCHANGED <<readerror, timestamp, open, active, last, covered, ordered>>
    BY <1>0, <1>2, EnterTwice
  <2>1. CASE thread' = [thread EXCEPT ![t].call = "none"] /\ UNCHANGED <<value, updateLock>>
    BY <1>0, <2>0, <2>1 DEF Framed
  <2>2. CASE thread' = [thread EXCEPT ![t].call = "stamp"] /\ updateLock' = t
    BY <1>0, <2>0, <2>2 DEF Framed
  <2> QED
    BY <1>0, <1>2, <2>1, <2>2, EnterTwice
<1>3. ASSUME NEW t \in Threads, SetTimestamp(t) PROVE Framed'
  BY <1>0, <1>3 DEF SetTimestamp, Framed
<1>4. ASSUME NEW t \in Threads, SetReadError(t) PROVE Framed'
  BY <1>0, <1>4 DEF SetReadError, Framed
<1>5. ASSUME NEW t \in Threads, Broadcast(t) PROVE Framed'
  BY <1>0, <1>5 DEF Broadcast, Framed
<1>6. ASSUME NEW t \in Threads, NEW c \in Conns, SendUpdate(t, c) PROVE Framed'
  BY <1>0, <1>6 DEF SendUpdate, Send, Current, Messages, Overtaken, Framed
<1>7. ASSUME NEW t \in Threads, Leave(t) PROVE Framed'
  BY <1>0, <1>7 DEF Leave, Returned, Framed
<1>8. ASSUME NEW t \in Threads, NEW result \in Items, ReadHardware(t, result) PROVE Framed'
  BY <1>0, <1>8 DEF ReadHardware, At, Calling, Framed
<1>9. ASSUME NEW t \in Threads, NEW result \in Items, WriteHardware(t, result) PROVE Framed'
  BY <1>0, <1>9 DEF WriteHardware, At, Calling, Framed
<1>10. ASSUME NEW t \in Threads, ReleaseAccess(t) PROVE Framed'
  BY <1>0, <1>10 DEF ReleaseAccess, At, Framed
<1>11. ASSUME NEW t \in Threads, Done(t) PROVE Framed'
  BY <1>0, <1>11 DEF Done, At, NoFrame, Framed
<1>12. ASSUME NEW t \in Threads, CheckReadError(t) PROVE Framed'
  BY <1>0, <1>12 DEF CheckReadError, At, Framed
<1>13. ASSUME NEW t \in Threads, GetReadError(t) PROVE Framed'
  BY <1>0, <1>13 DEF GetReadError, At, Framed
<1>14. ASSUME NEW t \in Threads, GetValue(t) PROVE Framed'
  BY <1>0, <1>14 DEF GetValue, At, Framed
<1>15. ASSUME NEW t \in Threads, GetTimestamp(t) PROVE Framed'
  BY <1>0, <1>15 DEF GetTimestamp, At, Framed
<1>16. ASSUME NEW t \in Threads, SendSnapshot(t) PROVE Framed'
  BY <1>0, <1>16 DEF SendSnapshot, At, Send, Current, Messages, Overtaken, Framed
<1>17. ASSUME NEW t \in Threads, ReleaseDispatcher(t) PROVE Framed'
  BY <1>0, <1>17 DEF ReleaseDispatcher, At, Framed
<1>18. ASSUME NEW t \in Threads, Reply(t) PROVE Framed'
  BY <1>0, <1>18 DEF Reply, At, Send, Current, NoMessage, NoFrame, Messages, Overtaken, Framed
<1>19. ASSUME NEW t \in Updaters, Read(t) PROVE Framed'
  BY <1>0, <1>19 DEF Read, Begin, NoFrame, Framed
<1>20. ASSUME NEW t \in Updaters, NEW v \in Values, Assign(t, v) PROVE Framed'
  BY <1>0, <1>20 DEF Assign, Calling, NoFrame, Framed
<1>21. ASSUME NEW c \in Conns, ReadRequest(c) PROVE Framed'
  BY <1>0, <1>21 DEF ReadRequest, Request, Begin, NoFrame, Framed
<1>22. ASSUME NEW c \in Conns, ChangeRequest(c) PROVE Framed'
  BY <1>0, <1>22 DEF ChangeRequest, Request, Begin, NoFrame, Framed
<1>23. ASSUME NEW c \in Conns, Ident(c) PROVE Framed'
  BY <1>0, <1>23 DEF Ident, Request, Begin, NoFrame, Framed
<1>24. ASSUME NEW c \in Conns, Close(c) PROVE Framed'
  BY <1>0, <1>24 DEF Close, Framed
<1>25. ASSUME NEW c \in Conns, NEW scope \in Scopes, Activate(c, scope) PROVE Framed'
  BY <1>0, <1>25 DEF Activate, Request, Begin, NoFrame, Framed
<1>26. ASSUME NEW c \in Conns, NEW scope \in Scopes, Deactivate(c, scope) PROVE Framed'
  BY <1>0, <1>26 DEF Deactivate, Request, Begin, NoFrame, Framed
<1>27. ASSUME NEW t \in Threads, AnnounceUpdate(t) PROVE Framed'
  BY <1>2, <1>3, <1>4, <1>5, <1>6, <1>7, <1>27 DEF AnnounceUpdate
<1>28. ASSUME NEW t \in Threads, Proceed(t) PROVE Framed'
  BY <1>8, <1>9, <1>10, <1>11, <1>12, <1>13, <1>14, <1>15, <1>16, <1>17, <1>18, <1>27, <1>28 DEF Proceed
<1> QED
  BY <1>1, <1>19, <1>20, <1>21, <1>22, <1>23, <1>24, <1>25, <1>26, <1>28 DEF Next

\* What is sent is what the parameter is now.
LEMMA SendingStep == Inv /\ [Next]_vars => Sending'
<1> SUFFICES ASSUME Inv, [Next]_vars PROVE Sending'
  OBVIOUS
<1>0. /\ TypeOK /\ thread \in [Threads -> Frames]
      /\ \A t \in Conns \cup Updaters : t \in Threads
      /\ None \notin Threads
      /\ Locked /\ Framed /\ Sending /\ Ordered
  BY ThreadsAssumption DEF Inv, TypeOK, Threads
<1> USE ThreadsAssumption DEF vars, param, locks, clients
<1>1. CASE UNCHANGED vars
  BY <1>0, <1>1 DEF Sending, Locked, Framed, Updating, Current
<1>2. ASSUME NEW t \in Threads, NEW recent \in BOOLEAN, Enter(t, recent) PROVE Sending'
  <2>0. /\ thread[t].call = "enter" /\ updateLock = None
        /\ UNCHANGED <<readerror, timestamp, open, active, last, covered, ordered>>
    BY <1>0, <1>2, EnterTwice
  <2>1. CASE thread' = [thread EXCEPT ![t].call = "none"] /\ UNCHANGED <<value, updateLock>>
    BY <1>0, <2>0, <2>1 DEF Sending, Locked, Framed, Updating, Current
  <2>2. CASE thread' = [thread EXCEPT ![t].call = "stamp"] /\ updateLock' = t
    BY <1>0, <2>0, <2>2 DEF Sending, Locked, Framed, Updating, Current
  <2> QED
    BY <1>0, <1>2, <2>1, <2>2, EnterTwice
<1>3. ASSUME NEW t \in Threads, SetTimestamp(t) PROVE Sending'
  BY <1>0, <1>3 DEF SetTimestamp, Sending, Locked, Framed, Updating, Current
<1>4. ASSUME NEW t \in Threads, SetReadError(t) PROVE Sending'
  BY <1>0, <1>4 DEF SetReadError, Sending, Locked, Framed, Updating, Current
<1>5. ASSUME NEW t \in Threads, Broadcast(t) PROVE Sending'
  BY <1>0, <1>5 DEF Broadcast, Current, Sending, Locked, Framed, Updating, Current
<1>6. ASSUME NEW t \in Threads, NEW c \in Conns, SendUpdate(t, c) PROVE Sending'
  BY <1>0, <1>6 DEF SendUpdate, Send, Current, Messages, Overtaken, Sending, Locked, Framed, Updating, Current
<1>7. ASSUME NEW t \in Threads, Leave(t) PROVE Sending'
  BY <1>0, <1>7 DEF Leave, Returned, Sending, Locked, Framed, Updating, Current
<1>8. ASSUME NEW t \in Threads, NEW result \in Items, ReadHardware(t, result) PROVE Sending'
  BY <1>0, <1>8 DEF ReadHardware, At, Calling, Sending, Locked, Framed, Updating, Current
<1>9. ASSUME NEW t \in Threads, NEW result \in Items, WriteHardware(t, result) PROVE Sending'
  BY <1>0, <1>9 DEF WriteHardware, At, Calling, Sending, Locked, Framed, Updating, Current
<1>10. ASSUME NEW t \in Threads, ReleaseAccess(t) PROVE Sending'
  BY <1>0, <1>10 DEF ReleaseAccess, At, Sending, Locked, Framed, Updating, Current
<1>11. ASSUME NEW t \in Threads, Done(t) PROVE Sending'
  BY <1>0, <1>11 DEF Done, At, NoFrame, Sending, Locked, Framed, Updating, Current
<1>12. ASSUME NEW t \in Threads, CheckReadError(t) PROVE Sending'
  BY <1>0, <1>12 DEF CheckReadError, At, Sending, Locked, Framed, Updating, Current
<1>13. ASSUME NEW t \in Threads, GetReadError(t) PROVE Sending'
  BY <1>0, <1>13 DEF GetReadError, At, Sending, Locked, Framed, Updating, Current
<1>14. ASSUME NEW t \in Threads, GetValue(t) PROVE Sending'
  BY <1>0, <1>14 DEF GetValue, At, Sending, Locked, Framed, Updating, Current
<1>15. ASSUME NEW t \in Threads, GetTimestamp(t) PROVE Sending'
  BY <1>0, <1>15 DEF GetTimestamp, At, Sending, Locked, Framed, Updating, Current
<1>16. ASSUME NEW t \in Threads, SendSnapshot(t) PROVE Sending'
  BY <1>0, <1>16 DEF SendSnapshot, At, Send, Current, Messages, Overtaken, Sending, Locked, Framed, Updating, Current
<1>17. ASSUME NEW t \in Threads, ReleaseDispatcher(t) PROVE Sending'
  BY <1>0, <1>17 DEF ReleaseDispatcher, At, Sending, Locked, Framed, Updating, Current
<1>18. ASSUME NEW t \in Threads, Reply(t) PROVE Sending'
  BY <1>0, <1>18 DEF Reply, At, Send, Current, NoMessage, NoFrame, Messages, Overtaken, Sending, Locked, Framed, Updating, Current
<1>19. ASSUME NEW t \in Updaters, Read(t) PROVE Sending'
  BY <1>0, <1>19 DEF Read, Begin, NoFrame, Sending, Locked, Framed, Updating, Current
<1>20. ASSUME NEW t \in Updaters, NEW v \in Values, Assign(t, v) PROVE Sending'
  BY <1>0, <1>20 DEF Assign, Calling, NoFrame, Sending, Locked, Framed, Updating, Current
<1>21. ASSUME NEW c \in Conns, ReadRequest(c) PROVE Sending'
  BY <1>0, <1>21 DEF ReadRequest, Request, Begin, NoFrame, Sending, Locked, Framed, Updating, Current
<1>22. ASSUME NEW c \in Conns, ChangeRequest(c) PROVE Sending'
  BY <1>0, <1>22 DEF ChangeRequest, Request, Begin, NoFrame, Sending, Locked, Framed, Updating, Current
<1>23. ASSUME NEW c \in Conns, Ident(c) PROVE Sending'
  BY <1>0, <1>23 DEF Ident, Request, Begin, NoFrame, Sending, Locked, Framed, Updating, Current
<1>24. ASSUME NEW c \in Conns, Close(c) PROVE Sending'
  BY <1>0, <1>24 DEF Close, Sending, Locked, Framed, Updating, Current
<1>25. ASSUME NEW c \in Conns, NEW scope \in Scopes, Activate(c, scope) PROVE Sending'
  BY <1>0, <1>25 DEF Activate, Request, Begin, NoFrame, Sending, Locked, Framed, Updating, Current
<1>26. ASSUME NEW c \in Conns, NEW scope \in Scopes, Deactivate(c, scope) PROVE Sending'
  BY <1>0, <1>26 DEF Deactivate, Request, Begin, NoFrame, Sending, Locked, Framed, Updating, Current
<1>27. ASSUME NEW t \in Threads, AnnounceUpdate(t) PROVE Sending'
  BY <1>2, <1>3, <1>4, <1>5, <1>6, <1>7, <1>27 DEF AnnounceUpdate
<1>28. ASSUME NEW t \in Threads, Proceed(t) PROVE Sending'
  BY <1>8, <1>9, <1>10, <1>11, <1>12, <1>13, <1>14, <1>15, <1>16, <1>17, <1>18, <1>27, <1>28 DEF Proceed
<1> QED
  BY <1>1, <1>19, <1>20, <1>21, <1>22, <1>23, <1>24, <1>25, <1>26, <1>28 DEF Next

\* Newer updates come later.
LEMMA OrderedStep == Inv /\ [Next]_vars => Ordered'
<1> SUFFICES ASSUME Inv, [Next]_vars PROVE Ordered'
  OBVIOUS
<1>0. /\ TypeOK /\ thread \in [Threads -> Frames]
      /\ \A t \in Conns \cup Updaters : t \in Threads
      /\ None \notin Threads
      /\ Locked /\ Framed /\ Sending /\ Ordered
      /\ timestamp \in Nat /\ ordered \in [Conns -> Nat \cup {Overtaken}]
  BY ThreadsAssumption DEF Inv, TypeOK, Threads
<1> USE ThreadsAssumption DEF vars, param, locks, clients
<1>1. CASE UNCHANGED vars
  BY <1>0, <1>1 DEF Sending, Ordered, Locked, Framed, Updating
<1>2. ASSUME NEW t \in Threads, NEW recent \in BOOLEAN, Enter(t, recent) PROVE Ordered'
  <2>0. /\ thread[t].call = "enter" /\ updateLock = None
        /\ UNCHANGED <<readerror, timestamp, open, active, last, covered, ordered>>
    BY <1>0, <1>2, EnterTwice
  <2>1. CASE thread' = [thread EXCEPT ![t].call = "none"] /\ UNCHANGED <<value, updateLock>>
    BY <1>0, <2>0, <2>1 DEF Sending, Ordered, Locked, Framed, Updating
  <2>2. CASE thread' = [thread EXCEPT ![t].call = "stamp"] /\ updateLock' = t
    BY <1>0, <2>0, <2>2 DEF Sending, Ordered, Locked, Framed, Updating
  <2> QED
    BY <1>0, <1>2, <2>1, <2>2, EnterTwice
<1>3. ASSUME NEW t \in Threads, SetTimestamp(t) PROVE Ordered'
  BY <1>0, <1>3 DEF SetTimestamp, Sending, Ordered, Locked, Framed, Updating
<1>4. ASSUME NEW t \in Threads, SetReadError(t) PROVE Ordered'
  BY <1>0, <1>4 DEF SetReadError, Sending, Ordered, Locked, Framed, Updating
<1>5. ASSUME NEW t \in Threads, Broadcast(t) PROVE Ordered'
  BY <1>0, <1>5 DEF Broadcast, Sending, Ordered, Locked, Framed, Updating
<1>6. ASSUME NEW t \in Threads, NEW c \in Conns, SendUpdate(t, c) PROVE Ordered'
  BY <1>0, <1>6 DEF SendUpdate, Send, Sending, Ordered, Locked, Framed, Updating
<1>7. ASSUME NEW t \in Threads, Leave(t) PROVE Ordered'
  BY <1>0, <1>7 DEF Leave, Returned, Sending, Ordered, Locked, Framed, Updating
<1>8. ASSUME NEW t \in Threads, NEW result \in Items, ReadHardware(t, result) PROVE Ordered'
  BY <1>0, <1>8 DEF ReadHardware, At, Calling, Sending, Ordered, Locked, Framed, Updating
<1>9. ASSUME NEW t \in Threads, NEW result \in Items, WriteHardware(t, result) PROVE Ordered'
  BY <1>0, <1>9 DEF WriteHardware, At, Calling, Sending, Ordered, Locked, Framed, Updating
<1>10. ASSUME NEW t \in Threads, ReleaseAccess(t) PROVE Ordered'
  BY <1>0, <1>10 DEF ReleaseAccess, At, Sending, Ordered, Locked, Framed, Updating
<1>11. ASSUME NEW t \in Threads, Done(t) PROVE Ordered'
  BY <1>0, <1>11 DEF Done, At, NoFrame, Sending, Ordered, Locked, Framed, Updating
<1>12. ASSUME NEW t \in Threads, CheckReadError(t) PROVE Ordered'
  BY <1>0, <1>12 DEF CheckReadError, At, Sending, Ordered, Locked, Framed, Updating
<1>13. ASSUME NEW t \in Threads, GetReadError(t) PROVE Ordered'
  BY <1>0, <1>13 DEF GetReadError, At, Sending, Ordered, Locked, Framed, Updating
<1>14. ASSUME NEW t \in Threads, GetValue(t) PROVE Ordered'
  BY <1>0, <1>14 DEF GetValue, At, Sending, Ordered, Locked, Framed, Updating
<1>15. ASSUME NEW t \in Threads, GetTimestamp(t) PROVE Ordered'
  BY <1>0, <1>15 DEF GetTimestamp, At, Sending, Ordered, Locked, Framed, Updating
<1>16. ASSUME NEW t \in Threads, SendSnapshot(t) PROVE Ordered'
  BY <1>0, <1>16 DEF SendSnapshot, At, Send, Sending, Ordered, Locked, Framed, Updating
<1>17. ASSUME NEW t \in Threads, ReleaseDispatcher(t) PROVE Ordered'
  BY <1>0, <1>17 DEF ReleaseDispatcher, At, Sending, Ordered, Locked, Framed, Updating
<1>18. ASSUME NEW t \in Threads, Reply(t) PROVE Ordered'
  BY <1>0, <1>18 DEF Reply, At, Send, NoFrame, NoMessage, Sending, Ordered, Locked, Framed, Updating
<1>19. ASSUME NEW t \in Updaters, Read(t) PROVE Ordered'
  BY <1>0, <1>19 DEF Read, Begin, NoFrame, Sending, Ordered, Locked, Framed, Updating
<1>20. ASSUME NEW t \in Updaters, NEW v \in Values, Assign(t, v) PROVE Ordered'
  BY <1>0, <1>20 DEF Assign, Calling, NoFrame, Sending, Ordered, Locked, Framed, Updating
<1>21. ASSUME NEW c \in Conns, ReadRequest(c) PROVE Ordered'
  BY <1>0, <1>21 DEF ReadRequest, Request, Begin, NoFrame, Sending, Ordered, Locked, Framed, Updating
<1>22. ASSUME NEW c \in Conns, ChangeRequest(c) PROVE Ordered'
  BY <1>0, <1>22 DEF ChangeRequest, Request, Begin, NoFrame, Sending, Ordered, Locked, Framed, Updating
<1>23. ASSUME NEW c \in Conns, Ident(c) PROVE Ordered'
  BY <1>0, <1>23 DEF Ident, Request, Begin, NoFrame, Sending, Ordered, Locked, Framed, Updating
<1>24. ASSUME NEW c \in Conns, Close(c) PROVE Ordered'
  BY <1>0, <1>24 DEF Close, Sending, Ordered, Locked, Framed, Updating
<1>25. ASSUME NEW c \in Conns, NEW scope \in Scopes, Activate(c, scope) PROVE Ordered'
  BY <1>0, <1>25 DEF Activate, Request, Begin, NoFrame, Sending, Ordered, Locked, Framed, Updating
<1>26. ASSUME NEW c \in Conns, NEW scope \in Scopes, Deactivate(c, scope) PROVE Ordered'
  BY <1>0, <1>26 DEF Deactivate, Request, Begin, NoFrame, Sending, Ordered, Locked, Framed, Updating
<1>27. ASSUME NEW t \in Threads, AnnounceUpdate(t) PROVE Ordered'
  BY <1>2, <1>3, <1>4, <1>5, <1>6, <1>7, <1>27 DEF AnnounceUpdate
<1>28. ASSUME NEW t \in Threads, Proceed(t) PROVE Ordered'
  BY <1>8, <1>9, <1>10, <1>11, <1>12, <1>13, <1>14, <1>15, <1>16, <1>17, <1>18, <1>27, <1>28 DEF Proceed
<1> QED
  BY <1>1, <1>19, <1>20, <1>21, <1>22, <1>23, <1>24, <1>25, <1>26, <1>28 DEF Next

\* what is known of a state of the system
LEMMA Known ==
  ASSUME Inv
  PROVE  /\ TypeOK /\ thread \in [Threads -> Frames]
         /\ \A t \in Conns \cup Updaters : t \in Threads
         /\ None \notin Threads /\ timestamp \in Nat
         /\ covered \in [Conns -> Int] /\ active \in [Conns -> SUBSET Scopes]
         /\ last \in [Conns -> Messages] /\ ordered \in [Conns -> Nat \cup {Overtaken}]
         /\ Locked /\ Framed /\ Sending /\ Ordered /\ Subscribed /\ Shown
BY ThreadsAssumption DEF Inv, TypeOK, Threads

\* The parameter stays, or an update comes.
LEMMA ParamStays ==
  ASSUME Inv, [Next]_vars
  PROVE  \/ UNCHANGED <<value, readerror, timestamp>>
         \/ \E t \in Threads : thread'[t].call \in {"stamp", "error", "broadcast"}
<1> DEFINE Goal == \/ UNCHANGED <<value, readerror, timestamp>>
         \/ \E t \in Threads : thread'[t].call \in {"stamp", "error", "broadcast"}
<1> SUFFICES Goal
  OBVIOUS
<1>0. /\ TypeOK /\ thread \in [Threads -> Frames] /\ timestamp \in Nat
      /\ covered \in [Conns -> Int] /\ active \in [Conns -> SUBSET Scopes]
      /\ \A t \in Conns \cup Updaters : t \in Threads
      /\ None \notin Threads /\ Locked /\ Framed /\ Sending
  BY Known
<1> USE ThreadsAssumption DEF vars, param, locks, clients
<1>1. CASE UNCHANGED vars
  BY <1>0, <1>1 DEF Framed
<1>2. ASSUME NEW t \in Threads, NEW recent \in BOOLEAN, Enter(t, recent) PROVE Goal
  <2>0. /\ thread[t].call = "enter" /\ updateLock = None
        /\ UNCHANGED <<readerror, timestamp, open, active, last, covered, ordered>>
    BY <1>0, <1>2, EnterTwice
  <2>1. CASE thread' = [thread EXCEPT ![t].call = "none"] /\ UNCHANGED <<value, updateLock>>
    BY <1>0, <2>0, <2>1 DEF Framed
  <2>2. CASE thread' = [thread EXCEPT ![t].call = "stamp"] /\ updateLock' = t
    BY <1>0, <2>0, <2>2 DEF Framed
  <2> QED
    BY <1>0, <1>2, <2>1, <2>2, EnterTwice
<1>3. ASSUME NEW t \in Threads, SetTimestamp(t) PROVE Goal
  BY <1>0, <1>3 DEF SetTimestamp, Framed
<1>4. ASSUME NEW t \in Threads, SetReadError(t) PROVE Goal
  BY <1>0, <1>4 DEF SetReadError, Framed
<1>5. ASSUME NEW t \in Threads, Broadcast(t) PROVE Goal
  BY <1>0, <1>5 DEF Broadcast, Framed
<1>6. ASSUME NEW t \in Threads, NEW c \in Conns, SendUpdate(t, c) PROVE Goal
  BY <1>0, <1>6 DEF SendUpdate, Framed
<1>7. ASSUME NEW t \in Threads, Leave(t) PROVE Goal
  BY <1>0, <1>7 DEF Leave, Returned, Framed
<1>8. ASSUME NEW t \in Threads, NEW result \in Items, ReadHardware(t, result) PROVE Goal
  BY <1>0, <1>8 DEF ReadHardware, At, Calling, Framed
<1>9. ASSUME NEW t \in Threads, NEW result \in Items, WriteHardware(t, result) PROVE Goal
  BY <1>0, <1>9 DEF WriteHardware, At, Calling, Framed
<1>10. ASSUME NEW t \in Threads, ReleaseAccess(t) PROVE Goal
  BY <1>0, <1>10 DEF ReleaseAccess, At, Framed
<1>11. ASSUME NEW t \in Threads, Done(t) PROVE Goal
  BY <1>0, <1>11 DEF Done, At, NoFrame, Framed
<1>12. ASSUME NEW t \in Threads, CheckReadError(t) PROVE Goal
  BY <1>0, <1>12 DEF CheckReadError, At, Framed
<1>13. ASSUME NEW t \in Threads, GetReadError(t) PROVE Goal
  BY <1>0, <1>13 DEF GetReadError, At, Framed
<1>14. ASSUME NEW t \in Threads, GetValue(t) PROVE Goal
  BY <1>0, <1>14 DEF GetValue, At, Framed
<1>15. ASSUME NEW t \in Threads, GetTimestamp(t) PROVE Goal
  BY <1>0, <1>15 DEF GetTimestamp, At, Framed
<1>16. ASSUME NEW t \in Threads, SendSnapshot(t) PROVE Goal
  BY <1>0, <1>16 DEF SendSnapshot, At, Framed
<1>17. ASSUME NEW t \in Threads, ReleaseDispatcher(t) PROVE Goal
  BY <1>0, <1>17 DEF ReleaseDispatcher, At, Framed
<1>18. ASSUME NEW t \in Threads, Reply(t) PROVE Goal
  BY <1>0, <1>18 DEF Reply, At, Framed
<1>19. ASSUME NEW t \in Updaters, Read(t) PROVE Goal
  BY <1>0, <1>19 DEF Read, Begin, NoFrame, Framed
<1>20. ASSUME NEW t \in Updaters, NEW v \in Values, Assign(t, v) PROVE Goal
  BY <1>0, <1>20 DEF Assign, Calling, NoFrame, Framed
<1>21. ASSUME NEW c \in Conns, ReadRequest(c) PROVE Goal
  BY <1>0, <1>21 DEF ReadRequest, Request, Begin, NoFrame, Framed
<1>22. ASSUME NEW c \in Conns, ChangeRequest(c) PROVE Goal
  BY <1>0, <1>22 DEF ChangeRequest, Request, Begin, NoFrame, Framed
<1>23. ASSUME NEW c \in Conns, Ident(c) PROVE Goal
  BY <1>0, <1>23 DEF Ident, Request, Begin, NoFrame, Framed
<1>24. ASSUME NEW c \in Conns, Close(c) PROVE Goal
  BY <1>0, <1>24 DEF Close, Framed
<1>25. ASSUME NEW c \in Conns, NEW scope \in Scopes, Activate(c, scope) PROVE Goal
  BY <1>0, <1>25 DEF Activate, Request, Begin, NoFrame, Framed
<1>26. ASSUME NEW c \in Conns, NEW scope \in Scopes, Deactivate(c, scope) PROVE Goal
  BY <1>0, <1>26 DEF Deactivate, Request, Begin, NoFrame, Framed
<1>27. ASSUME NEW t \in Threads, AnnounceUpdate(t) PROVE Goal
  BY <1>2, <1>3, <1>4, <1>5, <1>6, <1>7, <1>27 DEF AnnounceUpdate
<1>28. ASSUME NEW t \in Threads, Proceed(t) PROVE Goal
  BY <1>8, <1>9, <1>10, <1>11, <1>12, <1>13, <1>14, <1>15, <1>16, <1>17, <1>18, <1>27, <1>28 DEF Proceed
<1> QED
  BY <1>1, <1>19, <1>20, <1>21, <1>22, <1>23, <1>24, <1>25, <1>26, <1>28 DEF Next

\* An update to come stays so until it is sent.
LEMMA ComingStays ==
  ASSUME Inv, [Next]_vars, NEW c \in Conns, c \in open, active[c] # {}, Coming(c)
  PROVE  Coming(c)' \/ (covered'[c] = timestamp' /\ last'[c].item = Current')
<1> DEFINE Goal == Coming(c)' \/ (covered'[c] = timestamp' /\ last'[c].item = Current')
<1> SUFFICES Goal
  OBVIOUS
<1>0. /\ TypeOK /\ thread \in [Threads -> Frames] /\ timestamp \in Nat
      /\ covered \in [Conns -> Int] /\ active \in [Conns -> SUBSET Scopes]
      /\ \A t \in Conns \cup Updaters : t \in Threads
      /\ None \notin Threads /\ Locked /\ Framed /\ Sending /\ last \in [Conns -> Messages]
  BY Known
<1> USE ThreadsAssumption DEF vars, param, locks, clients
<1>1. CASE UNCHANGED vars
  BY <1>0, <1>1 DEF Coming, Framed, Sending
<1>2. ASSUME NEW t \in Threads, NEW recent \in BOOLEAN, Enter(t, recent) PROVE Goal
  <2>0. /\ thread[t].call = "enter" /\ updateLock = None
        /\ UNCHANGED <<readerror, timestamp, open, active, last, covered, ordered>>
    BY <1>0, <1>2, EnterTwice
  <2>1. CASE thread' = [thread EXCEPT ![t].call = "none"] /\ UNCHANGED <<value, updateLock>>
    BY <1>0, <2>0, <2>1 DEF Coming, Framed, Sending
  <2>2. CASE thread' = [thread EXCEPT ![t].call = "stamp"] /\ updateLock' = t
    BY <1>0, <2>0, <2>2 DEF Coming, Framed, Sending
  <2> QED
    BY <1>0, <1>2, <2>1, <2>2, EnterTwice
<1>3. ASSUME NEW t \in Threads, SetTimestamp(t) PROVE Goal
  BY <1>0, <1>3 DEF SetTimestamp, Coming, Framed, Sending
<1>4. ASSUME NEW t \in Threads, SetReadError(t) PROVE Goal
  BY <1>0, <1>4 DEF SetReadError, Coming, Framed, Sending
<1>5. ASSUME NEW t \in Threads, Broadcast(t) PROVE Goal
  <2>1. c \in Listeners
    BY DEF Listeners
  <2>2. thread'[t].call = "send" /\ thread'[t].todo = Listeners
    BY <1>0, <1>5 DEF Broadcast
  <2> QED
    BY <2>1, <2>2 DEF Coming
<1>6. ASSUME NEW t \in Threads, NEW d \in Conns, SendUpdate(t, d) PROVE Goal
  BY <1>0, <1>6 DEF SendUpdate, Send, Current, Coming, Framed, Sending
<1>7. ASSUME NEW t \in Threads, Leave(t) PROVE Goal
  BY <1>0, <1>7 DEF Leave, Returned, Coming, Framed, Sending
<1>8. ASSUME NEW t \in Threads, NEW result \in Items, ReadHardware(t, result) PROVE Goal
  BY <1>0, <1>8 DEF ReadHardware, At, Calling, Coming, Framed, Sending
<1>9. ASSUME NEW t \in Threads, NEW result \in Items, WriteHardware(t, result) PROVE Goal
  BY <1>0, <1>9 DEF WriteHardware, At, Calling, Coming, Framed, Sending
<1>10. ASSUME NEW t \in Threads, ReleaseAccess(t) PROVE Goal
  BY <1>0, <1>10 DEF ReleaseAccess, At, Coming, Framed, Sending
<1>11. ASSUME NEW t \in Threads, Done(t) PROVE Goal
  BY <1>0, <1>11 DEF Done, At, NoFrame, Coming, Framed, Sending
<1>12. ASSUME NEW t \in Threads, CheckReadError(t) PROVE Goal
  BY <1>0, <1>12 DEF CheckReadError, At, Coming, Framed, Sending
<1>13. ASSUME NEW t \in Threads, GetReadError(t) PROVE Goal
  BY <1>0, <1>13 DEF GetReadError, At, Coming, Framed, Sending
<1>14. ASSUME NEW t \in Threads, GetValue(t) PROVE Goal
  BY <1>0, <1>14 DEF GetValue, At, Coming, Framed, Sending
<1>15. ASSUME NEW t \in Threads, GetTimestamp(t) PROVE Goal
  BY <1>0, <1>15 DEF GetTimestamp, At, Coming, Framed, Sending
<1>16. ASSUME NEW t \in Threads, SendSnapshot(t) PROVE Goal
  BY <1>0, <1>16 DEF SendSnapshot, At, Coming, Framed, Sending
<1>17. ASSUME NEW t \in Threads, ReleaseDispatcher(t) PROVE Goal
  BY <1>0, <1>17 DEF ReleaseDispatcher, At, Coming, Framed, Sending
<1>18. ASSUME NEW t \in Threads, Reply(t) PROVE Goal
  BY <1>0, <1>18 DEF Reply, At, NoFrame, Coming, Framed, Sending
<1>19. ASSUME NEW t \in Updaters, Read(t) PROVE Goal
  BY <1>0, <1>19 DEF Read, Begin, NoFrame, Coming, Framed, Sending
<1>20. ASSUME NEW t \in Updaters, NEW v \in Values, Assign(t, v) PROVE Goal
  BY <1>0, <1>20 DEF Assign, Calling, NoFrame, Coming, Framed, Sending
<1>21. ASSUME NEW d \in Conns, ReadRequest(d) PROVE Goal
  BY <1>0, <1>21 DEF ReadRequest, Request, Begin, NoFrame, Coming, Framed, Sending
<1>22. ASSUME NEW d \in Conns, ChangeRequest(d) PROVE Goal
  BY <1>0, <1>22 DEF ChangeRequest, Request, Begin, NoFrame, Coming, Framed, Sending
<1>23. ASSUME NEW d \in Conns, Ident(d) PROVE Goal
  BY <1>0, <1>23 DEF Ident, Request, Begin, NoFrame, Coming, Framed, Sending
<1>24. ASSUME NEW d \in Conns, Close(d) PROVE Goal
  BY <1>0, <1>24 DEF Close, Coming, Framed, Sending
<1>25. ASSUME NEW d \in Conns, NEW scope \in Scopes, Activate(d, scope) PROVE Goal
  BY <1>0, <1>25 DEF Activate, Request, Begin, NoFrame, Coming, Framed, Sending
<1>26. ASSUME NEW d \in Conns, NEW scope \in Scopes, Deactivate(d, scope) PROVE Goal
  BY <1>0, <1>26 DEF Deactivate, Request, Begin, NoFrame, Coming, Framed, Sending
<1>27. ASSUME NEW t \in Threads, AnnounceUpdate(t) PROVE Goal
  BY <1>2, <1>3, <1>4, <1>5, <1>6, <1>7, <1>27 DEF AnnounceUpdate
<1>28. ASSUME NEW t \in Threads, Proceed(t) PROVE Goal
  BY <1>8, <1>9, <1>10, <1>11, <1>12, <1>13, <1>14, <1>15, <1>16, <1>17, <1>18, <1>27, <1>28 DEF Proceed
<1> QED
  BY <1>1, <1>19, <1>20, <1>21, <1>22, <1>23, <1>24, <1>25, <1>26, <1>28 DEF Next

\* A client which has the newest update keeps up.
LEMMA CoveredStays ==
  ASSUME Inv, [Next]_vars, NEW c \in Conns, active[c] # {}, covered[c] = timestamp
  PROVE  Coming(c)' \/ covered'[c] = timestamp'
<1> DEFINE Goal == Coming(c)' \/ covered'[c] = timestamp'
<1> SUFFICES Goal
  OBVIOUS
<1>0. /\ TypeOK /\ thread \in [Threads -> Frames] /\ timestamp \in Nat
      /\ covered \in [Conns -> Int] /\ active \in [Conns -> SUBSET Scopes]
      /\ \A t \in Conns \cup Updaters : t \in Threads
      /\ None \notin Threads /\ Locked /\ Framed /\ Sending
  BY Known
<1> USE ThreadsAssumption DEF vars, param, locks, clients
<1>1. CASE UNCHANGED vars
  BY <1>0, <1>1 DEF Coming
<1>2. ASSUME NEW t \in Threads, NEW recent \in BOOLEAN, Enter(t, recent) PROVE Goal
  <2>0. /\ thread[t].call = "enter" /\ updateLock = None
        /\ UNCHANGED <<readerror, timestamp, open, active, last, covered, ordered>>
    BY <1>0, <1>2, EnterTwice
  <2>1. CASE thread' = [thread EXCEPT ![t].call = "none"] /\ UNCHANGED <<value, updateLock>>
    BY <1>0, <2>0, <2>1 DEF Coming
  <2>2. CASE thread' = [thread EXCEPT ![t].call = "stamp"] /\ updateLock' = t
    BY <1>0, <2>0, <2>2 DEF Coming
  <2> QED
    BY <1>0, <1>2, <2>1, <2>2, EnterTwice
<1>3. ASSUME NEW t \in Threads, SetTimestamp(t) PROVE Goal
  BY <1>0, <1>3 DEF SetTimestamp, Coming
<1>4. ASSUME NEW t \in Threads, SetReadError(t) PROVE Goal
  BY <1>0, <1>4 DEF SetReadError, Coming
<1>5. ASSUME NEW t \in Threads, Broadcast(t) PROVE Goal
  BY <1>0, <1>5 DEF Broadcast, Coming
<1>6. ASSUME NEW t \in Threads, NEW d \in Conns, SendUpdate(t, d) PROVE Goal
  BY <1>0, <1>6 DEF SendUpdate, Send, Coming
<1>7. ASSUME NEW t \in Threads, Leave(t) PROVE Goal
  BY <1>0, <1>7 DEF Leave, Returned, Coming
<1>8. ASSUME NEW t \in Threads, NEW result \in Items, ReadHardware(t, result) PROVE Goal
  BY <1>0, <1>8 DEF ReadHardware, At, Calling, Coming
<1>9. ASSUME NEW t \in Threads, NEW result \in Items, WriteHardware(t, result) PROVE Goal
  BY <1>0, <1>9 DEF WriteHardware, At, Calling, Coming
<1>10. ASSUME NEW t \in Threads, ReleaseAccess(t) PROVE Goal
  BY <1>0, <1>10 DEF ReleaseAccess, At, Coming
<1>11. ASSUME NEW t \in Threads, Done(t) PROVE Goal
  BY <1>0, <1>11 DEF Done, At, NoFrame, Coming
<1>12. ASSUME NEW t \in Threads, CheckReadError(t) PROVE Goal
  BY <1>0, <1>12 DEF CheckReadError, At, Coming
<1>13. ASSUME NEW t \in Threads, GetReadError(t) PROVE Goal
  BY <1>0, <1>13 DEF GetReadError, At, Coming
<1>14. ASSUME NEW t \in Threads, GetValue(t) PROVE Goal
  BY <1>0, <1>14 DEF GetValue, At, Coming
<1>15. ASSUME NEW t \in Threads, GetTimestamp(t) PROVE Goal
  BY <1>0, <1>15 DEF GetTimestamp, At, Coming
<1>16. ASSUME NEW t \in Threads, SendSnapshot(t) PROVE Goal
  BY <1>0, <1>16 DEF SendSnapshot, At, Send, Coming
<1>17. ASSUME NEW t \in Threads, ReleaseDispatcher(t) PROVE Goal
  BY <1>0, <1>17 DEF ReleaseDispatcher, At, Coming
<1>18. ASSUME NEW t \in Threads, Reply(t) PROVE Goal
  BY <1>0, <1>18 DEF Reply, At, Send, NoFrame, NoMessage, Coming
<1>19. ASSUME NEW t \in Updaters, Read(t) PROVE Goal
  BY <1>0, <1>19 DEF Read, Begin, NoFrame, Coming
<1>20. ASSUME NEW t \in Updaters, NEW v \in Values, Assign(t, v) PROVE Goal
  BY <1>0, <1>20 DEF Assign, Calling, NoFrame, Coming
<1>21. ASSUME NEW d \in Conns, ReadRequest(d) PROVE Goal
  BY <1>0, <1>21 DEF ReadRequest, Request, Begin, NoFrame, Coming
<1>22. ASSUME NEW d \in Conns, ChangeRequest(d) PROVE Goal
  BY <1>0, <1>22 DEF ChangeRequest, Request, Begin, NoFrame, Coming
<1>23. ASSUME NEW d \in Conns, Ident(d) PROVE Goal
  BY <1>0, <1>23 DEF Ident, Request, Begin, NoFrame, Coming
<1>24. ASSUME NEW d \in Conns, Close(d) PROVE Goal
  BY <1>0, <1>24 DEF Close, Coming
<1>25. ASSUME NEW d \in Conns, NEW scope \in Scopes, Activate(d, scope) PROVE Goal
  BY <1>0, <1>25 DEF Activate, Request, Begin, NoFrame, Coming
<1>26. ASSUME NEW d \in Conns, NEW scope \in Scopes, Deactivate(d, scope) PROVE Goal
  BY <1>0, <1>26 DEF Deactivate, Request, Begin, NoFrame, Coming
<1>27. ASSUME NEW t \in Threads, AnnounceUpdate(t) PROVE Goal
  BY <1>2, <1>3, <1>4, <1>5, <1>6, <1>7, <1>27 DEF AnnounceUpdate
<1>28. ASSUME NEW t \in Threads, Proceed(t) PROVE Goal
  BY <1>8, <1>9, <1>10, <1>11, <1>12, <1>13, <1>14, <1>15, <1>16, <1>17, <1>18, <1>27, <1>28 DEF Proceed
<1> QED
  BY <1>1, <1>19, <1>20, <1>21, <1>22, <1>23, <1>24, <1>25, <1>26, <1>28 DEF Next

LEMMA ReachedStays ==
  ASSUME Inv, [Next]_vars, NEW c \in Conns, c \in open, active[c] # {}, Reached(c)
  PROVE  Reached(c)'
BY ComingStays, CoveredStays DEF Reached

\* An update which changes the parameter comes to every client.
LEMMA ComesWhenChanged ==
  ASSUME Inv, [Next]_vars, NEW c \in Conns,
         ~ UNCHANGED <<value, readerror, timestamp>>
  PROVE  Reached(c)'
BY ParamStays DEF Reached, Coming

\* A step which is not one of a request to activate keeps what is known of a
\* connection.
LEMMA OthersStay ==
  ASSUME Inv, [Next]_vars, NEW c \in Conns, open' \subseteq open,
         \/ thread'[c] = thread[c] /\ active'[c] = active[c]
         \/ /\ thread[c].op # "activate" /\ thread'[c].op # "activate"
            /\ active'[c] # {} => active[c] # {}
  PROVE  Informed(c)'
<1> SUFFICES ASSUME c \in open', active'[c] # {}
             PROVE  (IF thread[c].op = "activate" THEN Activating(c) ELSE Reached(c))'
  BY DEF Informed
<1>1. c \in open /\ active[c] # {} /\ Informed(c)
  BY Known DEF Subscribed
<1>2. CASE thread[c].op # "activate"
  <2>1. Reached(c)'
    BY <1>1, <1>2, ReachedStays DEF Informed
  <2> QED
    BY <1>2, <2>1
<1>3. CASE thread[c].op = "activate"
  <2>1. thread'[c] = thread[c] /\ Activating(c)
    BY <1>1, <1>3 DEF Informed
  <2>2. CASE Reached(c)
    BY <1>1, <1>3, <2>1, <2>2, ReachedStays DEF Activating
  <2>3. CASE ~Reached(c)
    <3>1. CASE UNCHANGED <<value, readerror, timestamp>>
      BY <1>3, <2>1, <2>3, <3>1 DEF Activating, Current
    <3>2. CASE ~UNCHANGED <<value, readerror, timestamp>>
      BY <1>3, <2>1, <3>2, ComesWhenChanged DEF Activating
    <3> QED
      BY <3>1, <3>2
  <2> QED
    BY <2>2, <2>3
<1> QED
  BY <1>2, <1>3

LEMMA ReachedInforms ==
  ASSUME Inv, [Next]_vars, NEW c \in Conns, c \in open, active[c] # {}, Reached(c)
  PROVE  Informed(c)'
BY ReachedStays DEF Informed, Activating

\* What a client knows or will be told is kept by every step.
LEMMA SubscribedStep == Inv /\ [Next]_vars => Subscribed'
<1> SUFFICES ASSUME Inv, [Next]_vars, NEW d \in Conns PROVE Informed(d)'
  BY DEF Subscribed
<1> USE ThreadsAssumption DEF vars, param, locks, clients
<1>0. /\ TypeOK /\ thread \in [Threads -> Frames]
      /\ active \in [Conns -> SUBSET Scopes] /\ covered \in [Conns -> Int]
      /\ \A t \in Conns \cup Updaters : t \in Threads
      /\ Framed /\ Informed(d)
  BY Known DEF Subscribed
<1>1. CASE UNCHANGED vars
  BY <1>0, <1>1, OthersStay
<1>2. ASSUME NEW t \in Threads, NEW recent \in BOOLEAN, Enter(t, recent) PROVE Informed(d)'
  <2>0. thread[t].call = "enter" /\ UNCHANGED <<open, active>>
    BY <1>0, <1>2, EnterTwice
  <2>1. CASE thread' = [thread EXCEPT ![t].call = "none"]
    BY <1>0, <2>0, <2>1, OthersStay DEF Framed
  <2>2. CASE thread' = [thread EXCEPT ![t].call = "stamp"]
    BY <1>0, <2>0, <2>2, OthersStay DEF Framed
  <2> QED
    BY <1>0, <1>2, <2>1, <2>2, EnterTwice
<1>3. ASSUME NEW t \in Threads, SetTimestamp(t) PROVE Informed(d)'
  BY <1>0, <1>3, OthersStay DEF SetTimestamp, Framed
<1>4. ASSUME NEW t \in Threads, SetReadError(t) PROVE Informed(d)'
  BY <1>0, <1>4, OthersStay DEF SetReadError, Framed
<1>5. ASSUME NEW t \in Threads, Broadcast(t) PROVE Informed(d)'
  BY <1>0, <1>5, OthersStay DEF Broadcast, Framed
<1>6. ASSUME NEW t \in Threads, NEW c \in Conns, SendUpdate(t, c) PROVE Informed(d)'
  BY <1>0, <1>6, OthersStay DEF SendUpdate, Framed
<1>7. ASSUME NEW t \in Threads, Leave(t) PROVE Informed(d)'
  BY <1>0, <1>7, OthersStay DEF Leave, Returned, Framed
<1>8. ASSUME NEW t \in Threads, NEW result \in Items, ReadHardware(t, result) PROVE Informed(d)'
  BY <1>0, <1>8, OthersStay DEF ReadHardware, At, Calling, Framed
<1>9. ASSUME NEW t \in Threads, NEW result \in Items, WriteHardware(t, result) PROVE Informed(d)'
  BY <1>0, <1>9, OthersStay DEF WriteHardware, At, Calling, Framed
<1>10. ASSUME NEW t \in Threads, ReleaseAccess(t) PROVE Informed(d)'
  BY <1>0, <1>10, OthersStay DEF ReleaseAccess, At, Framed
<1>11. ASSUME NEW t \in Threads, Done(t) PROVE Informed(d)'
  BY <1>0, <1>11, OthersStay DEF Done, At, NoFrame, Framed
<1>12. ASSUME NEW t \in Threads, CheckReadError(t) PROVE Informed(d)'
  <2>1. CASE t = d /\ thread[d].op = "activate"
    <3>1. CASE d \in open /\ active[d] # {} /\ Reached(d)
      BY <3>1, ReachedInforms
    <3>2. CASE d \in open /\ active[d] # {} /\ ~Reached(d)
      BY <1>0, <1>12, <2>1, <3>2 DEF CheckReadError, At, Informed, Activating, Current
    <3>3. CASE d \notin open \/ active[d] = {}
      BY <1>12, <3>3 DEF CheckReadError, Informed
    <3> QED
      BY <3>1, <3>2, <3>3
  <2>2. CASE ~(t = d /\ thread[d].op = "activate")
    BY <1>0, <1>12, <2>2, OthersStay DEF CheckReadError, At
  <2> QED
    BY <2>1, <2>2
<1>13. ASSUME NEW t \in Threads, GetReadError(t) PROVE Informed(d)'
  <2>1. CASE t = d /\ thread[d].op = "activate"
    <3>1. CASE d \in open /\ active[d] # {} /\ Reached(d)
      BY <3>1, ReachedInforms
    <3>2. CASE d \in open /\ active[d] # {} /\ ~Reached(d)
      BY <1>0, <1>13, <2>1, <3>2 DEF GetReadError, At, Informed, Activating, Current
    <3>3. CASE d \notin open \/ active[d] = {}
      BY <1>13, <3>3 DEF GetReadError, Informed
    <3> QED
      BY <3>1, <3>2, <3>3
  <2>2. CASE ~(t = d /\ thread[d].op = "activate")
    BY <1>0, <1>13, <2>2, OthersStay DEF GetReadError, At
  <2> QED
    BY <2>1, <2>2
<1>14. ASSUME NEW t \in Threads, GetValue(t) PROVE Informed(d)'
  <2>1. CASE t = d /\ thread[d].op = "activate"
    <3>1. CASE d \in open /\ active[d] # {} /\ Reached(d)
      BY <3>1, ReachedInforms
    <3>2. CASE d \in open /\ active[d] # {} /\ ~Reached(d)
      BY <1>0, <1>14, <2>1, <3>2 DEF GetValue, At, Informed, Activating, Current
    <3>3. CASE d \notin open \/ active[d] = {}
      BY <1>14, <3>3 DEF GetValue, Informed
    <3> QED
      BY <3>1, <3>2, <3>3
  <2>2. CASE ~(t = d /\ thread[d].op = "activate")
    BY <1>0, <1>14, <2>2, OthersStay DEF GetValue, At
  <2> QED
    BY <2>1, <2>2
<1>15. ASSUME NEW t \in Threads, GetTimestamp(t) PROVE Informed(d)'
  <2>1. CASE t = d /\ thread[d].op = "activate"
    <3>1. CASE d \in open /\ active[d] # {} /\ Reached(d)
      BY <3>1, ReachedInforms
    <3>2. CASE d \in open /\ active[d] # {} /\ ~Reached(d)
      BY <1>0, <1>15, <2>1, <3>2 DEF GetTimestamp, At, Informed, Activating, Current
    <3>3. CASE d \notin open \/ active[d] = {}
      BY <1>15, <3>3 DEF GetTimestamp, Informed
    <3> QED
      BY <3>1, <3>2, <3>3
  <2>2. CASE ~(t = d /\ thread[d].op = "activate")
    BY <1>0, <1>15, <2>2, OthersStay DEF GetTimestamp, At
  <2> QED
    BY <2>1, <2>2
<1>16. ASSUME NEW t \in Threads, SendSnapshot(t) PROVE Informed(d)'
  <2>1. CASE t = d /\ thread[d].op = "activate"
    <3>1. CASE d \in open /\ active[d] # {} /\ Reached(d)
      BY <3>1, ReachedInforms
    <3>2. CASE d \in open /\ active[d] # {} /\ ~Reached(d)
      <4>1. thread[d].item = Current /\ thread[d].stamp = timestamp
        BY <1>0, <1>16, <2>1, <3>2 DEF SendSnapshot, At, Informed, Activating
      <4>2. covered'[d] = timestamp'
        BY <1>0, <1>16, <2>1, <4>1 DEF SendSnapshot, Send
      <4> QED
        BY <4>2 DEF Informed, Activating, Reached
    <3>3. CASE d \notin open \/ active[d] = {}
      BY <1>16, <3>3 DEF SendSnapshot, Informed
    <3> QED
      BY <3>1, <3>2, <3>3
  <2>2. CASE ~(t = d /\ thread[d].op = "activate")
    BY <1>0, <1>16, <2>2, OthersStay DEF SendSnapshot, At
  <2> QED
    BY <2>1, <2>2
<1>17. ASSUME NEW t \in Threads, ReleaseDispatcher(t) PROVE Informed(d)'
  <2>1. CASE t = d /\ thread[d].op = "activate"
    <3>1. CASE d \in open /\ active[d] # {} /\ Reached(d)
      BY <3>1, ReachedInforms
    <3>2. CASE d \in open /\ active[d] # {} /\ ~Reached(d)
      BY <1>0, <1>17, <2>1, <3>2 DEF ReleaseDispatcher, At, Informed, Activating
    <3>3. CASE d \notin open \/ active[d] = {}
      BY <1>17, <3>3 DEF ReleaseDispatcher, Informed
    <3> QED
      BY <3>1, <3>2, <3>3
  <2>2. CASE ~(t = d /\ thread[d].op = "activate")
    BY <1>0, <1>17, <2>2, OthersStay DEF ReleaseDispatcher, At
  <2> QED
    BY <2>1, <2>2
<1>18. ASSUME NEW t \in Threads, Reply(t) PROVE Informed(d)'
  <2>1. CASE t = d /\ thread[d].op = "activate"
    <3>1. CASE d \in open /\ active[d] # {} /\ Reached(d)
      BY <3>1, ReachedInforms
    <3>2. CASE d \in open /\ active[d] # {} /\ ~Reached(d)
      BY <1>0, <1>18, <2>1, <3>2 DEF Reply, At, Informed, Activating
    <3>3. CASE d \notin open \/ active[d] = {}
      BY <1>18, <3>3 DEF Reply, Informed
    <3> QED
      BY <3>1, <3>2, <3>3
  <2>2. CASE ~(t = d /\ thread[d].op = "activate")
    BY <1>0, <1>18, <2>2, OthersStay DEF Reply, At, NoFrame
  <2> QED
    BY <2>1, <2>2
<1>19. ASSUME NEW t \in Updaters, Read(t) PROVE Informed(d)'
  BY <1>0, <1>19, OthersStay DEF Read, Begin, NoFrame, Framed
<1>20. ASSUME NEW t \in Updaters, NEW v \in Values, Assign(t, v) PROVE Informed(d)'
  BY <1>0, <1>20, OthersStay DEF Assign, Calling, NoFrame, Framed
<1>21. ASSUME NEW c \in Conns, ReadRequest(c) PROVE Informed(d)'
  BY <1>0, <1>21, OthersStay DEF ReadRequest, Request, Begin, NoFrame, Framed
<1>22. ASSUME NEW c \in Conns, ChangeRequest(c) PROVE Informed(d)'
  BY <1>0, <1>22, OthersStay DEF ChangeRequest, Request, Begin, NoFrame, Framed
<1>23. ASSUME NEW c \in Conns, Ident(c) PROVE Informed(d)'
  BY <1>0, <1>23, OthersStay DEF Ident, Request, Begin, NoFrame, Framed
<1>24. ASSUME NEW c \in Conns, Close(c) PROVE Informed(d)'
  BY <1>0, <1>24, OthersStay DEF Close, Framed, Informed, Activating
<1>25. ASSUME NEW c \in Conns, NEW scope \in Scopes, Activate(c, scope) PROVE Informed(d)'
  BY <1>0, <1>25, OthersStay DEF Activate, Request, Begin, NoFrame, Framed, Informed, Activating
<1>26. ASSUME NEW c \in Conns, NEW scope \in Scopes, Deactivate(c, scope) PROVE Informed(d)'
  BY <1>0, <1>26, OthersStay DEF Deactivate, Request, Begin, NoFrame, Framed, Informed, Activating
<1>27. ASSUME NEW t \in Threads, AnnounceUpdate(t) PROVE Informed(d)'
  BY <1>2, <1>3, <1>4, <1>5, <1>6, <1>7, <1>27 DEF AnnounceUpdate
<1>28. ASSUME NEW t \in Threads, Proceed(t) PROVE Informed(d)'
  BY <1>8, <1>9, <1>10, <1>11, <1>12, <1>13, <1>14, <1>15, <1>16, <1>17, <1>18, <1>27, <1>28 DEF Proceed
<1> QED
  BY <1>1, <1>19, <1>20, <1>21, <1>22, <1>23, <1>24, <1>25, <1>26, <1>28 DEF Next

LEMMA NotStaleStays ==
  ASSUME Inv, [Next]_vars, NEW c \in Conns, open' \subseteq open,
         active'[c] # {} => active[c] # {},
         last'[c] = last[c], covered'[c] = covered[c]
  PROVE  NotStale(c)'
<1>1. NotStale(c)
  BY Known DEF Shown
<1>2. CASE ~UNCHANGED <<value, readerror, timestamp>>
  BY <1>2, ParamStays DEF NotStale, Coming
<1>3. CASE UNCHANGED <<value, readerror, timestamp>>
  <2>1. CASE c \in open /\ active[c] # {} /\ Coming(c)
    BY <2>1, ComingStays DEF NotStale
  <2>2. CASE ~(c \in open /\ active[c] # {} /\ Coming(c))
    BY <1>1, <1>3, <2>2 DEF NotStale, Current
  <2> QED
    BY <2>1, <2>2
<1> QED
  BY <1>2, <1>3

\* The last update event a client got stays the newest, or an update comes.
LEMMA ShownStep == Inv /\ [Next]_vars => Shown'
<1> SUFFICES ASSUME Inv, [Next]_vars, NEW d \in Conns PROVE NotStale(d)'
  BY DEF Shown
<1> USE ThreadsAssumption DEF vars, param, locks, clients
<1>0. /\ TypeOK /\ active \in [Conns -> SUBSET Scopes] /\ covered \in [Conns -> Int]
      /\ last \in [Conns -> Messages] /\ timestamp \in Nat /\ Sending
  BY Known
<1>1. CASE UNCHANGED vars
  BY <1>1, NotStaleStays
<1>2. ASSUME NEW t \in Threads, NEW recent \in BOOLEAN, Enter(t, recent) PROVE NotStale(d)'
  BY <1>0, <1>2, EnterTwice, NotStaleStays
<1>3. ASSUME NEW t \in Threads, SetTimestamp(t) PROVE NotStale(d)'
  BY <1>3, NotStaleStays DEF SetTimestamp
<1>4. ASSUME NEW t \in Threads, SetReadError(t) PROVE NotStale(d)'
  BY <1>4, NotStaleStays DEF SetReadError
<1>5. ASSUME NEW t \in Threads, Broadcast(t) PROVE NotStale(d)'
  BY <1>5, NotStaleStays DEF Broadcast
<1>6. ASSUME NEW t \in Threads, NEW c \in Conns, SendUpdate(t, c) PROVE NotStale(d)'
  <2>1. CASE c = d /\ c \in open
    BY <1>0, <1>6, <2>1 DEF SendUpdate, Send, Sending, Current, NotStale
  <2>2. CASE ~(c = d /\ c \in open)
    BY <1>0, <1>6, <2>2, NotStaleStays DEF SendUpdate, Send
  <2> QED
    BY <2>1, <2>2
<1>7. ASSUME NEW t \in Threads, Leave(t) PROVE NotStale(d)'
  BY <1>7, NotStaleStays DEF Leave
<1>8. ASSUME NEW t \in Threads, NEW result \in Items, ReadHardware(t, result) PROVE NotStale(d)'
  BY <1>8, NotStaleStays DEF ReadHardware
<1>9. ASSUME NEW t \in Threads, NEW result \in Items, WriteHardware(t, result) PROVE NotStale(d)'
  BY <1>9, NotStaleStays DEF WriteHardware
<1>10. ASSUME NEW t \in Threads, ReleaseAccess(t) PROVE NotStale(d)'
  BY <1>10, NotStaleStays DEF ReleaseAccess
<1>11. ASSUME NEW t \in Threads, Done(t) PROVE NotStale(d)'
  BY <1>11, NotStaleStays DEF Done
<1>12. ASSUME NEW t \in Threads, CheckReadError(t) PROVE NotStale(d)'
  BY <1>12, NotStaleStays DEF CheckReadError
<1>13. ASSUME NEW t \in Threads, GetReadError(t) PROVE NotStale(d)'
  BY <1>13, NotStaleStays DEF GetReadError
<1>14. ASSUME NEW t \in Threads, GetValue(t) PROVE NotStale(d)'
  BY <1>14, NotStaleStays DEF GetValue
<1>15. ASSUME NEW t \in Threads, GetTimestamp(t) PROVE NotStale(d)'
  BY <1>15, NotStaleStays DEF GetTimestamp
<1>16. ASSUME NEW t \in Threads, SendSnapshot(t) PROVE NotStale(d)'
  <2>1. CASE t = d
    BY <1>0, <1>16, <2>1 DEF SendSnapshot, Send, NotStale
  <2>2. CASE ~(t = d)
    BY <1>0, <1>16, <2>2, NotStaleStays DEF SendSnapshot, Send
  <2> QED
    BY <2>1, <2>2
<1>17. ASSUME NEW t \in Threads, ReleaseDispatcher(t) PROVE NotStale(d)'
  BY <1>17, NotStaleStays DEF ReleaseDispatcher
<1>18. ASSUME NEW t \in Threads, Reply(t) PROVE NotStale(d)'
  <2>1. UNCHANGED <<open, active>>
    BY <1>18 DEF Reply
  <2>2. CASE UNCHANGED clients
    BY <2>1, <2>2, NotStaleStays
  <2>3. CASE ~UNCHANGED clients
    <3>1. PICK message : Send(t, message) /\ message.kind = "reply"
      BY <1>18, <2>3 DEF Reply
    <3>2. CASE t = d
      BY <1>0, <3>1, <3>2 DEF Send, NotStale
    <3>3. CASE t # d
      BY <1>0, <2>1, <3>1, <3>3, NotStaleStays DEF Send
    <3> QED
      BY <3>2, <3>3
  <2> QED
    BY <2>2, <2>3
<1>19. ASSUME NEW t \in Updaters, Read(t) PROVE NotStale(d)'
  BY <1>19, NotStaleStays DEF Read
<1>20. ASSUME NEW t \in Updaters, NEW v \in Values, Assign(t, v) PROVE NotStale(d)'
  BY <1>20, NotStaleStays DEF Assign
<1>21. ASSUME NEW c \in Conns, ReadRequest(c) PROVE NotStale(d)'
  BY <1>21, NotStaleStays DEF ReadRequest
<1>22. ASSUME NEW c \in Conns, ChangeRequest(c) PROVE NotStale(d)'
  BY <1>22, NotStaleStays DEF ChangeRequest
<1>23. ASSUME NEW c \in Conns, Ident(c) PROVE NotStale(d)'
  BY <1>0, <1>23, NotStaleStays DEF Ident
<1>24. ASSUME NEW c \in Conns, Close(c) PROVE NotStale(d)'
  BY <1>0, <1>24, NotStaleStays DEF Close
<1>25. ASSUME NEW c \in Conns, NEW scope \in Scopes, Activate(c, scope) PROVE NotStale(d)'
  <2>1. CASE active[d] = {} /\ c = d
    BY <1>0, <1>25, <2>1 DEF Activate, NotStale
  <2>2. CASE ~(active[d] = {} /\ c = d)
    BY <1>0, <1>25, <2>2, NotStaleStays DEF Activate
  <2> QED
    BY <2>1, <2>2
<1>26. ASSUME NEW c \in Conns, NEW scope \in Scopes, Deactivate(c, scope) PROVE NotStale(d)'
  BY <1>0, <1>26, NotStaleStays DEF Deactivate
<1>27. ASSUME NEW t \in Threads, AnnounceUpdate(t) PROVE NotStale(d)'
  BY <1>2, <1>3, <1>4, <1>5, <1>6, <1>7, <1>27 DEF AnnounceUpdate
<1>28. ASSUME NEW t \in Threads, Proceed(t) PROVE NotStale(d)'
  BY <1>8, <1>9, <1>10, <1>11, <1>12, <1>13, <1>14, <1>15, <1>16, <1>17, <1>18, <1>27, <1>28 DEF Proceed
<1> QED
  BY <1>1, <1>19, <1>20, <1>21, <1>22, <1>23, <1>24, <1>25, <1>26, <1>28 DEF Next

-----------------------------------------------------------------------------
(* The theorems.                                                           *)

LEMMA InitInv == Init => Inv
<1> SUFFICES ASSUME Init PROVE Inv
  OBVIOUS
<1> USE ThreadsAssumption DEF Init
<1>1. TypeOK
  BY DEF TypeOK, NoFrame, Frames, Operations, Labels, NoMessage, Messages, Threads
<1>2. \A t \in Threads : thread[t].call = "none" /\ thread[t].op = "none"
  BY DEF NoFrame
<1>3. Locked /\ Framed /\ Sending /\ Ordered
  BY <1>2 DEF Locked, Updating, Framed, Sending, Ordered
<1>4. Subscribed /\ Shown
  BY DEF Subscribed, Informed, Shown, NotStale
<1> QED
  BY <1>1, <1>3, <1>4 DEF Inv

LEMMA InvStep == Inv /\ [Next]_vars => Inv'
BY TypeStep, LockedStep, FramedStep, SendingStep, OrderedStep, SubscribedStep, ShownStep DEF Inv

LEMMA InvHolds == SafetySpec => []Inv
BY InitInv, InvStep, PTL DEF SafetySpec

\* Types: whatever the threads do at the same time, each variable stays within
\* its range.
THEOREM TypeCorrect == SafetySpec => []TypeOK
<1>1. Inv => TypeOK
  BY DEF Inv
<1> QED
  BY <1>1, InvHolds, PTL

\* announceUpdate is done by one thread at a time.
THEOREM OneUpdateAtATime ==
  SafetySpec => [](\A t, u \in Threads : Updating(t) /\ Updating(u) => t = u)
<1>1. Inv => \A t, u \in Threads : Updating(t) /\ Updating(u) => t = u
  BY DEF Inv, Locked
<1> QED
  BY <1>1, InvHolds, PTL

\* A client which has activated the parameter and got the reply has been sent
\* the newest update as soon as nobody is updating.
THEOREM ClientsMissNothing == SafetySpec => []NothingMissed
<1>1. Inv => NothingMissed
  <2> SUFFICES ASSUME Inv, NEW c \in open, active[c] # {}, Settled(c)
               PROVE  covered[c] = timestamp
    BY DEF NothingMissed
  <2>1. c \in Conns /\ c \in Threads /\ Informed(c)
    BY Known DEF TypeOK, Subscribed
  <2>2. Reached(c)
    BY <2>1 DEF Settled, Informed
  <2>3. ~Coming(c)
    BY Known DEF Settled, Coming, Locked, Updating
  <2> QED
    BY <2>2, <2>3 DEF Reached
<1> QED
  BY <1>1, InvHolds, PTL

\* Updates reach each client in their order and none twice, and the last
\* message is behind only when it was an answer to this client.
THEOREM ClientsFollowUpdates == SafetySpec => []ClientsFollow
<1>1. Inv => ClientsFollow
  <2> SUFFICES ASSUME Inv PROVE ClientsFollow
    OBVIOUS
  <2>1. UpdatesInOrder
    BY DEF Inv, Ordered, UpdatesInOrder, Overtaken
  <2>2. StaleOnlyByAnswer
    <3> SUFFICES ASSUME NEW c \in open, active[c] # {}, Settled(c), last[c].kind = "update"
                 PROVE  last[c].item = Current
      BY DEF StaleOnlyByAnswer
    <3>1. c \in Conns /\ c \in Threads /\ Informed(c) /\ NotStale(c)
      BY Known DEF TypeOK, Subscribed, Shown
    <3>2. ~Coming(c)
      BY Known DEF Settled, Coming, Locked, Updating
    <3>3. covered[c] = timestamp
      BY <3>1, <3>2 DEF Settled, Informed, Reached
    <3> QED
      BY <3>1, <3>2, <3>3 DEF NotStale
  <2> QED
    BY <2>1, <2>2 DEF ClientsFollow
<1> QED
  BY <1>1, InvHolds, PTL
====
