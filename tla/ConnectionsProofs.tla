-------------------------- MODULE ConnectionsProofs --------------------------
(***************************************************************************)
(* What holds of the connections of communicators and clients, for any     *)
(* number of threads, connections, requests and faults.                    *)
(*                                                                         *)
(* Communicators (IO.tla): a thread gets the answer to its own request.    *)
(* From flushing to having read, a thread holds _lock (LineHeld), in       *)
(* multicomm once more than otherwise.  Hence there is at most one answer  *)
(* on its way on the connection in use, as long as none was late, and it   *)
(* is for the thread which waits for it (Expected).  A thread which has    *)
(* begun to read keeps reading from its connection, even when that one is  *)
(* closed or replaced meanwhile; what is on the way there is still its own *)
(* (OwnOnly).                                                              *)
(*                                                                         *)
(* The poll thread alone keeps is_connected in line with the connection    *)
(* (Alone).  With one other thread there is one connection: a thread holds *)
(* accessLock within read_is_connected, as often as it has entered it      *)
(* (AccessHeld), and closes a connection with one of the two locks, while  *)
(* an other one which has made a new connection still waits for _lock to   *)
(* have it identified (ClosesLocked); so a thread which has passed         *)
(* check_connection finds it flagged, as long as it is up                  *)
(* (PassedConnected), and none is opened beside it.                        *)
(*                                                                         *)
(* Clients (ClientLife.tla, ClientConnection.tla): a client has one        *)
(* connection, read by one thread, and at rest a running client is served. *)
(* Only connect() takes the lock (Locking), so one thread at a time makes  *)
(* a connection, and none while there is one (Starting).  disconnect()     *)
(* takes no lock; it forgets a connection only after the threads it knew   *)
(* of have ended (Waiting), so that a thread which reads does so from the  *)
(* connection of the client (Reading), unless a disconnect() was overtaken *)
(* by the making of a new connection.  A client running has got its        *)
(* threads last for one connection, of which neither has ended alone       *)
(* (RunsLast).                                                             *)
(***************************************************************************)
EXTENDS IO, ClientLife, FiniteSetTheorems, SequenceTheorems, TLAPS

-----------------------------------------------------------------------------
(* The invariant.                                                          *)

\* What the code has at each place: multicomm is called from outside only, and
\* a thread which reads has a connection to read from.
GoodFrames ==
  {f \in Frames :
    /\ f.pc \in {"idle", "lock", "multi"} => f.stack = <<>>
    /\ \A i \in DOMAIN f.stack : f.stack[i] = "multi" => i = Len(f.stack)
    /\ f.on # None => f.pc \in {"reading", "given"}
    /\ f.pc = "reading" => f.on # None}

Exchange == {"flush", "send", "read", "reading", "given"}
Exchanging(f) == f.pc \in Exchange
InMulti(f) == f.pc = "multi" \/ \E i \in DOMAIN f.stack : f.stack[i] = "multi"

Typed ==
  /\ is_connected \in BOOLEAN
  /\ conn \in Sockets \cup {None}
  /\ sockets \in [Sockets -> SocketStates]
  /\ lineLock \in Locks /\ (lineLock.owner = None <=> lineLock.depth = 0)
  /\ thread \in [Threads -> GoodFrames]

\* _lock is held during an exchange and during multicomm, twice in both.
Holds(f, t, lock) ==
  /\ Exchanging(f) \/ InMulti(f) => lock.owner = t
  /\ Exchanging(f) /\ InMulti(f) => lock.depth >= 2

LineHeld == \A t \in Threads : Holds(thread[t], t, lineLock)

\* Nothing is on the way ...
Quiet(socket) == socket.arrived = <<>> /\ socket.owed = <<>>

\* ... or at most one answer, to t.
Only(socket, t) ==
  /\ Len(socket.arrived) + Len(socket.owed) <= 1
  /\ socket.arrived # <<>> => Head(socket.arrived) = t
  /\ socket.owed # <<>> => Head(socket.owed) = t

Awaits(t, s) == At(t, "read") \/ (At(t, "reading") /\ thread[t].on = s)

DeadIsQuiet ==
  \A s \in Sockets :
    /\ sockets[s].state # "up" => sockets[s].owed = <<>>
    /\ sockets[s].state = "closed" => sockets[s].arrived = <<>>

Expected ==
  conn # None /\ ~sockets[conn].late =>
    \/ Quiet(sockets[conn])
    \/ \E t \in Threads : Awaits(t, conn) /\ Only(sockets[conn], t)

OwnOnly ==
  \A t \in Threads :
    At(t, "reading") /\ ~sockets[thread[t].on].late => Only(sockets[thread[t].on], t)

Answers == DeadIsQuiet /\ Expected /\ OwnOnly /\ AnswersMatch

Inv == Typed /\ LineHeld /\ Answers

-----------------------------------------------------------------------------
(* Answers on the way.                                                     *)

LEMMA Lengths ==
  ASSUME NEW S, NEW q \in Seq(S)
  PROVE  /\ Len(q) \in Nat /\ (q = <<>> <=> Len(q) = 0)
         /\ \A x \in S : /\ Append(q, x) \in Seq(S) /\ Len(Append(q, x)) = Len(q) + 1
                      /\ q = <<>> => Head(Append(q, x)) = x
BY EmptySeq

LEMMA AnswerMoves ==
  ASSUME NEW s \in SocketStates, s.owed # <<>>,
         NEW r, r = [s EXCEPT !.owed = Tail(@), !.arrived = Append(@, Head(s.owed))]
  PROVE  r \in SocketStates /\ \A t : Only(s, t) => Only(r, t)
<1> USE DEF SocketStates
<1>1. /\ s.owed \in Seq(Threads \cup {Late}) /\ s.arrived \in Seq(Threads \cup {Late})
      /\ r.owed = Tail(s.owed) /\ r.arrived = Append(s.arrived, Head(s.owed))
  OBVIOUS
<1>2. /\ Head(s.owed) \in Threads \cup {Late} /\ r.owed \in Seq(Threads \cup {Late})
      /\ r.arrived \in Seq(Threads \cup {Late})
      /\ Len(r.owed) = Len(s.owed) - 1 /\ Len(r.arrived) = Len(s.arrived) + 1
  BY <1>1
<1>3. ASSUME NEW t, Only(s, t) PROVE Only(r, t)
  <2>1. /\ Len(s.owed) \in Nat /\ Len(s.arrived) \in Nat /\ Len(s.owed) # 0
        /\ (s.arrived = <<>> <=> Len(s.arrived) = 0)
    BY <1>1, Lengths
  <2>2. Len(s.arrived) + Len(s.owed) <= 1 /\ Head(s.owed) = t
    BY <1>3 DEF Only
  <2> HIDE DEF SocketStates
  <2>3. Len(s.owed) = 1 /\ Len(s.arrived) = 0 /\ s.arrived = <<>>
    <3>1. ASSUME NEW k \in Nat, NEW m \in Nat, k # 0, m + k <= 1 PROVE k = 1 /\ m = 0
      BY <3>1
    <3>2. Len(s.owed) = 1 /\ Len(s.arrived) = 0
      BY <2>1, <2>2, <3>1
    <3> QED
      BY <2>1, <3>2
  <2>4. r.owed = <<>>
    <3>1. Len(r.owed) = 0
      BY <1>2, <2>3
    <3> QED
      BY <1>2, <3>1, Lengths
  <2>5. Head(r.arrived) = t
    BY <1>1, <1>2, <2>2, <2>3, Lengths
  <2>6. Len(r.owed) = 0 /\ Len(r.arrived) = 1
    BY <1>2, <2>3
  <2>7. Len(r.arrived) + Len(r.owed) <= 1
    <3>1. 1 + 0 <= 1
      OBVIOUS
    <3> QED
      BY <2>6, <3>1, Zenon
  <2> QED
    BY <2>4, <2>5, <2>7 DEF Only
<1>4. r \in SocketStates
  BY <1>2
<1> QED
  BY <1>3, <1>4

LEMMA AnswerRead ==
  ASSUME NEW s \in SocketStates, s.arrived # <<>>,
         NEW r, r = [s EXCEPT !.arrived = Tail(@)]
  PROVE  /\ r \in SocketStates /\ Head(s.arrived) \in Threads \cup {Late}
         /\ \A t : Only(s, t) => Head(s.arrived) = t /\ Quiet(r)
<1> USE DEF SocketStates
<1>1. /\ s.owed \in Seq(Threads \cup {Late}) /\ s.arrived \in Seq(Threads \cup {Late})
      /\ r.owed = s.owed /\ r.arrived = Tail(s.arrived)
  OBVIOUS
<1>2. /\ Head(s.arrived) \in Threads \cup {Late} /\ r.arrived \in Seq(Threads \cup {Late})
      /\ Len(r.arrived) = Len(s.arrived) - 1
  BY <1>1
<1>3. ASSUME NEW t, Only(s, t) PROVE Head(s.arrived) = t /\ Quiet(r)
  <2>1. /\ Len(s.owed) \in Nat /\ Len(s.arrived) \in Nat /\ Len(s.arrived) # 0
        /\ (s.owed = <<>> <=> Len(s.owed) = 0)
        /\ (r.arrived = <<>> <=> Len(r.arrived) = 0)
    BY <1>1, <1>2, Lengths
  <2>2. Len(s.arrived) = 1 /\ s.owed = <<>> /\ Head(s.arrived) = t
    BY <1>3, <2>1 DEF Only
  <2> QED
    BY <1>1, <1>2, <2>1, <2>2 DEF Quiet
<1>4. r \in SocketStates
  BY <1>2
<1> QED
  BY <1>2, <1>3, <1>4

LEMMA LateAnswers ==
  ASSUME NEW q \in Seq(Threads \cup {Late})
  PROVE  AllLate(q) \in Seq(Threads \cup {Late}) /\ (q = <<>> => AllLate(q) = <<>>)
<1>1. AllLate(q) \in [1 .. Len(q) -> Threads \cup {Late}]
  BY DEF AllLate
<1>2. AllLate(q) \in Seq(Threads \cup {Late})
  BY <1>1
<1>3. Len(AllLate(q)) = Len(q)
  BY <1>1, <1>2
<1> QED
  BY <1>2, <1>3

LEMMA RequestSent ==
  ASSUME NEW s \in SocketStates, NEW t \in Threads, NEW noreply \in BOOLEAN
  PROVE  /\ Sent(s, t, noreply) \in SocketStates
         /\ Sent(s, t, noreply).state = s.state /\ Sent(s, t, noreply).late = s.late
         /\ Quiet(s) => Only(Sent(s, t, noreply), t) /\ (noreply => Quiet(Sent(s, t, noreply)))
<1> DEFINE new == IF noreply THEN <<>> ELSE <<t>>
           r == Sent(s, t, noreply)
<1>0. s.owed \in Seq(Threads \cup {Late}) /\ s.arrived \in Seq(Threads \cup {Late})
  BY DEF SocketStates
<1>1. /\ new \in Seq(Threads \cup {Late}) /\ Len(new) <= 1 /\ Len(new) \in Nat
      /\ (new # <<>> => Head(new) = t)
      /\ noreply => new = <<>>
  <2>1. CASE noreply
    BY <2>1
  <2>2. CASE ~noreply
    <3>1. new = <<t>>
      BY <2>2
    <3>2. <<t>> \in Seq(Threads \cup {Late}) /\ Len(<<t>>) = 1 /\ Head(<<t>>) = t
      OBVIOUS
    <3> QED
      BY <2>2, <3>1, <3>2
  <2> QED
    BY <2>1, <2>2
<1>2. AllLate(s.owed) \o new \in Seq(Threads \cup {Late})
  BY <1>0, <1>1, LateAnswers
<1>3. /\ r.arrived = AllLate(s.arrived) /\ r.owed = AllLate(s.owed) \o new
      /\ r.state = s.state /\ r.late = s.late
  BY DEF Sent, SocketStates
<1>4. r \in SocketStates
  BY <1>0, <1>2, LateAnswers DEF Sent, SocketStates
<1>5. ASSUME Quiet(s) PROVE r.arrived = <<>> /\ r.owed = new
  <2>1. AllLate(s.arrived) = <<>> /\ AllLate(s.owed) = <<>>
    BY <1>0, <1>5, LateAnswers DEF Quiet
  <2> QED
    BY <1>1, <1>3, <2>1
<1>6. ASSUME Quiet(s) PROVE Only(r, t)
  <2>1. r.arrived = <<>> /\ r.owed = new /\ Len(r.arrived) = 0
    BY <1>5, <1>6
  <2> HIDE DEF new, r
  <2> QED
    BY <1>1, <2>1 DEF Only
<1>7. ASSUME Quiet(s), noreply PROVE Quiet(r)
  BY <1>5, <1>7 DEF Quiet
<1> QED
  BY <1>3, <1>4, <1>6, <1>7

\* A socket nobody refers to: there are two more than threads.
LEMMA FreshSocket ==
  ASSUME Typed
  PROVE  \E s \in Sockets : s \notin Referenced
<1> DEFINE Read == {thread[t].on : t \in Threads}
           on == [t \in Threads |-> thread[t].on]
           n == Cardinality(Threads)
<1>1. IsFiniteSet(Threads) /\ n \in Nat
  BY ThreadsAssumption, FS_Singleton, FS_Union, FS_CardinalityType DEF Threads
<1>2. IsFiniteSet(Read) /\ Cardinality(Read) <= n
  <2>1. on \in Surjection(Threads, Read)
    BY DEF Surjection
  <2> QED
    BY <1>1, <2>1, FS_Surjection
<1>3. Cardinality(Read) \in Nat
  BY <1>2, FS_CardinalityType
<1>4. /\ IsFiniteSet(Read \cup {conn}) /\ Cardinality(Read \cup {conn}) \in Nat
      /\ Cardinality(Read \cup {conn}) <= n + 1
  <2>1. IsFiniteSet(Read \cup {conn}) /\ Cardinality(Read \cup {conn})
          = IF conn \in Read THEN Cardinality(Read) ELSE Cardinality(Read) + 1
    BY <1>2, FS_AddElement
  <2> HIDE DEF Read
  <2> QED
    BY <1>1, <1>2, <1>3, <2>1, FS_CardinalityType
<1>5. Cardinality(Sockets) = n + 2
  BY <1>1, FS_Interval DEF Sockets
<1>6. ~(Sockets \subseteq Read \cup {conn})
  <2> SUFFICES ASSUME Sockets \subseteq Read \cup {conn} PROVE FALSE
    OBVIOUS
  <2>1. Cardinality(Sockets) <= Cardinality(Read \cup {conn})
    BY <1>4, FS_Subset
  <2> HIDE DEF Read, n
  <2> QED
    BY <1>1, <1>4, <1>5, <2>1
<1>7. Referenced \subseteq Read \cup {conn}
  BY DEF Referenced
<1> QED
  BY <1>6, <1>7

-----------------------------------------------------------------------------
(* Frames and _lock.                                                       *)

\* What a step does to the frame f of the thread, which becomes g, and to _lock.
LineMoves(t, f, g) ==
  \/ /\ lineLock' = lineLock
     /\ Exchanging(g) => Exchanging(f)
     /\ InMulti(g) => InMulti(f)
  \/ /\ CanTake(lineLock, t) /\ lineLock' = Taken(lineLock, t)
     /\ Exchanging(g) /\ InMulti(g) => InMulti(f)
  \/ g = Idle /\ lineLock' = Dropped(lineLock, t)
  \/ /\ lineLock.owner = t /\ lineLock' = Released(lineLock)
     /\ ~Exchanging(g)
     /\ InMulti(g) => Exchanging(f) /\ InMulti(f)

Moves(t) ==
  /\ thread'[t] \in GoodFrames
  /\ thread' = [thread EXCEPT ![t] = thread'[t]]
  /\ LineMoves(t, thread[t], thread'[t])

LEMMA IdleIsGood == Idle \in GoodFrames /\ ~Exchanging(Idle) /\ ~InMulti(Idle)
<1>1. <<>> \in Seq(ReturnPlaces) /\ DOMAIN <<>> = {}
  OBVIOUS
<1>2. Idle \in Frames
  BY <1>1 DEF Idle, Frames, Labels
<1> QED
  BY <1>1, <1>2 DEF Idle, GoodFrames, Exchanging, Exchange, InMulti

LEMMA Pushed ==
  ASSUME NEW f \in GoodFrames, f.pc # "multi", NEW next \in ReturnPlaces, next # "multi",
         NEW g, g = [f EXCEPT !.pc = g.pc, !.stack = <<next>> \o @, !.on = None],
         g.pc \in Labels \ {"idle", "lock", "multi", "reading"}
  PROVE  g \in GoodFrames /\ (InMulti(g) => InMulti(f))
<1>1. f \in Frames /\ f.stack \in Seq(ReturnPlaces)
  BY DEF GoodFrames, Frames
<1>2. /\ g.stack = <<next>> \o f.stack /\ g.on = None
      /\ g.got = f.got /\ g.result = f.result /\ g.more = f.more
  BY <1>1 DEF Frames
<1>3. /\ g.stack \in Seq(ReturnPlaces) /\ Len(g.stack) = Len(f.stack) + 1
      /\ g.stack[1] = next
      /\ \A i \in 2 .. Len(g.stack) : g.stack[i] = f.stack[i - 1]
  <2>1. <<next>> \in Seq(ReturnPlaces) /\ Len(<<next>>) = 1 /\ <<next>>[1] = next
    OBVIOUS
  <2> QED
    BY <1>1, <1>2, <2>1, ConcatProperties
<1>4. DOMAIN g.stack = 1 .. Len(g.stack) /\ DOMAIN f.stack = 1 .. Len(f.stack)
      /\ Len(f.stack) \in Nat
  BY <1>1, <1>3
<1>5. \A i \in DOMAIN g.stack : g.stack[i] = "multi" =>
         i - 1 \in DOMAIN f.stack /\ f.stack[i - 1] = "multi"
  BY <1>3, <1>4
<1>6. \A i \in DOMAIN g.stack : g.stack[i] = "multi" => i = Len(g.stack)
  BY <1>3, <1>4, <1>5 DEF GoodFrames
<1>7. g \in Frames
  BY <1>1, <1>2, <1>3 DEF Frames
<1> QED
  BY <1>2, <1>5, <1>6, <1>7 DEF GoodFrames, InMulti

LEMMA Popped ==
  ASSUME NEW f \in GoodFrames, f.pc \notin {"idle", "lock", "multi"}
  PROVE  /\ Returned(f) \in GoodFrames /\ Returned(f).on = None
         /\ ~Exchanging(Returned(f)) /\ (InMulti(Returned(f)) <=> InMulti(f))
         /\ Returned(f).pc \in ReturnPlaces \cup {"idle"}
<1> DEFINE g == Returned(f)
<1>1. f \in Frames /\ f.stack \in Seq(ReturnPlaces)
  BY DEF GoodFrames, Frames
<1>2. CASE f.stack = <<>>
  <2>1. g = Idle /\ ~InMulti(f)
    BY <1>2 DEF Returned, InMulti
  <2> QED
    BY <2>1, IdleIsGood DEF Idle
<1>3. CASE f.stack # <<>>
  <2>1. g = [f EXCEPT !.pc = Head(f.stack), !.stack = Tail(f.stack), !.on = None]
    BY <1>3 DEF Returned
  <2>2. /\ g.pc = Head(f.stack) /\ g.stack = Tail(f.stack) /\ g.on = None
        /\ g.got = f.got /\ g.result = f.result /\ g.more = f.more
    BY <1>1, <2>1 DEF Frames
  <2>3. /\ Head(f.stack) \in ReturnPlaces /\ Tail(f.stack) \in Seq(ReturnPlaces)
        /\ Len(Tail(f.stack)) = Len(f.stack) - 1 /\ Len(f.stack) \in Nat \ {0}
        /\ Head(f.stack) = f.stack[1]
        /\ \A i \in 1 .. Len(f.stack) - 1 : Tail(f.stack)[i] = f.stack[i + 1]
    BY <1>1, <1>3, HeadTailProperties, EmptySeq
  <2>4. /\ DOMAIN f.stack = 1 .. Len(f.stack) /\ DOMAIN g.stack = 1 .. Len(f.stack) - 1
    BY <1>1, <2>2, <2>3
  <2>5. \A i \in DOMAIN g.stack : i + 1 \in DOMAIN f.stack /\ g.stack[i] = f.stack[i + 1]
    BY <2>2, <2>3, <2>4
  <2>6. \A i \in DOMAIN g.stack : g.stack[i] = "multi" => i = Len(g.stack)
    BY <2>2, <2>3, <2>4, <2>5 DEF GoodFrames
  <2>7. g.pc = "multi" => g.stack = <<>>
    <3> SUFFICES ASSUME g.pc = "multi" PROVE g.stack = <<>>
      OBVIOUS
    <3>1. 1 \in DOMAIN f.stack /\ f.stack[1] = "multi"
      BY <2>2, <2>3, <2>4
    <3>2. Len(f.stack) = 1
      BY <3>1 DEF GoodFrames
    <3>3. Len(g.stack) = 0
      BY <2>2, <2>3, <3>2
    <3> QED
      BY <2>2, <2>3, <3>3, EmptySeq
  <2>8. g \in GoodFrames
    <3>0. ReturnPlaces \subseteq Labels
      BY DEF Labels, ReturnPlaces
    <3>1. g \in Frames
      <4>1. g.pc \in Labels /\ g.stack \in Seq(ReturnPlaces)
        BY <2>2, <2>3, <3>0
      <4> HIDE DEF g
      <4> QED
        BY <1>1, <2>1, <4>1 DEF Frames
    <3>2. g.pc \notin {"idle", "lock", "reading", "given"}
      BY <2>2, <2>3 DEF ReturnPlaces
    <3> QED
      BY <2>2, <2>6, <2>7, <3>1, <3>2 DEF GoodFrames
  <2>9. InMulti(f) => InMulti(g)
    <3> SUFFICES ASSUME NEW i \in DOMAIN f.stack, f.stack[i] = "multi" PROVE InMulti(g)
      BY DEF InMulti
    <3>1. CASE i = 1
      BY <2>2, <2>3, <3>1 DEF InMulti
    <3>2. CASE i # 1
      <4>1. i - 1 \in DOMAIN g.stack /\ g.stack[i - 1] = f.stack[(i - 1) + 1]
        BY <2>3, <2>4, <2>5, <3>2
      <4>2. (i - 1) + 1 = i
        BY <2>4
      <4> QED
        BY <4>1, <4>2 DEF InMulti
    <3> QED
      BY <3>1, <3>2
  <2>10. InMulti(g) => InMulti(f)
    <3>1. CASE g.pc = "multi"
      BY <2>2, <2>3, <2>4, <3>1 DEF InMulti
    <3>2. CASE \E i \in DOMAIN g.stack : g.stack[i] = "multi"
      BY <2>5, <3>2 DEF InMulti
    <3> QED
      BY <3>1, <3>2 DEF InMulti
  <2>11. ~Exchanging(g)
    BY <2>2, <2>3 DEF Exchanging, Exchange, ReturnPlaces
  <2> QED
    BY <2>2, <2>3, <2>8, <2>9, <2>10, <2>11
<1> QED
  BY <1>2, <1>3

LEMMA LineStep ==
  ASSUME Typed, LineHeld, NEW t \in Threads, Moves(t)
  PROVE  /\ lineLock' \in Locks /\ (lineLock'.owner = None <=> lineLock'.depth = 0)
         /\ thread' \in [Threads -> GoodFrames]
         /\ LineHeld'
<1> DEFINE g == thread'[t]
<1>0. /\ lineLock \in Locks /\ (lineLock.owner = None <=> lineLock.depth = 0)
      /\ thread \in [Threads -> GoodFrames] /\ g \in GoodFrames
      /\ thread' = [thread EXCEPT ![t] = g]
      /\ LineMoves(t, thread[t], g)
      /\ None \notin Threads /\ t # None
  BY ThreadsAssumption DEF Typed, Moves, Threads
<1>1. thread' \in [Threads -> GoodFrames]
  BY <1>0
<1> HIDE DEF g
<1>2. /\ lineLock' \in Locks /\ (lineLock'.owner = None <=> lineLock'.depth = 0)
      /\ (lineLock.owner \notin {t, None} => lineLock' = lineLock)
  BY <1>0 DEF LineMoves, Locks, Free, CanTake, Taken, Dropped, Released
<1>3. ASSUME NEW u \in Threads, u # t PROVE Holds(thread[u], u, lineLock')
  <2>1. Holds(thread[u], u, lineLock) /\ u # None
    BY <1>0 DEF LineHeld
  <2>2. CASE lineLock.owner = u
    BY <1>2, <1>3, <2>1, <2>2
  <2>3. CASE lineLock.owner # u
    BY <2>1, <2>3 DEF Holds
  <2> QED
    BY <2>2, <2>3
<1>4. Holds(g, t, lineLock')
  <2>0. Holds(thread[t], t, lineLock)
    BY DEF LineHeld
  <2>1. CASE /\ lineLock' = lineLock
             /\ Exchanging(g) => Exchanging(thread[t])
             /\ InMulti(g) => InMulti(thread[t])
    BY <2>0, <2>1 DEF Holds
  <2>2. CASE /\ CanTake(lineLock, t) /\ lineLock' = Taken(lineLock, t)
             /\ Exchanging(g) /\ InMulti(g) => InMulti(thread[t])
    <3>1. lineLock'.owner = t /\ lineLock'.depth = lineLock.depth + 1
      BY <2>2 DEF Taken
    <3>2. InMulti(thread[t]) => lineLock.depth >= 1
      BY <1>0, <2>0 DEF Holds, Locks
    <3> QED
      BY <1>0, <2>2, <3>1, <3>2 DEF Holds, Locks
  <2>3. CASE g = Idle
    BY <2>3, IdleIsGood DEF Holds
  <2>4. CASE /\ lineLock.owner = t /\ lineLock' = Released(lineLock)
             /\ ~Exchanging(g)
             /\ InMulti(g) => Exchanging(thread[t]) /\ InMulti(thread[t])
    BY <1>0, <2>0, <2>4 DEF Holds, Locks, Released
  <2> QED
    BY <1>0, <2>1, <2>2, <2>3, <2>4 DEF LineMoves
<1> QED
  BY <1>0, <1>1, <1>2, <1>3, <1>4 DEF LineHeld

-----------------------------------------------------------------------------
(* How the frame of a thread changes.                                      *)

\* Only the frame of t changes.
Stepped(t) ==
  thread'[t] \in GoodFrames /\ thread' = [thread EXCEPT ![t] = thread'[t]]

LEMMA Stayed ==
  ASSUME Typed, NEW t \in Threads, NEW g \in Frames,
         thread' = [thread EXCEPT ![t] = g],
         g.stack = thread[t].stack,
         g.pc \in {"idle", "lock", "multi"} => g.stack = <<>>,
         g.on # None <=> g.pc = "reading" \/ (g.pc = "given" /\ g.on # None)
  PROVE  /\ Stepped(t) /\ thread'[t] = g
         /\ g.pc # "multi" => (InMulti(g) => InMulti(thread[t]))
<1>1. thread \in [Threads -> GoodFrames] /\ thread[t] \in GoodFrames
  BY DEF Typed
<1>2. thread'[t] = g
  BY <1>1
<1>3. g \in GoodFrames
  BY <1>1 DEF GoodFrames
<1>4. g.pc # "multi" => (InMulti(g) => InMulti(thread[t]))
  BY DEF InMulti
<1> QED
  BY <1>2, <1>3, <1>4 DEF Stepped

LEMMA GotoStep ==
  ASSUME Typed, NEW t \in Threads, NEW p \in Labels \ {"idle", "lock", "multi", "reading"},
         Goto(t, p), thread[t].pc \notin {"reading", "given"}
  PROVE  /\ Stepped(t) /\ thread'[t].pc = p /\ thread'[t].on = None
         /\ InMulti(thread'[t]) => InMulti(thread[t])
<1> DEFINE f == thread[t]
           g == [f EXCEPT !.pc = p]
<1>1. thread \in [Threads -> GoodFrames] /\ f \in GoodFrames /\ f \in Frames /\ f.on = None
  BY DEF Typed, GoodFrames
<1>2. g \in Frames /\ g.pc = p /\ g.on = None /\ g.stack = f.stack
  BY <1>1 DEF Frames
<1>3. thread' = [thread EXCEPT ![t] = g]
  BY DEF Goto
<1> HIDE DEF g
<1> QED
  BY <1>2, <1>3, Stayed

LEMMA CallStep ==
  ASSUME Typed, NEW t \in Threads, NEW p \in Labels \ {"idle", "lock", "multi", "reading"},
         NEW next \in ReturnPlaces, next # "multi",
         Call(t, p, next), thread[t].pc \notin {"reading", "given", "multi"}
  PROVE  /\ Stepped(t) /\ thread'[t].pc = p /\ thread'[t].on = None
         /\ InMulti(thread'[t]) => InMulti(thread[t])
<1> DEFINE f == thread[t]
           g == [f EXCEPT !.pc = p, !.stack = <<next>> \o @, !.on = None]
<1>1. thread \in [Threads -> GoodFrames] /\ f \in GoodFrames /\ f \in Frames /\ f.on = None
  BY DEF Typed, GoodFrames
<1>2. g.pc = p /\ g.on = None
  BY <1>1 DEF Frames
<1>3. thread' = [thread EXCEPT ![t] = g]
  <2>1. g = [f EXCEPT !.pc = p, !.stack = <<next>> \o @]
    BY <1>1 DEF Frames
  <2> HIDE DEF g
  <2>2. thread' = [thread EXCEPT ![t] = [f EXCEPT !.pc = p, !.stack = <<next>> \o @]]
    BY <1>1 DEF Call
  <2> QED
    BY <2>1, <2>2
<1>4. g = [f EXCEPT !.pc = g.pc, !.stack = <<next>> \o @, !.on = None]
  BY <1>2
<1> HIDE DEF g
<1>5. g \in GoodFrames /\ (InMulti(g) => InMulti(f))
  BY <1>1, <1>2, <1>4, Pushed
<1>6. thread'[t] = g
  BY <1>1, <1>3
<1> QED
  BY <1>2, <1>3, <1>5, <1>6 DEF Stepped

LEMMA ReturnStep ==
  ASSUME Typed, NEW t \in Threads, Return(t), thread[t].pc \notin {"idle", "lock", "multi"}
  PROVE  /\ Stepped(t) /\ ~Exchanging(thread'[t])
         /\ InMulti(thread'[t]) <=> InMulti(thread[t])
<1>1. thread \in [Threads -> GoodFrames] /\ thread' = [thread EXCEPT ![t] = Returned(thread[t])]
  BY DEF Typed, Return
<1>2. thread'[t] = Returned(thread[t])
  BY <1>1
<1> QED
  BY <1>1, <1>2, Popped DEF Stepped

LEMMA RaiseStep ==
  ASSUME Typed, NEW t \in Threads, Raise(t)
  PROVE  Stepped(t) /\ thread'[t] = Idle /\ Moves(t) /\ ~Exchanging(thread'[t])
<1>1. thread \in [Threads -> GoodFrames] /\ thread' = [thread EXCEPT ![t] = Idle]
      /\ lineLock' = Dropped(lineLock, t)
  BY DEF Typed, Raise
<1>2. thread'[t] = Idle
  BY <1>1
<1> QED
  BY <1>1, <1>2, IdleIsGood DEF Stepped, Moves, LineMoves

-----------------------------------------------------------------------------
(* What is on the way.                                                     *)

DataTyped ==
  /\ conn \in Sockets \cup {None}
  /\ sockets \in [Sockets -> SocketStates]

\* All a step has to keep.
Keeps(t) == Moves(t) /\ DataTyped' /\ Answers'

\* Two threads are not within an exchange at the same time.
LEMMA OneExchange ==
  ASSUME LineHeld, NEW t \in Threads, NEW u \in Threads,
         Exchanging(thread[t]), Exchanging(thread[u])
  PROVE  t = u
BY DEF LineHeld, Holds

LEMMA Places ==
  ASSUME Typed, NEW t \in Threads
  PROVE  /\ None \notin Sockets
         /\ thread[t].on \in Sockets \cup {None}
         /\ thread[t].pc = "reading" => thread[t].on # None
<1>1. None \notin Sockets
  BY ThreadsAssumption DEF Sockets
<1> QED
  BY <1>1 DEF Typed, GoodFrames, Frames

\* A step which neither reads nor receives, nor changes a socket.
LEMMA Aside ==
  ASSUME Inv, NEW t \in Threads, Stepped(t), UNCHANGED <<conn, sockets>>,
         thread[t].pc \notin {"read", "reading"}, thread'[t].pc # "reading",
         thread'[t].pc = "given" => thread'[t].on = None
  PROVE  DataTyped' /\ Answers'
<1>1. /\ \A u \in Threads \ {t} : thread'[u] = thread[u]
      /\ conn' = conn /\ sockets' = sockets
  BY DEF Inv, Typed, Stepped
<1>2. DeadIsQuiet'
  BY <1>1 DEF Inv, Answers, DeadIsQuiet
<1>3. Expected'
  BY <1>1 DEF Inv, Answers, Expected, Awaits, At
<1>4. OwnOnly'
  BY <1>1 DEF Inv, Answers, OwnOnly, At
<1>5. AnswersMatch'
  BY <1>1 DEF Inv, Answers, AnswersMatch, At
<1> QED
  BY <1>1, <1>2, <1>3, <1>4, <1>5 DEF Inv, Typed, DataTyped, Answers

LEMMA GotoAside ==
  ASSUME Inv, NEW t \in Threads, NEW p \in Labels \ (Exchange \cup {"idle", "lock", "multi"}),
         Goto(t, p), thread[t].pc \notin Exchange, UNCHANGED <<conn, sockets, lineLock>>
  PROVE  Keeps(t)
<1>1. /\ Stepped(t) /\ thread'[t].pc = p /\ thread'[t].on = None
      /\ InMulti(thread'[t]) => InMulti(thread[t])
  BY GotoStep DEF Inv, Exchange
<1>2. Moves(t)
  BY <1>1 DEF Moves, Stepped, LineMoves, Exchanging
<1>3. DataTyped' /\ Answers'
  BY <1>1, Aside DEF Exchange
<1> QED
  BY <1>2, <1>3 DEF Keeps

LEMMA CallAside ==
  ASSUME Inv, NEW t \in Threads, NEW p \in Labels \ (Exchange \cup {"idle", "lock", "multi"}),
         NEW next \in ReturnPlaces, next # "multi",
         Call(t, p, next), thread[t].pc \notin {"read", "reading", "given", "multi"},
         UNCHANGED <<conn, sockets, lineLock>>
  PROVE  Keeps(t)
<1>1. /\ Stepped(t) /\ thread'[t].pc = p /\ thread'[t].on = None
      /\ InMulti(thread'[t]) => InMulti(thread[t])
  BY CallStep DEF Inv, Exchange
<1>2. Moves(t)
  BY <1>1 DEF Moves, Stepped, LineMoves, Exchanging
<1>3. DataTyped' /\ Answers'
  BY <1>1, Aside DEF Exchange
<1> QED
  BY <1>2, <1>3 DEF Keeps

LEMMA ReturnAside ==
  ASSUME Inv, NEW t \in Threads, Return(t),
         thread[t].pc \notin {"idle", "lock", "multi", "read", "reading"},
         UNCHANGED <<conn, sockets>>,
         \/ lineLock' = lineLock
         \/ thread[t].pc = "given" /\ lineLock' = Released(lineLock)
  PROVE  Keeps(t)
<1>1. /\ Stepped(t) /\ ~Exchanging(thread'[t])
      /\ InMulti(thread'[t]) <=> InMulti(thread[t])
  BY ReturnStep DEF Inv
<1>2. Moves(t)
  <2>1. thread[t].pc = "given" => Exchanging(thread[t]) /\ lineLock.owner = t
    BY DEF Inv, LineHeld, Holds, Exchanging, Exchange
  <2> QED
    BY <1>1, <2>1 DEF Moves, Stepped, LineMoves
<1>3. DataTyped' /\ Answers'
  BY <1>1, Aside DEF Exchanging, Exchange
<1> QED
  BY <1>2, <1>3 DEF Keeps

LEMMA RaiseAside ==
  ASSUME Inv, NEW t \in Threads, Raise(t), thread[t].pc \notin {"read", "reading"},
         UNCHANGED <<conn, sockets>>
  PROVE  Keeps(t)
<1>1. Stepped(t) /\ thread'[t] = Idle /\ Moves(t)
  BY RaiseStep DEF Inv
<1>2. DataTyped' /\ Answers'
  BY <1>1, Aside DEF Idle
<1> QED
  BY <1>1, <1>2 DEF Keeps

\* A step of the thread which has an exchange, after which nothing but its own
\* answer is on the way on the connection in use.
LEMMA WithinExchange ==
  ASSUME Inv, NEW t \in Threads, Exchanging(thread[t]), Stepped(t), conn' = conn,
         DataTyped', DeadIsQuiet',
         conn # None /\ ~sockets'[conn].late =>
           \/ Quiet(sockets'[conn])
           \/ Awaits(t, conn)' /\ Only(sockets'[conn], t),
         thread'[t].pc = "reading" /\ ~sockets'[thread'[t].on].late
           => Only(sockets'[thread'[t].on], t),
         thread'[t].pc = "given" /\ thread'[t].on # None /\ thread'[t].got # t
           => sockets'[thread'[t].on].late
  PROVE  DataTyped' /\ Answers'
<1>1. \A u \in Threads \ {t} : thread'[u] = thread[u] /\ thread'[u].pc \notin Exchange
  BY OneExchange DEF Inv, Typed, Stepped, Exchanging
<1>2. Expected'
  BY DEF Expected
<1>3. OwnOnly'
  BY <1>1 DEF OwnOnly, At, Exchange
<1>4. AnswersMatch'
  BY <1>1 DEF AnswersMatch, At, Exchange
<1> QED
  BY <1>2, <1>3, <1>4 DEF Answers

-----------------------------------------------------------------------------
(* The steps outside an exchange.                                          *)

LEMMA ClosingKeeps ==
  ASSUME Inv, NEW t \in Threads,
         CloseConnection(t) \/ ForgetConnection(t) \/ ConnectionClosed(t)
  PROVE  Keeps(t)
<1> USE DEF At
<1>1. ASSUME CloseConnection(t), conn = None PROVE Keeps(t)
  BY <1>1, RaiseAside DEF CloseConnection
<1>2. ASSUME CloseConnection(t), conn # None PROVE Keeps(t)
  <2>1. /\ thread[t].pc = "close" /\ Goto(t, "forget") /\ lineLock' = lineLock
        /\ conn' = conn /\ conn \in Sockets
        /\ sockets' = [sockets EXCEPT ![conn] = Shut(@)]
    BY <1>2 DEF CloseConnection, locks, Inv, Typed
  <2>2. /\ Stepped(t) /\ thread'[t].pc = "forget" /\ thread'[t].on = None
        /\ InMulti(thread'[t]) => InMulti(thread[t])
    BY <2>1, GotoStep DEF Inv, Labels
  <2>3. Moves(t)
    BY <2>1, <2>2 DEF Moves, Stepped, LineMoves, Exchanging, Exchange
  <2>4. /\ sockets \in [Sockets -> SocketStates] /\ Shut(sockets[conn]) \in SocketStates
        /\ Quiet(Shut(sockets[conn])) /\ Shut(sockets[conn]).late = sockets[conn].late
    <3>1. sockets \in [Sockets -> SocketStates] /\ sockets[conn].late \in BOOLEAN
      BY <2>1 DEF Inv, Typed, SocketStates
    <3>2. <<>> \in Seq(Threads \cup {Late})
      OBVIOUS
    <3> QED
      BY <3>1, <3>2 DEF Shut, Closed, Quiet, SocketStates
  <2>5. /\ sockets'[conn] = Shut(sockets[conn])
        /\ \A s \in Sockets \ {conn} : sockets'[s] = sockets[s]
        /\ \A u \in Threads \ {t} : thread'[u] = thread[u]
    BY <2>1, <2>2, <2>4 DEF Stepped, Inv, Typed
  <2>6. DataTyped'
    BY <2>1, <2>4 DEF DataTyped
  <2>7. DeadIsQuiet'
    BY <2>4, <2>5 DEF Inv, Answers, DeadIsQuiet, Quiet
  <2>8. Expected'
    BY <2>1, <2>4, <2>5 DEF Expected
  <2>9. ASSUME NEW u \in Threads, u # t, thread[u].pc \in {"reading", "given"}, thread[u].on # None
        PROVE  /\ thread[u].on \in Sockets
               /\ sockets'[thread[u].on].late = sockets[thread[u].on].late
               /\ thread[u].on = conn => Only(sockets'[conn], u)
    <3>1. thread[u].on \in Sockets
      BY <2>9, Places DEF Inv
    <3>2. Only(sockets'[conn], u)
      <4>1. Quiet(sockets'[conn])
        BY <2>4, <2>5
      <4>2. Len(<<>>) = 0 /\ 0 + 0 <= 1
        OBVIOUS
      <4> QED
        BY <4>1, <4>2, Zenon DEF Quiet, Only
    <3> QED
      BY <2>4, <2>5, <3>1, <3>2
  <2>10. ASSUME NEW u \in Threads, thread'[u].pc \in {"reading", "given"}, thread'[u].on # None
         PROVE  u # t /\ thread'[u] = thread[u]
    BY <2>2, <2>5, <2>10
  <2>11. OwnOnly'
    <3> SUFFICES ASSUME NEW u \in Threads, At(u, "reading")',
                        (~sockets[thread[u].on].late)'
                 PROVE  Only(sockets[thread[u].on], u)'
      BY DEF OwnOnly
    <3>1. u # t /\ thread'[u] = thread[u] /\ thread[u].pc = "reading"
      BY <2>2, <2>5
    <3>2. thread[u].on # None
      BY <3>1 DEF Inv, Typed, GoodFrames
    <3>3. CASE thread[u].on = conn
      BY <2>9, <3>1, <3>2, <3>3
    <3>4. CASE thread[u].on # conn
      BY <2>5, <2>9, <3>1, <3>2, <3>4 DEF Inv, Answers, OwnOnly
    <3> QED
      BY <3>3, <3>4
  <2>12. AnswersMatch'
    BY <2>9, <2>10 DEF Inv, Answers, AnswersMatch
  <2> QED
    BY <2>3, <2>6, <2>7, <2>8, <2>11, <2>12 DEF Keeps, Answers
<1>3. ASSUME ForgetConnection(t) PROVE Keeps(t)
  <2>1. /\ thread[t].pc = "forget" /\ Goto(t, "unflag") /\ lineLock' = lineLock
        /\ conn' = None /\ sockets' = sockets
    BY <1>3 DEF ForgetConnection, locks
  <2>2. /\ Stepped(t) /\ thread'[t].pc = "unflag" /\ thread'[t].on = None
        /\ InMulti(thread'[t]) => InMulti(thread[t])
    BY <2>1, GotoStep DEF Inv, Labels
  <2>3. Moves(t)
    BY <2>1, <2>2 DEF Moves, Stepped, LineMoves, Exchanging, Exchange
  <2>4. \A u \in Threads \ {t} : thread'[u] = thread[u]
    BY <2>2 DEF Stepped, Inv, Typed
  <2>5. DataTyped' /\ DeadIsQuiet' /\ Expected'
    BY <2>1 DEF DataTyped, Inv, Typed, Answers, DeadIsQuiet, Expected
  <2>6. OwnOnly' /\ AnswersMatch'
    BY <2>1, <2>2, <2>4 DEF Inv, Answers, OwnOnly, AnswersMatch
  <2> QED
    BY <2>3, <2>5, <2>6 DEF Keeps, Answers
<1>4. ASSUME ConnectionClosed(t) PROVE Keeps(t)
  BY <1>4, ReturnAside DEF ConnectionClosed, locks
<1> QED
  BY <1>1, <1>2, <1>3, <1>4

LEMMA CheckKeeps ==
  ASSUME Inv, NEW t \in Threads,
         CheckConnection(t) \/ ConnectionChecked(t) \/ ConnectionLost(t) \/ Refused(t)
  PROVE  Keeps(t)
<1> USE DEF At, locks
<1>0. "take" \in Labels \ (Exchange \cup {"idle", "lock", "multi"})
      /\ "enter" \in Labels \ (Exchange \cup {"idle", "lock", "multi"})
      /\ "checked" \in ReturnPlaces
  BY DEF Labels, Exchange, ReturnPlaces
<1>1. ASSUME CheckConnection(t) PROVE Keeps(t)
  <2>1. thread[t].pc = "check" /\ UNCHANGED <<conn, sockets, lineLock>>
        /\ (Goto(t, "take") \/ Call(t, "enter", "checked"))
    BY <1>1 DEF CheckConnection
  <2>2. ASSUME Goto(t, "take") PROVE Keeps(t)
    BY <1>0, <2>1, <2>2, GotoAside DEF Exchange
  <2>3. ASSUME Call(t, "enter", "checked") PROVE Keeps(t)
    BY <1>0, <2>1, <2>3, CallAside
  <2> QED
    BY <2>1, <2>2, <2>3
<1>2. ASSUME ConnectionChecked(t) PROVE Keeps(t)
  <2>1. thread[t].pc = "checked" /\ UNCHANGED <<conn, sockets>>
        /\ ((Goto(t, "take") /\ lineLock' = lineLock) \/ Raise(t))
    BY <1>2 DEF ConnectionChecked, Fail
  <2>2. ASSUME Goto(t, "take"), lineLock' = lineLock PROVE Keeps(t)
    BY <1>0, <2>1, <2>2, GotoAside DEF Exchange
  <2>3. ASSUME Raise(t) PROVE Keeps(t)
    BY <2>1, <2>3, RaiseAside
  <2> QED
    BY <2>1, <2>2, <2>3
<1>3. ASSUME ConnectionLost(t) \/ Refused(t) PROVE Keeps(t)
  <2>1. thread[t].pc \in {"lost", "open"} /\ UNCHANGED <<conn, sockets>> /\ Raise(t)
    BY <1>3 DEF ConnectionLost, Refused, Fail
  <2> QED
    BY <2>1, RaiseAside
<1> QED
  BY <1>1, <1>2, <1>3

LEMMA ConnectKeeps ==
  ASSUME Inv, NEW t \in Threads,
         \/ EnterRead(t) \/ TestConnected(t) \/ FlagConnected(t) \/ CheckHWIdent(t)
         \/ Connected(t) \/ ReturnConnected(t) \/ Announce(t) \/ Write(t)
  PROVE  Keeps(t)
<1> USE DEF At, locks
<1> DEFINE Aim == Labels \ (Exchange \cup {"idle", "lock", "multi"})
<1>0. /\ {"test", "check", "connected", "close", "connection", "enter",
          "announce", "open"} \subseteq Aim
      /\ {"ident", "again", "lost", "announce"} \subseteq ReturnPlaces \ {"multi"}
  BY DEF Labels, Exchange, ReturnPlaces
<1>1. ASSUME NEW p \in Aim, Goto(t, p), UNCHANGED <<conn, sockets, lineLock>>,
             thread[t].pc \notin Exchange
      PROVE  Keeps(t)
  BY <1>1, GotoAside
<1>2. ASSUME NEW p \in Aim, NEW next \in ReturnPlaces \ {"multi"},
             Call(t, p, next), UNCHANGED <<conn, sockets, lineLock>>,
             thread[t].pc \notin {"read", "reading", "given", "multi"}
      PROVE  Keeps(t)
  BY <1>2, CallAside
\* ... with a result.
<1>3. ASSUME NEW p \in Aim, NEW r \in BOOLEAN,
             thread' = [thread EXCEPT ![t].pc = p, ![t].result = r],
             thread[t].pc \notin Exchange, UNCHANGED <<conn, sockets, lineLock>>
      PROVE  Keeps(t)
  <2> DEFINE g == [thread[t] EXCEPT !.pc = p, !.result = r]
  <2>1. /\ thread \in [Threads -> GoodFrames] /\ thread[t] \in Frames /\ thread[t].on = None
    BY <1>3 DEF Inv, Typed, GoodFrames, Exchange
  <2>2. g \in Frames /\ g.pc = p /\ g.on = None /\ g.stack = thread[t].stack
    BY <2>1 DEF Frames
  <2>3. thread' = [thread EXCEPT ![t] = g]
    BY <1>3
  <2> HIDE DEF g
  <2>4. p \notin {"idle", "lock", "multi"} /\ p \notin Exchange
    OBVIOUS
  <2>5. /\ Stepped(t) /\ thread'[t] = g /\ (InMulti(g) => InMulti(thread[t]))
    BY <2>2, <2>3, <2>4, Stayed DEF Inv, Exchange
  <2>6. Moves(t)
    BY <1>3, <2>2, <2>4, <2>5 DEF Moves, Stepped, LineMoves, Exchanging
  <2>7. DataTyped' /\ Answers'
    BY <1>3, <2>2, <2>4, <2>5, Aside DEF Exchange
  <2> QED
    BY <2>6, <2>7 DEF Keeps
<1> HIDE DEF Aim
<1>4. ASSUME EnterRead(t) \/ Connected(t) PROVE Keeps(t)
  <2>1. /\ thread[t].pc \in {"enter", "connected"} /\ UNCHANGED <<conn, sockets, lineLock>>
        /\ Goto(t, "test") \/ Goto(t, "connection")
    BY <1>4 DEF EnterRead, Connected
  <2> QED
    BY <1>0, <1>1, <2>1 DEF Exchange
<1>5. ASSUME TestConnected(t) PROVE Keeps(t)
  <2>1. PICK p \in {"announce", "open"} :
          thread' = [thread EXCEPT ![t].pc = p, ![t].result = TRUE]
    BY <1>5 DEF TestConnected
  <2>2. thread[t].pc = "test" /\ UNCHANGED <<conn, sockets, lineLock>>
    BY <1>5 DEF TestConnected
  <2> QED
    BY <1>0, <1>3, <2>1, <2>2 DEF Exchange
<1>6. ASSUME FlagConnected(t) PROVE Keeps(t)
  <2>1. /\ thread[t].pc = "flag" /\ UNCHANGED <<conn, sockets, lineLock>>
        /\ \/ Call(t, "check", "ident") \/ Call(t, "check", "again")
           \/ Goto(t, "connected")
    BY <1>6 DEF FlagConnected
  <2> QED
    BY <1>0, <1>1, <1>2, <2>1 DEF Exchange
<1>7. ASSUME CheckHWIdent(t) PROVE Keeps(t)
  <2>1. /\ thread[t].pc \in {"ident", "again"} /\ UNCHANGED <<conn, sockets, lineLock>>
        /\ \/ Call(t, "check", "again") \/ Call(t, "close", "lost")
           \/ Goto(t, "connected")
    BY <1>7 DEF CheckHWIdent
  <2> QED
    BY <1>0, <1>1, <1>2, <2>1 DEF Exchange
<1>8. ASSUME ReturnConnected(t) PROVE Keeps(t)
  <2>1. /\ thread[t].pc = "connection" /\ UNCHANGED <<conn, sockets, lineLock>>
        /\ thread' = [thread EXCEPT ![t].pc = "announce", ![t].result = is_connected]
    BY <1>8 DEF ReturnConnected
  <2>2. is_connected \in BOOLEAN
    BY DEF Inv, Typed
  <2> QED
    BY <1>0, <1>3, <2>1, <2>2 DEF Exchange
<1>9. ASSUME Announce(t) PROVE Keeps(t)
  BY <1>9, ReturnAside DEF Announce
<1>10. ASSUME Write(t) PROVE Keeps(t)
  <2>1. /\ thread[t].pc = "write" /\ UNCHANGED <<conn, sockets, lineLock>>
        /\ Call(t, "enter", "announce") \/ Call(t, "close", "announce")
    BY <1>10 DEF Write
  <2> QED
    BY <1>0, <1>2, <2>1
<1> QED
  BY <1>4, <1>5, <1>6, <1>7, <1>8, <1>9, <1>10

-----------------------------------------------------------------------------
(* The steps of an exchange.                                               *)

LEMMA TakingKeeps ==
  ASSUME Inv, NEW t \in Threads, TakeLine(t)
  PROVE  Keeps(t)
<1>1. /\ thread[t].pc = "take" /\ Goto(t, "flush") /\ UNCHANGED <<conn, sockets>>
      /\ CanTake(lineLock, t) /\ lineLock' = Taken(lineLock, t)
  BY DEF TakeLine, At
<1>2. /\ Stepped(t) /\ thread'[t].pc = "flush" /\ thread'[t].on = None
      /\ InMulti(thread'[t]) => InMulti(thread[t])
  BY <1>1, GotoStep DEF Inv, Labels
<1>3. Moves(t)
  BY <1>1, <1>2 DEF Moves, Stepped, LineMoves
<1>4. DataTyped' /\ Answers'
  BY <1>1, <1>2, Aside
<1> QED
  BY <1>3, <1>4 DEF Keeps

\* The connection in use has nothing on the way when t has not yet sent.
LEMMA NothingExpected ==
  ASSUME Inv, NEW t \in Threads, thread[t].pc \in {"flush", "send", "given"},
         conn # None, ~sockets[conn].late
  PROVE  Quiet(sockets[conn])
<1>1. Exchanging(thread[t])
  BY DEF Exchanging, Exchange
<1>2. ASSUME NEW u \in Threads, Awaits(u, conn) PROVE FALSE
  <2>1. thread[u].pc \in {"read", "reading"}
    BY <1>2 DEF Awaits, At
  <2>2. Exchanging(thread[u]) /\ u # t
    BY <2>1 DEF Exchanging, Exchange
  <2> QED
    BY <1>1, <2>2, OneExchange DEF Inv
<1> QED
  BY <1>2 DEF Inv, Answers, Expected

\* ... and when it reads, at most its answer is on the way.
LEMMA OwnExpected ==
  ASSUME Inv, NEW t \in Threads, thread[t].pc \in {"read", "reading"},
         conn # None, ~sockets[conn].late
  PROVE  /\ Quiet(sockets[conn]) \/ (Awaits(t, conn) /\ Only(sockets[conn], t))
         /\ Awaits(t, conn) => Only(sockets[conn], t)
<1>1. Exchanging(thread[t])
  BY DEF Exchanging, Exchange
<1>2. ASSUME NEW u \in Threads, Awaits(u, conn) PROVE u = t
  <2>1. thread[u].pc \in {"read", "reading"}
    BY <1>2 DEF Awaits, At
  <2>2. Exchanging(thread[u])
    BY <2>1 DEF Exchanging, Exchange
  <2> QED
    BY <1>1, <2>2, OneExchange DEF Inv
<1>3. Quiet(sockets[conn]) \/ (Awaits(t, conn) /\ Only(sockets[conn], t))
  BY <1>2 DEF Inv, Answers, Expected
<1>4. Quiet(sockets[conn]) => Only(sockets[conn], t)
  <2>1. Len(<<>>) = 0 /\ 0 + 0 <= 1
    OBVIOUS
  <2> QED
    BY <2>1, Zenon DEF Quiet, Only
<1> QED
  BY <1>3, <1>4

\* An exception while reading leaves nothing to read, or something late.
LEMMA GivingUpKeeps ==
  ASSUME Inv, NEW t \in Threads, thread[t].pc \in {"read", "reading"},
         Stepped(t), thread'[t].pc \notin {"reading", "given"}, conn' = conn,
         DataTyped', DeadIsQuiet',
         conn # None =>
           \/ Quiet(sockets'[conn]) \/ sockets'[conn].late
           \/ sockets'[conn] = sockets[conn] /\ ~Awaits(t, conn)
  PROVE  DataTyped' /\ Answers'
<1>1. Exchanging(thread[t])
  BY DEF Exchanging, Exchange
<1>2. conn # None /\ ~sockets'[conn].late => Quiet(sockets'[conn])
  BY OwnExpected
<1> QED
  BY <1>1, <1>2, WithinExchange

LEMMA FailingKeeps ==
  ASSUME Inv, NEW t \in Threads,
         NoConnection(t) \/ SendFails(t) \/ ReadClosed(t) \/ Timeout(t)
  PROVE  Keeps(t)
<1> USE DEF At
<1>1. Raise(t) /\ conn' = conn /\ Stepped(t) /\ thread'[t] = Idle /\ Moves(t)
  BY RaiseStep DEF Inv, NoConnection, SendFails, ReadClosed, Timeout, Fail
<1>2. ASSUME NoConnection(t) \/ SendFails(t), thread[t].pc # "read" PROVE Keeps(t)
  BY <1>1, <1>2, RaiseAside DEF NoConnection, SendFails
<1>3. ASSUME NoConnection(t), thread[t].pc = "read" PROVE Keeps(t)
  <2>1. sockets' = sockets /\ State(conn) = "closed"
    BY <1>3 DEF NoConnection
  <2>2. DataTyped' /\ DeadIsQuiet'
    BY <1>1, <2>1 DEF Inv, Typed, DataTyped, Answers, DeadIsQuiet
  <2>3. conn # None => Quiet(sockets'[conn])
    BY <2>1 DEF State, Inv, Typed, Answers, DeadIsQuiet, Quiet
  <2>4. DataTyped' /\ Answers'
    BY <1>1, <1>3, <2>2, <2>3, GivingUpKeeps DEF Idle
  <2> QED
    BY <1>1, <2>4 DEF Keeps
<1>4. ASSUME ReadClosed(t) PROVE Keeps(t)
  <2>1. sockets' = sockets /\ thread[t].pc = "reading" /\ State(thread[t].on) = "closed"
        /\ thread[t].on \in Sockets /\ thread[t].on # None
    BY <1>4, Places DEF ReadClosed, Inv
  <2>2. DataTyped' /\ DeadIsQuiet'
    BY <1>1, <2>1 DEF Inv, Typed, DataTyped, Answers, DeadIsQuiet
  <2>3. Quiet(sockets[thread[t].on])
    BY <2>1 DEF State, Inv, Answers, DeadIsQuiet, Quiet
  <2>4. conn = thread[t].on \/ ~Awaits(t, conn)
    BY <2>1 DEF Awaits
  <2>5. DataTyped' /\ Answers'
    BY <1>1, <2>1, <2>2, <2>3, <2>4, GivingUpKeeps DEF Idle
  <2> QED
    BY <1>1, <2>5 DEF Keeps
<1>5. ASSUME Timeout(t) PROVE Keeps(t)
  <2> DEFINE s == thread[t].on
  <2>1. /\ thread[t].pc = "reading" /\ s \in Sockets /\ s # None
        /\ sockets[s].arrived = <<>>
        /\ \/ sockets[s].owed = <<>> /\ sockets' = sockets
           \/ sockets' = [sockets EXCEPT ![s].late = TRUE]
    BY <1>5, Places DEF Timeout, Inv
  <2>2. sockets \in [Sockets -> SocketStates]
    BY DEF Inv, Typed
  <2> HIDE DEF s
  <2>3. ASSUME sockets[s].owed = <<>>, sockets' = sockets
        PROVE  /\ DataTyped' /\ DeadIsQuiet' /\ Quiet(sockets'[s])
               /\ \A r \in Sockets \ {s} : sockets'[r] = sockets[r]
    BY <1>1, <2>1, <2>3 DEF Inv, Typed, DataTyped, Answers, DeadIsQuiet, Quiet
  <2>4. ASSUME sockets' = [sockets EXCEPT ![s].late = TRUE]
        PROVE  /\ DataTyped' /\ DeadIsQuiet' /\ sockets'[s].late
               /\ \A r \in Sockets \ {s} : sockets'[r] = sockets[r]
    <3> DEFINE new == [sockets[s] EXCEPT !.late = TRUE]
    <3>1. /\ new \in SocketStates /\ new.late /\ new.state = sockets[s].state
          /\ new.arrived = sockets[s].arrived /\ new.owed = sockets[s].owed
      BY <2>1, <2>2 DEF SocketStates
    <3>2. sockets' = [sockets EXCEPT ![s] = new]
      BY <2>4
    <3> HIDE DEF new
    <3>3. /\ sockets' \in [Sockets -> SocketStates] /\ sockets'[s] = new
          /\ \A r \in Sockets \ {s} : sockets'[r] = sockets[r]
      BY <2>1, <2>2, <3>1, <3>2
    <3>4. DeadIsQuiet'
      BY <3>1, <3>3 DEF Inv, Answers, DeadIsQuiet
    <3> QED
      BY <1>1, <3>1, <3>3, <3>4 DEF Inv, Typed, DataTyped
  <2>5. conn = s \/ (conn # None => conn \in Sockets \ {s} /\ ~Awaits(t, conn))
    BY <2>1 DEF s, Awaits, Inv, Typed
  <2>6. DataTyped' /\ Answers'
    BY <1>1, <2>1, <2>3, <2>4, <2>5, GivingUpKeeps DEF Idle
  <2> QED
    BY <1>1, <2>6 DEF Keeps
<1> QED
  BY <1>2, <1>3, <1>4, <1>5 DEF SendFails

LEMMA EndKeeps ==
  ASSUME Inv, NEW t \in Threads, EndOfFile(t)
  PROVE  Keeps(t)
<1> DEFINE f == thread[t]
           g == [f EXCEPT !.pc = "close", !.stack = <<"lost">> \o @, !.on = None]
           s == f.on
<1>1. /\ f.pc = "reading" /\ ~Up(s) /\ sockets[s].arrived = <<>>
      /\ UNCHANGED <<conn, sockets, lineLock>>
      /\ s \in Sockets /\ s # None
      /\ thread \in [Threads -> GoodFrames] /\ f \in GoodFrames /\ f \in Frames
  BY Places DEF EndOfFile, At, locks, Inv, Typed, GoodFrames
<1>2. g.pc = "close" /\ g.on = None
  BY <1>1 DEF Frames
<1>3. thread' = [thread EXCEPT ![t] = g]
  BY <1>1 DEF EndOfFile
<1>4. g = [f EXCEPT !.pc = g.pc, !.stack = <<"lost">> \o @, !.on = None]
  BY <1>2
<1> HIDE DEF g
<1>5. g \in GoodFrames /\ (InMulti(g) => InMulti(f))
  <2>1. g.pc \in Labels \ {"idle", "lock", "multi", "reading"} /\ "lost" \in ReturnPlaces
    BY <1>2 DEF Labels, ReturnPlaces
  <2> QED
    BY <1>1, <1>4, <2>1, Pushed
<1>6. thread'[t] = g /\ Stepped(t)
  BY <1>1, <1>3, <1>5 DEF Stepped
<1>7. Moves(t)
  BY <1>1, <1>2, <1>5, <1>6 DEF Moves, Stepped, LineMoves, Exchanging, Exchange
<1>8. Quiet(sockets[s])
  BY <1>1 DEF Up, State, Inv, Answers, DeadIsQuiet, Quiet
<1>9. DataTyped' /\ DeadIsQuiet'
  BY <1>1 DEF Inv, Typed, DataTyped, Answers, DeadIsQuiet
<1>10. conn = s \/ ~Awaits(t, conn)
  BY <1>1 DEF Awaits, At
<1>11. DataTyped' /\ Answers'
  BY <1>1, <1>2, <1>6, <1>8, <1>9, <1>10, GivingUpKeeps
<1> QED
  BY <1>7, <1>11 DEF Keeps

LEMMA FlushKeeps ==
  ASSUME Inv, NEW t \in Threads, Flush(t)
  PROVE  Keeps(t)
<1> USE DEF At
<1>1. thread[t].pc = "flush" /\ conn' = conn /\ lineLock' = lineLock /\ Exchanging(thread[t])
  BY DEF Flush, locks, Exchanging, Exchange
<1>2. ASSUME Up(conn), sockets' = [sockets EXCEPT ![conn].arrived = <<>>], Goto(t, "send")
      PROVE  Keeps(t)
  <2> DEFINE new == [sockets[conn] EXCEPT !.arrived = <<>>]
  <2>1. sockets \in [Sockets -> SocketStates] /\ conn \in Sockets
    BY <1>2 DEF Inv, Typed, Up, State
  <2>2. /\ new \in SocketStates /\ new.arrived = <<>> /\ new.owed = sockets[conn].owed
        /\ new.late = sockets[conn].late /\ new.state = sockets[conn].state
    <3>1. <<>> \in Seq(Threads \cup {Late})
      OBVIOUS
    <3> QED
      BY <2>1, <3>1 DEF SocketStates
  <2>3. sockets' = [sockets EXCEPT ![conn] = new]
    BY <1>2
  <2> HIDE DEF new
  <2>4. /\ sockets' \in [Sockets -> SocketStates] /\ sockets'[conn] = new
        /\ \A s \in Sockets \ {conn} : sockets'[s] = sockets[s]
    BY <2>1, <2>2, <2>3
  <2>5. /\ Stepped(t) /\ thread'[t].pc = "send" /\ thread'[t].on = None
        /\ InMulti(thread'[t]) => InMulti(thread[t])
    BY <1>1, <1>2, GotoStep DEF Inv, Labels
  <2>6. Moves(t)
    BY <1>1, <2>5 DEF Moves, Stepped, LineMoves
  <2>7. DataTyped' /\ DeadIsQuiet'
    BY <1>1, <2>1, <2>2, <2>4 DEF DataTyped, Inv, Answers, DeadIsQuiet
  <2>8. ~sockets'[conn].late => Quiet(sockets'[conn])
    <3> SUFFICES ASSUME ~sockets'[conn].late PROVE Quiet(new)
      BY <2>4
    <3>1. ~sockets[conn].late /\ conn # None
      BY <1>2, <2>2, <2>4 DEF Up, State
    <3>2. Quiet(sockets[conn])
      BY <1>1, <3>1, NothingExpected
    <3> QED
      BY <2>2, <3>2 DEF Quiet
  <2>9. DataTyped' /\ Answers'
    BY <1>1, <2>5, <2>7, <2>8, WithinExchange
  <2> QED
    BY <2>6, <2>9 DEF Keeps
<1>3. ASSUME Call(t, "close", "lost"), sockets' = sockets PROVE Keeps(t)
  <2>1. "close" \in Labels \ (Exchange \cup {"idle", "lock", "multi"}) /\ "lost" \in ReturnPlaces
    BY DEF Labels, Exchange, ReturnPlaces
  <2> QED
    BY <1>1, <1>3, <2>1, CallAside
<1> QED
  BY <1>2, <1>3 DEF Flush

LEMMA SendKeeps ==
  ASSUME Inv, NEW t \in Threads, NEW noreply \in BOOLEAN, Send(t, noreply)
  PROVE  Keeps(t)
<1> USE DEF At
<1> DEFINE p == IF noreply THEN "given" ELSE "read"
           new == Sent(sockets[conn], t, noreply)
<1>1. /\ thread[t].pc = "send" /\ conn' = conn /\ lineLock' = lineLock /\ Exchanging(thread[t])
      /\ Goto(t, p)
      /\ sockets \in [Sockets -> SocketStates]
  BY DEF Send, locks, Exchanging, Exchange, Inv, Typed
<1>2. conn \in Sockets /\ conn # None
  BY DEF Send, Up, State, Inv, Typed
<1>3. p \in Labels \ {"idle", "lock", "multi", "reading"} /\ p \in {"read", "given"}
      /\ (noreply => p = "given") /\ (~noreply => p = "read")
  BY DEF Labels
<1> HIDE DEF p
<1>4. /\ Stepped(t) /\ thread'[t].pc = p /\ thread'[t].on = None
      /\ InMulti(thread'[t]) => InMulti(thread[t])
  BY <1>1, <1>3, GotoStep DEF Inv
<1>5. Moves(t)
  BY <1>1, <1>4 DEF Moves, Stepped, LineMoves
<1>6. /\ new \in SocketStates /\ new.state = sockets[conn].state
      /\ new.late = sockets[conn].late
      /\ Quiet(sockets[conn]) => Only(new, t) /\ (noreply => Quiet(new))
  BY <1>1, <1>2, RequestSent
<1> HIDE DEF new
<1>7. ~sockets[conn].late => Quiet(sockets[conn])
  BY <1>1, <1>2, NothingExpected
<1>8. (~noreply => Awaits(t, conn)')
  BY <1>3, <1>4 DEF Awaits
<1>9. CASE Up(conn)
  <2>1. sockets' = [sockets EXCEPT ![conn] = new]
    BY <1>9 DEF Send, Up, State, new
  <2>2. /\ sockets' \in [Sockets -> SocketStates] /\ sockets'[conn] = new
        /\ \A s \in Sockets \ {conn} : sockets'[s] = sockets[s]
    BY <1>1, <1>2, <1>6, <2>1
  <2>3. DataTyped' /\ DeadIsQuiet'
    BY <1>1, <1>2, <1>6, <1>9, <2>2 DEF DataTyped, Inv, Answers, DeadIsQuiet, Up, State
  <2>4. DataTyped' /\ Answers'
    BY <1>1, <1>3, <1>4, <1>6, <1>7, <1>8, <2>2, <2>3, WithinExchange
  <2> QED
    BY <1>5, <2>4 DEF Keeps
<1>10. CASE ~Up(conn)
  <2>1. sockets' = sockets
    BY <1>10 DEF Send
  <2>2. DataTyped' /\ DeadIsQuiet'
    BY <1>1, <1>2, <2>1 DEF DataTyped, Inv, Answers, DeadIsQuiet
  <2>3. DataTyped' /\ Answers'
    BY <1>1, <1>3, <1>4, <1>7, <2>1, <2>2, WithinExchange
  <2> QED
    BY <1>5, <2>3 DEF Keeps
<1> QED
  BY <1>9, <1>10

LEMMA ReadingKeeps ==
  ASSUME Inv, NEW t \in Threads, StartReading(t)
  PROVE  Keeps(t)
<1> USE DEF At
<1> DEFINE f == thread[t]
           g == [f EXCEPT !.pc = "reading", !.on = conn]
<1>1. /\ f.pc = "read" /\ UNCHANGED <<conn, sockets, lineLock>> /\ Exchanging(f)
      /\ conn \in Sockets /\ conn # None
      /\ f \in Frames
  BY Places DEF StartReading, locks, Exchanging, Exchange, State, Inv, Typed, GoodFrames
<1>2. thread' = [thread EXCEPT ![t] = g]
  BY DEF StartReading
<1>3. g \in Frames /\ g.pc = "reading" /\ g.on = conn /\ g.stack = f.stack
  BY <1>1 DEF Frames, Labels
<1> HIDE DEF g
<1>4. Stepped(t) /\ thread'[t] = g /\ (InMulti(g) => InMulti(f))
  BY <1>1, <1>2, <1>3, Stayed DEF Inv
<1>5. Moves(t)
  BY <1>1, <1>4 DEF Moves, Stepped, LineMoves
<1>6. DataTyped' /\ DeadIsQuiet'
  BY <1>1 DEF DataTyped, Inv, Typed, Answers, DeadIsQuiet
<1>7. ~sockets[conn].late => Only(sockets[conn], t)
  <2> SUFFICES ASSUME ~sockets[conn].late PROVE Only(sockets[conn], t)
    OBVIOUS
  <2>1. Awaits(t, conn)
    BY <1>1 DEF Awaits
  <2> QED
    BY <1>1, <2>1, OwnExpected
<1>8. Awaits(t, conn)'
  BY <1>1, <1>3, <1>4 DEF Awaits
<1>9. DataTyped' /\ Answers'
  BY <1>1, <1>3, <1>4, <1>6, <1>7, <1>8, WithinExchange
<1> QED
  BY <1>5, <1>9 DEF Keeps

LEMMA AnswerKeeps ==
  ASSUME Inv, NEW t \in Threads, ReadAnswer(t)
  PROVE  Keeps(t)
<1> USE DEF At
<1> DEFINE f == thread[t]
           s == f.on
           new == [sockets[s] EXCEPT !.arrived = Tail(@)]
           g == [f EXCEPT !.pc = "given", !.got = Head(sockets[s].arrived)]
<1>1. /\ f.pc = "reading" /\ conn' = conn /\ lineLock' = lineLock /\ Exchanging(f)
      /\ s \in Sockets /\ s # None /\ sockets[s].arrived # <<>>
      /\ f \in Frames /\ sockets \in [Sockets -> SocketStates]
  BY Places DEF ReadAnswer, locks, Exchanging, Exchange, Inv, Typed, GoodFrames
<1>2. /\ new \in SocketStates /\ Head(sockets[s].arrived) \in Threads \cup {Late}
      /\ Only(sockets[s], t) => Head(sockets[s].arrived) = t /\ Quiet(new)
  BY <1>1, AnswerRead
<1>3. new.late = sockets[s].late /\ new.state = sockets[s].state /\ new.owed = sockets[s].owed
  BY <1>1 DEF SocketStates
<1>4. thread' = [thread EXCEPT ![t] = g] /\ sockets' = [sockets EXCEPT ![s] = new]
  BY DEF ReadAnswer
<1>5. /\ g \in Frames /\ g.pc = "given" /\ g.on = s /\ g.stack = f.stack
      /\ g.got = Head(sockets[s].arrived)
  BY <1>1, <1>2 DEF Frames, Labels
<1> HIDE DEF g, new
<1>6. /\ sockets' \in [Sockets -> SocketStates] /\ sockets'[s] = new
      /\ \A r \in Sockets \ {s} : sockets'[r] = sockets[r]
  BY <1>1, <1>2, <1>4
<1>7. Stepped(t) /\ thread'[t] = g /\ (InMulti(g) => InMulti(f))
  BY <1>1, <1>4, <1>5, Stayed DEF Inv
<1>8. Moves(t)
  BY <1>1, <1>7 DEF Moves, Stepped, LineMoves
<1>9. DataTyped'
  BY <1>1, <1>6 DEF DataTyped, Inv, Typed
<1>10. DeadIsQuiet'
  BY <1>1, <1>3, <1>6 DEF Inv, Answers, DeadIsQuiet
<1>11. ~sockets[s].late => Only(sockets[s], t)
  BY <1>1 DEF Inv, Answers, OwnOnly
<1>12. g.got # t => sockets'[s].late
  BY <1>2, <1>3, <1>5, <1>6, <1>11
<1>13. conn # None /\ ~sockets'[conn].late => Quiet(sockets'[conn])
  <2> SUFFICES ASSUME conn # None, ~sockets'[conn].late PROVE Quiet(sockets'[conn])
    OBVIOUS
  <2>1. CASE conn = s
    BY <1>2, <1>3, <1>6, <1>11, <2>1
  <2>2. CASE conn # s
    <3>1. conn \in Sockets \ {s} /\ ~Awaits(t, conn)
      BY <1>1, <2>2 DEF Inv, Typed, Awaits
    <3>2. ~sockets[conn].late /\ sockets'[conn] = sockets[conn]
      BY <1>6, <3>1
    <3> QED
      BY <1>1, <3>1, <3>2, OwnExpected
  <2> QED
    BY <2>1, <2>2
<1>14. DataTyped' /\ Answers'
  BY <1>1, <1>5, <1>7, <1>9, <1>10, <1>12, <1>13, WithinExchange
<1> QED
  BY <1>8, <1>14 DEF Keeps

LEMMA GivenKeeps ==
  ASSUME Inv, NEW t \in Threads, Given(t)
  PROVE  Keeps(t)
<1>1. thread[t].pc = "given" /\ Return(t) /\ UNCHANGED <<conn, sockets>>
      /\ lineLock' = Released(lineLock)
  BY DEF Given, At
<1> QED
  BY <1>1, ReturnAside

\* A connection is opened on a socket nobody refers to; the one it replaces is
\* closed only when nobody reads from it.
LEMMA OpenKeeps ==
  ASSUME Inv, NEW t \in Threads, Open(t)
  PROVE  Keeps(t)
<1> USE DEF At
<1> DEFINE new == CHOOSE s \in Sockets : s \notin Referenced
           replaced == {conn} \ {thread[u].on : u \in Threads}
<1>1. /\ thread[t].pc = "open" /\ conn' = new /\ lineLock' = lineLock /\ Goto(t, "flag")
      /\ sockets' = [s \in Sockets |-> IF s = new THEN [Closed EXCEPT !.state = "up"]
                                      ELSE IF s \in replaced THEN Shut(sockets[s])
                                      ELSE sockets[s]]
  BY DEF Open, locks
<1>2. new \in Sockets /\ new \notin Referenced
  BY FreshSocket DEF Inv
<1>3. sockets \in [Sockets -> SocketStates]
  BY DEF Inv, Typed
<1> HIDE DEF new
<1>4. /\ \A s \in Sockets : Shut(sockets[s]) \in SocketStates /\ Quiet(Shut(sockets[s]))
      /\ [Closed EXCEPT !.state = "up"] \in SocketStates
      /\ Quiet([Closed EXCEPT !.state = "up"])
      /\ [Closed EXCEPT !.state = "up"].state = "up"
  <2>1. \A s \in Sockets : sockets[s].late \in BOOLEAN
    BY <1>3 DEF SocketStates
  <2>2. <<>> \in Seq(Threads \cup {Late})
    OBVIOUS
  <2> QED
    BY <2>1, <2>2 DEF Shut, Closed, Quiet, SocketStates
<1>5. sockets' \in [Sockets -> SocketStates]
  BY <1>1, <1>3, <1>4
<1>6. DataTyped'
  BY <1>1, <1>2, <1>5 DEF DataTyped
<1>7. DeadIsQuiet'
  <2> SUFFICES ASSUME NEW s \in Sockets
               PROVE  /\ sockets'[s].state # "up" => sockets'[s].owed = <<>>
                      /\ sockets'[s].state = "closed" => sockets'[s].arrived = <<>>
    BY DEF DeadIsQuiet
  <2>1. CASE s = new
    BY <1>1, <1>4, <2>1
  <2>2. CASE s # new /\ s \in replaced
    <3>1. Quiet(sockets'[s])
      BY <1>1, <1>4, <2>2
    <3> QED
      BY <3>1 DEF Quiet
  <2>3. CASE s # new /\ s \notin replaced
    <3>1. sockets'[s] = sockets[s]
      BY <1>1, <2>3
    <3> QED
      BY <3>1 DEF Inv, Answers, DeadIsQuiet
  <2> QED
    BY <2>1, <2>2, <2>3
<1>8. Expected'
  <2>1. Quiet(sockets'[conn'])
    BY <1>1, <1>2, <1>4
  <2> QED
    BY <2>1 DEF Expected
<1>9. /\ Stepped(t) /\ thread'[t].pc = "flag" /\ thread'[t].on = None
      /\ InMulti(thread'[t]) => InMulti(thread[t])
  BY <1>1, GotoStep DEF Inv, Labels
<1>10. Moves(t)
  BY <1>1, <1>9 DEF Moves, Stepped, LineMoves, Exchanging, Exchange
<1>11. ASSUME NEW u \in Threads, thread'[u].on # None
       PROVE  u # t /\ thread'[u] = thread[u] /\ sockets'[thread[u].on] = sockets[thread[u].on]
  <2>1. u # t /\ thread'[u] = thread[u]
    BY <1>9, <1>11 DEF Stepped, Inv, Typed
  <2>2. thread[u].on \in Sockets
    BY <1>11, <2>1, Places DEF Inv
  <2>3. thread[u].on \notin replaced
    OBVIOUS
  <2>4. thread[u].on # new
    BY <1>2, <2>2 DEF Referenced
  <2> HIDE DEF replaced
  <2> QED
    BY <1>1, <2>1, <2>2, <2>3, <2>4
<1>12. OwnOnly'
  <2> SUFFICES ASSUME NEW u \in Threads, At(u, "reading")',
                      (~sockets[thread[u].on].late)'
               PROVE  Only(sockets[thread[u].on], u)'
    BY DEF OwnOnly
  <2>1. u # t /\ thread'[u] = thread[u] /\ thread[u].on # None
    <3>1. u # t /\ thread'[u] = thread[u]
      BY <1>9 DEF Stepped, Inv, Typed
    <3> QED
      BY <3>1, Places DEF Inv
  <2>2. sockets'[thread[u].on] = sockets[thread[u].on]
    BY <1>11, <2>1
  <2> QED
    BY <2>1, <2>2 DEF Inv, Answers, OwnOnly
<1>13. AnswersMatch'
  BY <1>11 DEF Inv, Answers, AnswersMatch
<1> QED
  BY <1>6, <1>7, <1>8, <1>10, <1>12, <1>13 DEF Keeps, Answers

LEMMA MulticommKeeps ==
  ASSUME Inv, NEW t \in Threads, MulticommLock(t) \/ MulticommNext(t)
  PROVE  Keeps(t)
<1> USE DEF At, locks
<1> DEFINE f == thread[t]
<1>0. thread \in [Threads -> GoodFrames] /\ f \in GoodFrames /\ f \in Frames
  BY DEF Inv, Typed, GoodFrames
<1>1. ASSUME MulticommLock(t) PROVE Keeps(t)
  <2> DEFINE g == [f EXCEPT !.pc = "multi"]
  <2>1. /\ f.pc = "lock" /\ CanTake(lineLock, t) /\ lineLock' = Taken(lineLock, t)
        /\ UNCHANGED <<conn, sockets>> /\ thread' = [thread EXCEPT ![t] = g]
        /\ f.stack = <<>> /\ f.on = None
    BY <1>0, <1>1 DEF MulticommLock, Goto, GoodFrames
  <2>2. g \in Frames /\ g.pc = "multi" /\ g.on = None /\ g.stack = f.stack
    BY <1>0, <2>1 DEF Frames, Labels
  <2> HIDE DEF g
  <2>3. Stepped(t) /\ thread'[t] = g
    BY <2>1, <2>2, Stayed DEF Inv
  <2>4. Moves(t)
    BY <2>1, <2>2, <2>3 DEF Moves, Stepped, LineMoves, Exchanging, Exchange
  <2>5. DataTyped' /\ Answers'
    BY <2>1, <2>2, <2>3, Aside
  <2> QED
    BY <2>4, <2>5 DEF Keeps
<1>2. ASSUME MulticommNext(t), f.more > 0 PROVE Keeps(t)
  <2> DEFINE g == [f EXCEPT !.pc = "check", !.stack = <<"multi">>, !.more = @ - 1]
  <2>1. /\ f.pc = "multi" /\ lineLock' = lineLock
        /\ UNCHANGED <<conn, sockets>> /\ thread' = [thread EXCEPT ![t] = g]
        /\ f.on = None
    BY <1>0, <1>2 DEF MulticommNext, GoodFrames
  <2>2. /\ f.more - 1 \in 0 .. 2 /\ "check" \in Labels
        /\ <<"multi">> \in Seq(ReturnPlaces) /\ Len(<<"multi">>) = 1
        /\ DOMAIN <<"multi">> = {1} /\ <<"multi">>[1] = "multi"
    BY <1>0, <1>2 DEF Frames, Labels, ReturnPlaces
  <2>3. g \in Frames /\ g.pc = "check" /\ g.on = None /\ g.stack = <<"multi">>
    BY <1>0, <2>1, <2>2 DEF Frames
  <2> HIDE DEF g
  <2>4. g \in GoodFrames
    BY <2>2, <2>3 DEF GoodFrames
  <2>5. Stepped(t) /\ thread'[t] = g
    BY <1>0, <2>1, <2>4 DEF Stepped
  <2>6. Moves(t)
    BY <2>1, <2>3, <2>5 DEF Moves, Stepped, LineMoves, Exchanging, Exchange, InMulti
  <2>7. DataTyped' /\ Answers'
    BY <2>1, <2>3, <2>5, Aside
  <2> QED
    BY <2>6, <2>7 DEF Keeps
<1>3. ASSUME MulticommNext(t), ~(f.more > 0) PROVE Keeps(t)
  <2>1. /\ f.pc = "multi" /\ lineLock' = Released(lineLock) /\ f.stack = <<>>
        /\ UNCHANGED <<conn, sockets>> /\ thread' = [thread EXCEPT ![t] = Idle]
    BY <1>0, <1>3 DEF MulticommNext, Return, Returned, GoodFrames
  <2>2. lineLock.owner = t
    BY <2>1 DEF Inv, LineHeld, Holds, InMulti
  <2>3. Stepped(t) /\ thread'[t] = Idle
    BY <1>0, <2>1, IdleIsGood DEF Stepped
  <2>4. Moves(t)
    BY <2>1, <2>2, <2>3, IdleIsGood DEF Moves, Stepped, LineMoves
  <2>5. DataTyped' /\ Answers'
    BY <2>1, <2>3, Aside DEF Idle
  <2> QED
    BY <2>4, <2>5 DEF Keeps
<1> QED
  BY <1>1, <1>2, <1>3

-----------------------------------------------------------------------------
(* The calls from outside, and the device.                                 *)

LEMMA CallsKeep ==
  ASSUME Inv, NEW t \in Threads,
         \/ CallFrom(t)
         \/ t = Poller /\ (DoPoll \/ PollModule)
  PROVE  Keeps(t)
<1> USE DEF At, locks
<1> DEFINE f == thread[t]
<1>0. /\ thread \in [Threads -> GoodFrames] /\ f \in GoodFrames /\ f \in Frames
      /\ f.pc = "idle" /\ f.stack = <<>> /\ f.on = None
      /\ UNCHANGED <<conn, sockets, lineLock>>
  <2>1. f.pc = "idle" /\ UNCHANGED <<conn, sockets, lineLock>>
    BY DEF CallFrom, Communicate, Reconnect, Multicomm, WriteIsConnected, Start, DoPoll,
           PollModule
  <2>2. thread \in [Threads -> GoodFrames] /\ f \in GoodFrames
    BY DEF Inv, Typed
  <2> QED
    BY <2>1, <2>2 DEF GoodFrames
\* ... which goes to p, with the arguments of the call.
<1>1. ASSUME NEW g \in Frames, g.pc \in {"check", "enter", "write", "lock"},
             g.on = None, g.stack = <<>>, thread' = [thread EXCEPT ![t] = g]
      PROVE  Keeps(t)
  <2>1. Stepped(t) /\ thread'[t] = g /\ (InMulti(g) => InMulti(f))
    BY <1>0, <1>1, Stayed DEF Inv
  <2>2. Moves(t)
    BY <1>0, <1>1, <2>1 DEF Moves, Stepped, LineMoves, Exchanging, Exchange
  <2>3. DataTyped' /\ Answers'
    BY <1>0, <1>1, <2>1, Aside
  <2> QED
    BY <2>2, <2>3 DEF Keeps
<1>2. ASSUME NEW p \in {"check", "enter"}, Goto(t, p) PROVE Keeps(t)
  <2> DEFINE g == [f EXCEPT !.pc = p]
  <2>1. g \in Frames /\ g.pc = p /\ g.on = None /\ g.stack = <<>>
    BY <1>0 DEF Frames, Labels
  <2>2. thread' = [thread EXCEPT ![t] = g]
    BY <1>2 DEF Goto
  <2> HIDE DEF g
  <2> QED
    BY <1>1, <2>1, <2>2
<1>3. ASSUME Communicate(t) \/ (t = Poller /\ (DoPoll \/ PollModule)) PROVE Keeps(t)
  <2>1. Goto(t, "check") \/ Goto(t, "enter")
    BY <1>3 DEF Communicate, DoPoll, PollModule
  <2> QED
    BY <1>2, <2>1
<1>4. ASSUME Reconnect(t) PROVE Keeps(t)
  <2>1. Call(t, "close", "enter")
    BY <1>4 DEF Reconnect
  <2>2. "close" \in Labels \ (Exchange \cup {"idle", "lock", "multi"}) /\ "enter" \in ReturnPlaces
    BY DEF Labels, Exchange, ReturnPlaces
  <2> QED
    BY <1>0, <2>1, <2>2, CallAside
<1>5. ASSUME NEW value \in BOOLEAN, WriteIsConnected(t, value) PROVE Keeps(t)
  <2> DEFINE g == [f EXCEPT !.pc = "write", !.result = value]
  <2>1. g \in Frames /\ g.pc = "write" /\ g.on = None /\ g.stack = <<>>
    BY <1>0 DEF Frames, Labels
  <2>2. thread' = [thread EXCEPT ![t] = g]
    BY <1>5 DEF WriteIsConnected
  <2> HIDE DEF g
  <2> QED
    BY <1>1, <2>1, <2>2
<1>6. ASSUME Multicomm(t) PROVE Keeps(t)
  <2> DEFINE g == [f EXCEPT !.pc = "lock", !.more = 2]
  <2>0. 2 \in 0 .. 2 /\ "lock" \in Labels
    BY DEF Labels
  <2>1. g \in Frames /\ g.pc = "lock" /\ g.on = None /\ g.stack = <<>>
    BY <1>0, <2>0 DEF Frames
  <2>2. thread' = [thread EXCEPT ![t] = g]
    BY <1>6 DEF Multicomm
  <2> HIDE DEF g
  <2> QED
    BY <1>1, <2>1, <2>2
<1> QED
  BY <1>3, <1>4, <1>5, <1>6 DEF CallFrom

\* The device sends an answer owed, or drops a connection.
LEMMA DeviceKeeps ==
  ASSUME Inv, NEW s \in Sockets, Answer(s) \/ Drop(s)
  PROVE  DataTyped' /\ Answers'
<1>0. /\ sockets \in [Sockets -> SocketStates] /\ sockets[s] \in SocketStates
      /\ sockets[s].state = "up" /\ UNCHANGED <<conn, thread>>
  BY Places DEF Answer, Drop, Up, State, Inv, Typed
<1>1. ASSUME NEW r \in SocketStates, sockets' = [sockets EXCEPT ![s] = r],
             r.late = sockets[s].late, \A t : Only(sockets[s], t) => Only(r, t),
             Quiet(sockets[s]) => Quiet(r),
             r.state # "up" => r.owed = <<>>, r.state # "closed"
      PROVE  DataTyped' /\ Answers'
  <2>1. /\ sockets' \in [Sockets -> SocketStates] /\ sockets'[s] = r
        /\ \A q \in Sockets \ {s} : sockets'[q] = sockets[q]
    BY <1>0, <1>1
  <2>2. \A q \in Sockets :
          /\ sockets'[q].late = sockets[q].late
          /\ \A t : Only(sockets[q], t) => Only(sockets'[q], t)
          /\ Quiet(sockets[q]) => Quiet(sockets'[q])
    BY <1>1, <2>1
  <2>3. DataTyped'
    BY <1>0, <2>1 DEF DataTyped, Inv, Typed
  <2>4. DeadIsQuiet'
    BY <1>1, <2>1 DEF Inv, Answers, DeadIsQuiet
  <2>5. Expected'
    <3> SUFFICES ASSUME conn # None, ~sockets'[conn].late
                 PROVE  \/ Quiet(sockets'[conn])
                        \/ \E t \in Threads : Awaits(t, conn)' /\ Only(sockets'[conn], t)
      BY <1>0 DEF Expected
    <3>1. conn \in Sockets
      BY DEF Inv, Typed
    <3>2. \/ Quiet(sockets[conn])
          \/ \E t \in Threads : Awaits(t, conn) /\ Only(sockets[conn], t)
      BY <2>2, <3>1 DEF Inv, Answers, Expected
    <3>3. \A t \in Threads : Awaits(t, conn) => Awaits(t, conn)'
      BY <1>0 DEF Awaits, At
    <3> QED
      BY <2>2, <3>1, <3>2, <3>3
  <2>6. OwnOnly'
    <3> SUFFICES ASSUME NEW t \in Threads, thread[t].pc = "reading",
                        ~sockets'[thread[t].on].late
                 PROVE  Only(sockets'[thread[t].on], t)
      BY <1>0 DEF OwnOnly, At
    <3>1. thread[t].on \in Sockets
      BY Places DEF Inv
    <3> QED
      BY <2>2, <3>1 DEF Inv, Answers, OwnOnly, At
  <2>7. AnswersMatch'
    <3> SUFFICES ASSUME NEW t \in Threads, thread[t].pc = "given",
                        thread[t].on # None, thread[t].got # t
                 PROVE  sockets'[thread[t].on].late
      BY <1>0 DEF AnswersMatch, At
    <3>1. thread[t].on \in Sockets
      BY Places DEF Inv
    <3> QED
      BY <2>2, <3>1 DEF Inv, Answers, AnswersMatch, At
  <2> QED
    BY <2>3, <2>4, <2>5, <2>6, <2>7 DEF Answers
<1>2. CASE Answer(s)
  <2> DEFINE r == [sockets[s] EXCEPT !.owed = Tail(@),
                                     !.arrived = Append(@, Head(sockets[s].owed))]
  <2>1. /\ r \in SocketStates /\ \A t : Only(sockets[s], t) => Only(r, t)
        /\ sockets[s].owed # <<>>
    BY <1>0, <1>2, AnswerMoves DEF Answer
  <2>2. r.late = sockets[s].late /\ r.state = "up"
    BY <1>0 DEF SocketStates
  <2>3. sockets' = [sockets EXCEPT ![s] = r]
    BY <1>2 DEF Answer
  <2> HIDE DEF r
  <2> QED
    BY <1>1, <2>1, <2>2, <2>3 DEF Quiet
<1>3. CASE Drop(s)
  <2> DEFINE r == [sockets[s] EXCEPT !.state = "dropped", !.owed = <<>>]
  <2>0. <<>> \in Seq(Threads \cup {Late}) /\ Len(<<>>) = 0
    OBVIOUS
  <2>1. /\ r \in SocketStates /\ r.late = sockets[s].late /\ r.state = "dropped"
        /\ r.owed = <<>> /\ r.arrived = sockets[s].arrived
    BY <1>0, <2>0 DEF SocketStates
  <2>2. sockets' = [sockets EXCEPT ![s] = r]
    BY <1>3 DEF Drop
  <2> HIDE DEF r
  <2>3. \A t : Only(sockets[s], t) => Only(r, t)
    <3>1. Len(sockets[s].arrived) \in Nat /\ Len(sockets[s].owed) \in Nat
      BY <1>0 DEF SocketStates
    <3>2. Len(sockets[s].arrived) + Len(sockets[s].owed) <= 1
            => Len(sockets[s].arrived) + 0 <= 1
      <4>1. \A k, m \in Nat : k + m <= 1 => k + 0 <= 1
        OBVIOUS
      <4> QED
        BY <3>1, <4>1, Zenon
    <3> QED
      BY <2>0, <2>1, <3>2, Zenon DEF Only
  <2> QED
    BY <1>1, <2>1, <2>2, <2>3 DEF Quiet
<1> QED
  BY <1>2, <1>3

-----------------------------------------------------------------------------
(* The theorem.                                                            *)

\* is_connected is set to TRUE, FALSE or to the result of a method.
LEMMA FlagTyped ==
  ASSUME Inv, [Next]_vars
  PROVE  is_connected' \in BOOLEAN
<1>1. \A t \in Threads : thread[t].result \in BOOLEAN
  BY DEF Inv, Typed, GoodFrames, Frames
<1>2. is_connected \in BOOLEAN
  BY DEF Inv, Typed
<1>3. ASSUME NEW t \in Threads, Step(t) PROVE is_connected' \in BOOLEAN
  BY <1>1, <1>2, <1>3
     DEF Step, CloseConnection, ForgetConnection, ConnectionClosed, CheckConnection,
         ConnectionChecked, TakeLine, NoConnection, Flush, Send, SendFails, StartReading,
         ReadAnswer, Timeout, EndOfFile, ReadClosed, ConnectionLost, Given, EnterRead,
         TestConnected, Open, Refused, FlagConnected, CheckHWIdent, Connected,
         ReturnConnected, Announce, Write, MulticommLock, MulticommNext
<1>4. ASSUME UNCHANGED is_connected PROVE is_connected' \in BOOLEAN
  BY <1>2, <1>4
<1> QED
  BY <1>3, <1>4
     DEF Next, vars, DoPoll, PollModule, CallFrom, Communicate, Reconnect, Multicomm,
         WriteIsConnected, Start, Device, Answer, Drop, PollintervalOver

LEMMA InitInv == Init => Inv
<1> SUFFICES ASSUME Init PROVE Inv
  OBVIOUS
<1>1. /\ is_connected = FALSE /\ conn = None /\ lineLock = Free
      /\ sockets = [s \in Sockets |-> Closed] /\ thread = [t \in Threads |-> Idle]
  BY DEF Init
<1>2. Closed \in SocketStates /\ Quiet(Closed)
  <2>1. <<>> \in Seq(Threads \cup {Late})
    OBVIOUS
  <2> QED
    BY <2>1 DEF Closed, SocketStates, Quiet
<1>3. Free \in Locks /\ Free.owner = None /\ Free.depth = 0
  BY DEF Free, Locks
<1>4. Typed
  BY <1>1, <1>2, <1>3, IdleIsGood DEF Typed
<1>5. LineHeld
  BY <1>1, IdleIsGood DEF LineHeld, Holds
<1>6. DeadIsQuiet /\ Expected
  BY <1>1, <1>2 DEF DeadIsQuiet, Expected, Quiet
<1>7. OwnOnly /\ AnswersMatch
  BY <1>1 DEF OwnOnly, AnswersMatch, At, Idle
<1> QED
  BY <1>4, <1>5, <1>6, <1>7 DEF Inv, Answers

LEMMA StepKeeps ==
  ASSUME Inv, NEW t \in Threads, Step(t)
  PROVE  Keeps(t)
BY ClosingKeeps, CheckKeeps, ConnectKeeps, TakingKeeps, FailingKeeps, EndKeeps, FlushKeeps,
   SendKeeps, ReadingKeeps, AnswerKeeps, GivenKeeps, OpenKeeps, MulticommKeeps DEF Step

LEMMA InvStep == Inv /\ [Next]_vars => Inv'
<1> SUFFICES ASSUME Inv, [Next]_vars PROVE Inv'
  OBVIOUS
<1>0. is_connected' \in BOOLEAN
  BY FlagTyped
<1>1. ASSUME NEW t \in Threads, Keeps(t) PROVE Inv'
  <2>1. /\ lineLock' \in Locks /\ (lineLock'.owner = None <=> lineLock'.depth = 0)
        /\ thread' \in [Threads -> GoodFrames]
        /\ LineHeld'
    BY <1>1, LineStep DEF Keeps, Inv
  <2>2. conn' \in Sockets \cup {None} /\ sockets' \in [Sockets -> SocketStates]
    BY <1>1 DEF Keeps, DataTyped
  <2>3. Typed'
    BY <1>0, <2>1, <2>2 DEF Typed
  <2> QED
    BY <1>1, <2>1, <2>3 DEF Keeps, Inv
<1>2. ASSUME NEW t \in Threads, Step(t) PROVE Inv'
  BY <1>1, <1>2, StepKeeps
<1>3. ASSUME NEW t \in Users, CallFrom(t) PROVE Inv'
  <2>1. t \in Threads
    BY DEF Threads
  <2> QED
    BY <1>1, <1>3, <2>1, CallsKeep
<1>4. ASSUME DoPoll \/ PollModule PROVE Inv'
  <2>1. Poller \in Threads
    BY DEF Threads
  <2> QED
    BY <1>1, <1>4, <2>1, CallsKeep
<1>5. ASSUME NEW s \in Sockets, Answer(s) \/ Drop(s) PROVE Inv'
  <2>1. DataTyped' /\ Answers'
    BY <1>5, DeviceKeeps
  <2>2. UNCHANGED <<lineLock, thread>>
    BY <1>5 DEF Answer, Drop, locks
  <2>3. Typed'
    BY <1>0, <2>1, <2>2 DEF Inv, Typed, DataTyped
  <2>4. LineHeld'
    BY <2>2 DEF Inv, LineHeld
  <2> QED
    BY <2>1, <2>3, <2>4 DEF Inv
<1>6. ASSUME UNCHANGED <<is_connected, conn, sockets, lineLock, thread>> PROVE Inv'
  BY <1>6 DEF Inv, Typed, LineHeld, Answers, DeadIsQuiet, Expected, Awaits, OwnOnly,
              AnswersMatch, At
<1>7. CASE UNCHANGED vars
  BY <1>6, <1>7 DEF vars
<1>8. CASE PollintervalOver
  BY <1>6, <1>8 DEF PollintervalOver, locks
<1>9. CASE Device
  BY <1>5, <1>9 DEF Device, Referenced
<1> QED
  BY <1>2, <1>3, <1>4, <1>7, <1>8, <1>9 DEF Next

\* communicate gives the caller the answer to its own request, whatever connections
\* are dropped, closed or replaced meanwhile, by whichever thread (io.py, lines
\* 258ff), unless an answer on the same connection came after its timeout.
THEOREM AnswersBelong == SafetySpec => []AnswersMatch
<1>1. Inv => AnswersMatch
  BY DEF Inv, Answers
<1> QED
  BY <1>1, InitInv, InvStep, PTL DEF SafetySpec

-----------------------------------------------------------------------------
(* Communicators: the flag, and how many connections there are.  Methods   *)
(* and accessLock first.                                                   *)

\* Where a thread is within read_is_connected and has taken accessLock for it, or is
\* about to assign the result; and the calls made from there.
Within == {"test", "open", "flag", "ident", "again", "connected", "connection", "announce"}
InAccess == {"ident", "again", "announce"}

\* ... within communicate, within closeConnection.
InCommunicate == {"check", "checked", "take"} \cup Exchange
Closes == {"close", "forget", "unflag"}

\* Where a method called from a place, or being at it, may have been called from.
Below(place) ==
  IF place \in InCommunicate THEN {"ident", "again", "multi"}
  ELSE IF place \in Within \cup {"enter"} THEN {"checked", "announce"}
  ELSE IF place \in Closes THEN {"lost", "announce", "enter"}
  ELSE IF place = "lost" THEN ReturnPlaces ELSE {}

\* The methods a thread is in; write_is_connected calls closeConnection only to
\* disconnect.
Nested(f) ==
  /\ f.stack # <<>> => Head(f.stack) \in Below(f.pc)
  /\ \A i \in 1 .. Len(f.stack) - 1 : f.stack[i + 1] \in Below(f.stack[i])
  /\ f.pc \in Closes /\ f.stack # <<>> /\ Head(f.stack) = "announce" => ~f.result

\* How many times a thread has taken accessLock, at least.
Entries(places) == {i \in DOMAIN places : places[i] \in InAccess}
Count(places) == Cardinality(Entries(places))
Entered(f) == Count(f.stack) + (IF f.pc \in Within THEN 1 ELSE 0)

Nesting == \A t \in Threads : Nested(thread[t])

AccessHeld ==
  /\ accessLock \in Locks /\ (accessLock.owner = None <=> accessLock.depth = 0)
  /\ \A t \in Threads :
       Entered(thread[t]) > 0
         => accessLock.owner = t /\ accessLock.depth >= Entered(thread[t])

LEMMA CountType ==
  ASSUME NEW q \in Seq(ReturnPlaces)
  PROVE  Count(q) \in Nat /\ IsFiniteSet(Entries(q)) /\ (q = <<>> => Count(q) = 0)
<1>1. DOMAIN q = 1 .. Len(q) /\ Len(q) \in Nat
  OBVIOUS
<1>2. IsFiniteSet(1 .. Len(q))
  BY <1>1, FS_Interval
<1>3. Entries(q) \subseteq 1 .. Len(q)
  BY <1>1 DEF Entries
<1>4. IsFiniteSet(Entries(q))
  BY <1>2, <1>3, FS_Subset
<1>5. q = <<>> => Entries(q) = {}
  BY DEF Entries
<1> QED
  BY <1>4, <1>5, FS_CardinalityType, FS_EmptySet DEF Count

LEMMA CountTail ==
  ASSUME NEW q \in Seq(ReturnPlaces), q # <<>>
  PROVE  Count(q) = Count(Tail(q)) + (IF Head(q) \in InAccess THEN 1 ELSE 0)
<1> DEFINE T == Entries(Tail(q))
           up == [i \in T |-> i + 1]
           S == {up[i] : i \in T}
<1>1. /\ Tail(q) \in Seq(ReturnPlaces) /\ Len(Tail(q)) = Len(q) - 1 /\ Len(q) \in Nat \ {0}
      /\ Head(q) = q[1]
      /\ \A i \in 1 .. Len(q) - 1 : Tail(q)[i] = q[i + 1]
  BY HeadTailProperties, EmptySeq
<1>2. /\ T = {i \in 1 .. Len(q) - 1 : q[i + 1] \in InAccess}
      /\ Entries(q) = {i \in 1 .. Len(q) : q[i] \in InAccess}
  <2>1. DOMAIN Tail(q) = 1 .. Len(q) - 1 /\ DOMAIN q = 1 .. Len(q)
    BY <1>1
  <2> QED
    BY <1>1, <2>1 DEF Entries
<1>3. IsFiniteSet(T) /\ Cardinality(T) \in Nat
  BY <1>1, CountType DEF Count
<1>4. T \subseteq Nat
  BY <1>1, <1>2
<1> HIDE DEF T
<1>5. IsFiniteSet(S) /\ Cardinality(S) = Cardinality(T)
  <2>1. up \in [T -> S]
    OBVIOUS
  <2>2. \A i, j \in T : up[i] = up[j] => i = j
    BY <1>4
  <2>3. \A y \in S : \E i \in T : up[i] = y
    OBVIOUS
  <2> HIDE DEF up, S
  <2>4. up \in Surjection(T, S) /\ up \in Injection(T, S)
    BY <2>1, <2>2, <2>3 DEF Surjection, Injection, IsInjective
  <2> QED
    BY <1>3, <2>4, FS_Surjection
<1>6. S = {i \in 2 .. Len(q) : q[i] \in InAccess}
  <2>1. ASSUME NEW y \in S PROVE y \in 2 .. Len(q) /\ q[y] \in InAccess
    <3>1. PICK i \in T : y = i + 1
      BY <2>1
    <3> QED
      BY <1>1, <1>2, <3>1
  <2>2. ASSUME NEW y \in 2 .. Len(q), q[y] \in InAccess PROVE y \in S
    <3>1. y - 1 \in 1 .. Len(q) - 1 /\ (y - 1) + 1 = y
      BY <1>1
    <3>2. y - 1 \in T
      BY <1>2, <2>2, <3>1
    <3>3. up[y - 1] = y
      BY <3>1, <3>2
    <3> QED
      BY <3>2, <3>3
  <2> HIDE DEF S
  <2> QED
    BY <2>1, <2>2
<1> HIDE DEF S
<1>7. CASE q[1] \in InAccess
  <2>1. Entries(q) = S \cup {1} /\ 1 \notin S
    BY <1>1, <1>2, <1>6, <1>7
  <2>2. Cardinality(S \cup {1}) = Cardinality(S) + 1
    BY <1>5, <2>1, FS_AddElement
  <2> QED
    BY <1>1, <1>3, <1>5, <1>7, <2>1, <2>2 DEF Count, T
<1>8. CASE q[1] \notin InAccess
  <2>1. Entries(q) = S
    BY <1>1, <1>2, <1>6, <1>8
  <2> QED
    BY <1>1, <1>3, <1>5, <1>8, <2>1 DEF Count, T
<1> QED
  BY <1>7, <1>8

LEMMA EnteredType ==
  ASSUME NEW f \in GoodFrames
  PROVE  Entered(f) \in Nat /\ Count(f.stack) \in Nat /\ f.stack \in Seq(ReturnPlaces)
BY CountType DEF Entered, GoodFrames, Frames

\* A method called, and a method left.
LEMMA CalledNested ==
  ASSUME NEW f \in GoodFrames, NEW g \in GoodFrames, Nested(f), NEW next \in ReturnPlaces,
         g.stack = <<next>> \o f.stack,
         next \in Below(g.pc), f.stack # <<>> => Head(f.stack) \in Below(next),
         g.pc \in Closes /\ next = "announce" => ~g.result
  PROVE  /\ Nested(g)
         /\ Entered(g) = Count(f.stack) + (IF next \in InAccess THEN 1 ELSE 0)
                           + (IF g.pc \in Within THEN 1 ELSE 0)
<1>0. f.stack \in Seq(ReturnPlaces) /\ g.stack \in Seq(ReturnPlaces)
  BY EnteredType
<1>1. /\ Len(g.stack) = Len(f.stack) + 1 /\ g.stack # <<>> /\ Len(f.stack) \in Nat
      /\ g.stack[1] = next /\ Head(g.stack) = next /\ Tail(g.stack) = f.stack
      /\ \A i \in 1 .. Len(f.stack) : g.stack[i + 1] = f.stack[i]
      /\ f.stack # <<>> => Head(f.stack) = f.stack[1]
  BY <1>0
<1>2. Count(g.stack) = Count(f.stack) + (IF next \in InAccess THEN 1 ELSE 0)
  BY <1>0, <1>1, CountTail
<1>3. ASSUME NEW i \in 1 .. Len(g.stack) - 1 PROVE g.stack[i + 1] \in Below(g.stack[i])
  <2>1. CASE i = 1
    <3>1. Len(f.stack) # 0
      BY <1>1, <1>3, <2>1
    <3>2. f.stack # <<>>
      BY <3>1
    <3> QED
      BY <1>1, <2>1, <3>1, <3>2
  <2>2. CASE i # 1
    <3>1. i - 1 \in 1 .. Len(f.stack) - 1 /\ (i - 1) + 1 = i /\ i \in 1 .. Len(f.stack)
      BY <1>1, <2>2
    <3>2. g.stack[i + 1] = f.stack[i] /\ g.stack[i] = f.stack[i - 1]
      BY <1>1, <3>1
    <3>3. f.stack[(i - 1) + 1] \in Below(f.stack[i - 1])
      BY <3>1 DEF Nested
    <3> QED
      BY <3>1, <3>2, <3>3
  <2> QED
    BY <2>1, <2>2
<1>4. Nested(g)
  BY <1>1, <1>3 DEF Nested
<1> QED
  BY <1>2, <1>4 DEF Entered

LEMMA ReturnedNested ==
  ASSUME NEW f \in GoodFrames, Nested(f), f.stack # <<>>, NEW g \in GoodFrames,
         g.pc = Head(f.stack), g.stack = Tail(f.stack)
  PROVE  /\ Nested(g) /\ g.pc \in Below(f.pc)
         /\ Entered(g) <= Count(f.stack)
<1>0. f.stack \in Seq(ReturnPlaces) /\ g.stack \in Seq(ReturnPlaces)
  BY EnteredType
<1>1. /\ Len(g.stack) = Len(f.stack) - 1 /\ Len(f.stack) \in Nat \ {0}
      /\ g.pc = f.stack[1] /\ g.pc \in ReturnPlaces
      /\ \A i \in 1 .. Len(f.stack) - 1 : g.stack[i] = f.stack[i + 1]
      /\ g.stack # <<>> => Head(g.stack) = g.stack[1] /\ Len(g.stack) # 0
  <2>1. /\ Head(f.stack) \in ReturnPlaces
        /\ Len(Tail(f.stack)) = Len(f.stack) - 1 /\ Len(f.stack) \in Nat \ {0}
        /\ Head(f.stack) = f.stack[1]
        /\ \A i \in 1 .. Len(f.stack) - 1 : Tail(f.stack)[i] = f.stack[i + 1]
    BY <1>0, HeadTailProperties, EmptySeq
  <2>2. g.stack # <<>> => Head(g.stack) = g.stack[1] /\ Len(g.stack) # 0
    <3> DEFINE q == g.stack
    <3>1. q \in Seq(ReturnPlaces)
      BY <1>0
    <3> HIDE DEF q
    <3>2. q # <<>> => Head(q) = q[1] /\ Len(q) # 0
      BY <3>1, EmptySeq
    <3> QED
      BY <3>2 DEF q
  <2> QED
    BY <2>1, <2>2
<1>2. ASSUME g.stack # <<>> PROVE Head(g.stack) \in Below(g.pc)
  <2>1. 1 \in 1 .. Len(f.stack) - 1
    BY <1>1, <1>2
  <2>2. f.stack[1 + 1] \in Below(f.stack[1])
    BY <2>1 DEF Nested
  <2> QED
    BY <1>1, <1>2, <2>1, <2>2
<1>3. ASSUME NEW i \in 1 .. Len(g.stack) - 1 PROVE g.stack[i + 1] \in Below(g.stack[i])
  <2>1. i + 1 \in 1 .. Len(f.stack) - 1 /\ i \in 1 .. Len(f.stack) - 1
    BY <1>1
  <2>2. f.stack[(i + 1) + 1] \in Below(f.stack[i + 1])
    BY <2>1 DEF Nested
  <2> QED
    BY <1>1, <2>1, <2>2
<1>4. g.pc \notin Closes
  BY <1>1 DEF Closes, ReturnPlaces
<1>5. Nested(g)
  BY <1>2, <1>3, <1>4 DEF Nested
<1>6. Entered(g) <= Count(f.stack)
  <2>1. Count(f.stack) = Count(g.stack) + (IF g.pc \in InAccess THEN 1 ELSE 0)
    BY <1>0, CountTail
  <2>2. Count(g.stack) \in Nat
    BY EnteredType
  <2>3. g.pc \in Within => g.pc \in InAccess
    BY <1>1 DEF Within, InAccess, ReturnPlaces
  <2> QED
    BY <2>1, <2>2, <2>3 DEF Entered
<1> QED
  BY <1>5, <1>6 DEF Nested

\* What a step does to the frame f of the thread, which becomes g, and to accessLock.
AccessMoves(t, f, g) ==
  \/ accessLock' = accessLock /\ Entered(g) <= Entered(f)
  \/ /\ CanTake(accessLock, t) /\ accessLock' = Taken(accessLock, t)
     /\ Entered(g) <= Entered(f) + 1
  \/ g = Idle /\ accessLock' = Dropped(accessLock, t)
  \/ /\ Entered(f) > 0 /\ accessLock' = Released(accessLock)
     /\ Entered(g) <= Entered(f) - 1

FrameMoves(t) ==
  /\ Stepped(t) /\ Nested(thread'[t])
  /\ AccessMoves(t, thread[t], thread'[t])

LEMMA IdleNested == Nested(Idle) /\ Entered(Idle) = 0
<1>1. <<>> \in Seq(ReturnPlaces) /\ Len(<<>>) = 0
  OBVIOUS
<1>2. Idle.pc = "idle" /\ Idle.stack = <<>>
  BY DEF Idle
<1>3. 1 .. Len(Idle.stack) - 1 = {}
  BY <1>1, <1>2
<1>4. Entered(Idle) = 0
  <2>1. Count(<<>>) = 0
    BY <1>1, CountType
  <2> QED
    BY <1>2, <2>1 DEF Entered, Within
<1> QED
  BY <1>2, <1>3, <1>4 DEF Nested

\* The other threads keep what they hold.
LEMMA AccessStep ==
  ASSUME Typed, Nesting, AccessHeld, NEW t \in Threads, FrameMoves(t)
  PROVE  /\ Nesting' /\ AccessHeld'
         /\ \A u \in Threads \ {t} : /\ thread'[u] = thread[u]
                                     /\ accessLock'.owner = u <=> accessLock.owner = u
<1> DEFINE f == thread[t]
           g == thread'[t]
<1>0. /\ accessLock \in Locks /\ (accessLock.owner = None <=> accessLock.depth = 0)
      /\ thread \in [Threads -> GoodFrames] /\ f \in GoodFrames /\ g \in GoodFrames
      /\ \A u \in Threads \ {t} : thread'[u] = thread[u]
      /\ None \notin Threads /\ t # None
  BY ThreadsAssumption DEF Typed, AccessHeld, FrameMoves, Stepped, Threads
<1>1. /\ AccessMoves(t, f, g) /\ Nested(g)
      /\ Entered(f) > 0 => accessLock.owner = t /\ accessLock.depth >= Entered(f)
  BY DEF FrameMoves, AccessHeld
<1>2. Entered(f) \in Nat /\ Entered(g) \in Nat /\ accessLock.depth \in Nat
  BY <1>0, EnteredType DEF Locks
<1>3. Nesting'
  BY <1>0, <1>1 DEF Nesting
<1> HIDE DEF f, g
<1>4. /\ accessLock' \in Locks /\ (accessLock'.owner = None <=> accessLock'.depth = 0)
      /\ accessLock'.owner \in {accessLock.owner, t, None}
      /\ accessLock.owner \notin {t, None} => accessLock' = accessLock
  BY <1>0, <1>1, <1>2 DEF AccessMoves, Locks, Free, CanTake, Taken, Dropped, Released
<1>5. Entered(g) > 0 => accessLock'.owner = t /\ accessLock'.depth >= Entered(g)
  <2>1. CASE accessLock' = accessLock /\ Entered(g) <= Entered(f)
    BY <1>1, <1>2, <2>1
  <2>2. CASE /\ CanTake(accessLock, t) /\ accessLock' = Taken(accessLock, t)
             /\ Entered(g) <= Entered(f) + 1
    <3>1. accessLock'.owner = t /\ accessLock'.depth = accessLock.depth + 1
      BY <2>2 DEF Taken
    <3>2. Entered(f) <= accessLock.depth
      BY <1>1, <1>2
    <3> QED
      BY <1>2, <2>2, <3>1, <3>2
  <2>3. CASE g = Idle
    BY <2>3, IdleNested
  <2>4. CASE /\ Entered(f) > 0 /\ accessLock' = Released(accessLock)
             /\ Entered(g) <= Entered(f) - 1
    <3>1. accessLock.depth # 1
            => accessLock'.owner = t /\ accessLock'.depth = accessLock.depth - 1
      BY <1>0, <1>1, <2>4 DEF Released, Locks
    <3>2. accessLock.depth = 1 => Entered(g) <= 0
      BY <1>1, <1>2, <2>4
    <3> QED
      BY <1>1, <1>2, <2>4, <3>1, <3>2
  <2> QED
    BY <1>1, <2>1, <2>2, <2>3, <2>4 DEF AccessMoves
<1>6. ASSUME NEW u \in Threads \ {t} PROVE accessLock'.owner = u <=> accessLock.owner = u
  BY <1>0, <1>4
<1>7. ASSUME NEW u \in Threads, Entered(thread'[u]) > 0
      PROVE  accessLock'.owner = u /\ accessLock'.depth >= Entered(thread'[u])
  <2>1. CASE u = t
    BY <1>5, <1>7, <2>1 DEF g
  <2>2. CASE u # t
    <3>1. thread'[u] = thread[u] /\ accessLock.owner = u
          /\ accessLock.depth >= Entered(thread[u])
      BY <1>0, <1>7, <2>2 DEF AccessHeld
    <3>2. accessLock' = accessLock
      BY <1>0, <1>4, <2>2, <3>1
    <3> QED
      BY <3>1, <3>2
  <2> QED
    BY <2>1, <2>2
<1>8. AccessHeld'
  BY <1>4, <1>7 DEF AccessHeld
<1> QED
  BY <1>0, <1>3, <1>6, <1>8

-----------------------------------------------------------------------------
(* The frame of a thread which goes on, calls a method or leaves one.      *)

GoesOn(t, p, r) ==
  /\ thread'[t].pc = p /\ thread'[t].result = r
  /\ thread'[t].stack = thread[t].stack

CallsThen(t, p, next) ==
  /\ thread'[t].pc = p /\ thread'[t].on = None /\ thread'[t].result = thread[t].result
  /\ thread'[t].stack = <<next>> \o thread[t].stack

Leaves(t) ==
  \/ thread[t].stack = <<>> /\ thread'[t] = Idle
  \/ /\ thread[t].stack # <<>> /\ thread'[t].pc = Head(thread[t].stack)
     /\ thread'[t].stack = Tail(thread[t].stack)
     /\ thread'[t].on = None /\ thread'[t].result = thread[t].result

LEMMA GotoFrame ==
  ASSUME Typed, NEW t \in Threads, NEW p \in Labels \ {"idle", "lock", "multi", "reading"},
         Goto(t, p), thread[t].pc \notin {"reading", "given"}
  PROVE  Stepped(t) /\ GoesOn(t, p, thread[t].result) /\ thread'[t].on = None
<1>1. Stepped(t) /\ thread'[t].on = None
  BY GotoStep
<1>2. thread[t] \in Frames /\ thread' = [thread EXCEPT ![t].pc = p] /\ t \in DOMAIN thread
  BY DEF Typed, GoodFrames, Goto
<1>3. thread'[t] = [thread[t] EXCEPT !.pc = p]
  BY <1>2
<1> QED
  BY <1>1, <1>2, <1>3 DEF GoesOn, Frames

LEMMA CallFrame ==
  ASSUME Typed, NEW t \in Threads, NEW p \in Labels \ {"idle", "lock", "multi", "reading"},
         NEW next \in ReturnPlaces, next # "multi",
         Call(t, p, next), thread[t].pc \notin {"reading", "given", "multi"}
  PROVE  Stepped(t) /\ CallsThen(t, p, next)
<1>1. Stepped(t) /\ thread'[t].on = None
  BY CallStep
<1>2. /\ thread[t] \in Frames /\ t \in DOMAIN thread
      /\ thread' = [thread EXCEPT ![t].pc = p, ![t].stack = <<next>> \o @]
  BY DEF Typed, GoodFrames, Call
<1>3. thread'[t] = [thread[t] EXCEPT !.pc = p, !.stack = <<next>> \o @]
  BY <1>2
<1> QED
  BY <1>1, <1>2, <1>3 DEF CallsThen, Frames

LEMMA ReturnFrame ==
  ASSUME Typed, NEW t \in Threads, Return(t), thread[t].pc \notin {"idle", "lock", "multi"}
  PROVE  Stepped(t) /\ Leaves(t)
<1>1. Stepped(t)
  BY ReturnStep
<1>2. thread[t] \in Frames /\ thread'[t] = Returned(thread[t])
  BY DEF Typed, GoodFrames, Return
<1> QED
  BY <1>1, <1>2 DEF Leaves, Returned, Frames

LEMMA GoesOnNested ==
  ASSUME Typed, NEW t \in Threads, Nested(thread[t]), Stepped(t),
         NEW p, NEW r, GoesOn(t, p, r),
         thread[t].stack = <<>> \/ Below(thread[t].pc) \subseteq Below(p),
         p \in Closes => thread[t].pc \in Closes /\ r = thread[t].result
  PROVE  /\ Nested(thread'[t])
         /\ Entered(thread'[t]) = Count(thread[t].stack) + (IF p \in Within THEN 1 ELSE 0)
<1> QED
  BY DEF Nested, GoesOn, Entered

LEMMA CallsNested ==
  ASSUME Typed, NEW t \in Threads, Nested(thread[t]), Stepped(t),
         NEW p, NEW next \in ReturnPlaces, CallsThen(t, p, next), next \in Below(p),
         thread[t].stack = <<>> \/ Below(thread[t].pc) \subseteq Below(next),
         p \in Closes /\ next = "announce" => ~thread[t].result
  PROVE  /\ Nested(thread'[t])
         /\ Entered(thread'[t])
              = Count(thread[t].stack) + (IF next \in InAccess THEN 1 ELSE 0)
                  + (IF p \in Within THEN 1 ELSE 0)
<1>1. thread[t] \in GoodFrames /\ thread'[t] \in GoodFrames
  BY DEF Typed, Stepped
<1>2. /\ thread'[t].stack = <<next>> \o thread[t].stack /\ thread'[t].pc = p
      /\ thread'[t].result = thread[t].result
  BY DEF CallsThen
<1>3. thread[t].stack # <<>> => Head(thread[t].stack) \in Below(next)
  BY DEF Nested
<1> QED
  BY <1>1, <1>2, <1>3, CalledNested

LEMMA LeavesNested ==
  ASSUME Typed, NEW t \in Threads, Nested(thread[t]), Stepped(t), Leaves(t)
  PROVE  /\ Nested(thread'[t]) /\ Entered(thread'[t]) <= Count(thread[t].stack)
         /\ thread'[t].pc \in Below(thread[t].pc) \cup {"idle"}
<1>1. thread[t] \in GoodFrames /\ thread'[t] \in GoodFrames
  BY DEF Typed, Stepped
<1>2. CASE thread[t].stack = <<>> /\ thread'[t] = Idle
  <2>1. Count(thread[t].stack) \in Nat
    BY <1>1, EnteredType
  <2> QED
    BY <1>2, <2>1, IdleNested DEF Idle
<1>3. CASE /\ thread[t].stack # <<>> /\ thread'[t].pc = Head(thread[t].stack)
           /\ thread'[t].stack = Tail(thread[t].stack)
  BY <1>1, <1>3, ReturnedNested
<1> QED
  BY <1>2, <1>3 DEF Leaves

\* The four ways a step which leaves accessLock alone may change the frame.
LEMMA FrameKept ==
  ASSUME Typed, NEW t \in Threads, Nested(thread[t]), Stepped(t), accessLock' = accessLock,
         \/ \E p \in Labels, r \in BOOLEAN :
              /\ GoesOn(t, p, r)
              /\ thread[t].stack = <<>> \/ Below(thread[t].pc) \subseteq Below(p)
              /\ p \in Closes => thread[t].pc \in Closes /\ r = thread[t].result
              /\ p \in Within => thread[t].pc \in Within
         \/ \E p \in Labels \ Within, next \in ReturnPlaces :
              /\ CallsThen(t, p, next) /\ next \in Below(p)
              /\ thread[t].stack = <<>> \/ Below(thread[t].pc) \subseteq Below(next)
              /\ p \in Closes => next # "announce"
              /\ next \in InAccess => thread[t].pc \in Within
         \/ Leaves(t)
  PROVE  FrameMoves(t)
<1>1. Entered(thread[t]) = Count(thread[t].stack) + (IF thread[t].pc \in Within THEN 1 ELSE 0)
      /\ Count(thread[t].stack) \in Nat
  BY EnteredType DEF Entered, Typed
<1>2. ASSUME NEW p \in Labels, NEW r \in BOOLEAN,
             GoesOn(t, p, r), thread[t].stack = <<>> \/ Below(thread[t].pc) \subseteq Below(p),
             p \in Closes => thread[t].pc \in Closes /\ r = thread[t].result,
             p \in Within => thread[t].pc \in Within
      PROVE  FrameMoves(t)
  <2>1. /\ Nested(thread'[t])
        /\ Entered(thread'[t]) = Count(thread[t].stack) + (IF p \in Within THEN 1 ELSE 0)
    BY <1>2, GoesOnNested
  <2> QED
    BY <1>1, <1>2, <2>1 DEF FrameMoves, AccessMoves
<1>3. ASSUME NEW p \in Labels \ Within, NEW next \in ReturnPlaces,
             CallsThen(t, p, next), next \in Below(p),
             thread[t].stack = <<>> \/ Below(thread[t].pc) \subseteq Below(next),
             p \in Closes => next # "announce",
             next \in InAccess => thread[t].pc \in Within
      PROVE  FrameMoves(t)
  <2>1. /\ Nested(thread'[t])
        /\ Entered(thread'[t])
             = Count(thread[t].stack) + (IF next \in InAccess THEN 1 ELSE 0)
                 + (IF p \in Within THEN 1 ELSE 0)
    BY <1>3, CallsNested
  <2> QED
    BY <1>1, <1>3, <2>1 DEF FrameMoves, AccessMoves
<1>4. CASE Leaves(t)
  <2>1. Nested(thread'[t]) /\ Entered(thread'[t]) <= Count(thread[t].stack)
    BY <1>4, LeavesNested
  <2>2. Entered(thread'[t]) \in Nat
    BY EnteredType DEF Stepped
  <2> QED
    BY <1>1, <2>1, <2>2 DEF FrameMoves, AccessMoves
<1> QED
  BY <1>2, <1>3, <1>4

LEMMA RaiseFrame ==
  ASSUME Typed, NEW t \in Threads, Raise(t)
  PROVE  /\ Stepped(t) /\ thread'[t] = Idle /\ FrameMoves(t)
         /\ lineLock' = Dropped(lineLock, t)
BY RaiseStep, IdleNested DEF Raise, FrameMoves, AccessMoves

\* The same, for the operators of the steps.
LEMMA GotoKept ==
  ASSUME Typed, Nesting, NEW t \in Threads,
         NEW p \in Labels \ {"idle", "lock", "multi", "reading"}, Goto(t, p),
         thread[t].pc \notin {"reading", "given"}, accessLock' = accessLock,
         Below(thread[t].pc) \subseteq Below(p),
         p \in Closes => thread[t].pc \in Closes,
         p \in Within => thread[t].pc \in Within
  PROVE  /\ FrameMoves(t) /\ GoesOn(t, p, thread[t].result)
         /\ thread'[t].on = None
<1>1. Stepped(t) /\ GoesOn(t, p, thread[t].result) /\ thread'[t].on = None
  BY GotoFrame
<1>2. thread[t].result \in BOOLEAN /\ Nested(thread[t])
  BY DEF Typed, GoodFrames, Frames, Nesting
<1> QED
  BY <1>1, <1>2, FrameKept

LEMMA CallKept ==
  ASSUME Typed, Nesting, NEW t \in Threads,
         NEW p \in Labels \ ({"idle", "lock", "multi", "reading"} \cup Within),
         NEW next \in ReturnPlaces, next # "multi", Call(t, p, next),
         thread[t].pc \notin {"reading", "given", "multi"}, accessLock' = accessLock,
         next \in Below(p), Below(thread[t].pc) \subseteq Below(next),
         p \in Closes => next # "announce",
         next \in InAccess => thread[t].pc \in Within
  PROVE  FrameMoves(t) /\ CallsThen(t, p, next)
<1>1. Stepped(t) /\ CallsThen(t, p, next)
  BY CallFrame
<1>2. Nested(thread[t])
  BY DEF Nesting
<1>3. p \in Labels \ Within
  OBVIOUS
<1> QED
  BY <1>1, <1>2, <1>3, FrameKept

LEMMA ReturnKept ==
  ASSUME Typed, Nesting, NEW t \in Threads, Return(t),
         thread[t].pc \notin {"idle", "lock", "multi"}, accessLock' = accessLock
  PROVE  /\ FrameMoves(t) /\ Leaves(t)
         /\ thread'[t].pc \in Below(thread[t].pc) \cup {"idle"}
<1>1. Stepped(t) /\ Leaves(t)
  BY ReturnFrame
<1>2. Nested(thread[t])
  BY DEF Nesting
<1> QED
  BY <1>1, <1>2, FrameKept, LeavesNested

-----------------------------------------------------------------------------
(* What each step does to the frame of its thread.                         *)

LEMMA ClosingFrames ==
  ASSUME Typed, Nesting, NEW t \in Threads
  PROVE  /\ CloseConnection(t) /\ conn # None
              => FrameMoves(t) /\ GoesOn(t, "forget", thread[t].result) /\ thread'[t].on = None
         /\ ForgetConnection(t)
              => FrameMoves(t) /\ GoesOn(t, "unflag", thread[t].result) /\ thread'[t].on = None
         /\ ConnectionClosed(t)
              => /\ FrameMoves(t) /\ Leaves(t)
                 /\ thread'[t].pc \in {"lost", "announce", "enter", "idle"}
<1> USE DEF At, Below, Within, Closes, InCommunicate, Exchange
<1>1. CloseConnection(t) /\ conn # None
        => FrameMoves(t) /\ GoesOn(t, "forget", thread[t].result) /\ thread'[t].on = None
  BY GotoKept DEF CloseConnection, locks, Labels
<1>2. ForgetConnection(t)
        => FrameMoves(t) /\ GoesOn(t, "unflag", thread[t].result) /\ thread'[t].on = None
  BY GotoKept DEF ForgetConnection, locks, Labels
<1>3. ConnectionClosed(t)
        => /\ FrameMoves(t) /\ Leaves(t)
           /\ thread'[t].pc \in {"lost", "announce", "enter", "idle"}
  BY ReturnKept DEF ConnectionClosed, locks
<1> QED
  BY <1>1, <1>2, <1>3

LEMMA CheckFrames ==
  ASSUME Typed, Nesting, NEW t \in Threads
  PROVE  /\ CheckConnection(t) /\ is_connected
              => /\ FrameMoves(t) /\ GoesOn(t, "take", thread[t].result)
                 /\ thread'[t].on = None
         /\ CheckConnection(t) /\ ~is_connected
              => FrameMoves(t) /\ CallsThen(t, "enter", "checked")
         /\ ConnectionChecked(t) /\ thread[t].result
              => FrameMoves(t) /\ GoesOn(t, "take", TRUE) /\ thread'[t].on = None
         /\ TakeLine(t)
              => FrameMoves(t) /\ GoesOn(t, "flush", thread[t].result) /\ thread'[t].on = None
<1> USE DEF At, Below, Within, Closes, InCommunicate, Exchange
<1>1. CheckConnection(t) /\ is_connected
        => /\ FrameMoves(t) /\ GoesOn(t, "take", thread[t].result)
           /\ thread'[t].on = None
  BY GotoKept DEF CheckConnection, locks, Labels
<1>2. CheckConnection(t) /\ ~is_connected
        => FrameMoves(t) /\ CallsThen(t, "enter", "checked")
  BY CallKept DEF CheckConnection, locks, Labels, ReturnPlaces, InAccess
<1>3. ConnectionChecked(t) /\ thread[t].result
        => FrameMoves(t) /\ GoesOn(t, "take", TRUE) /\ thread'[t].on = None
  <2>1. thread[t].result \in BOOLEAN
    BY DEF Typed, GoodFrames, Frames
  <2> QED
    BY <2>1, GotoKept DEF ConnectionChecked, locks, Labels
<1>4. TakeLine(t)
        => FrameMoves(t) /\ GoesOn(t, "flush", thread[t].result) /\ thread'[t].on = None
  BY GotoKept DEF TakeLine, Labels
<1> QED
  BY <1>1, <1>2, <1>3, <1>4

\* A step of an exchange in which the thread goes on.
LEMMA ExchangeFrames ==
  ASSUME Typed, Nesting, NEW t \in Threads
  PROVE  /\ Flush(t) /\ Up(conn)
              => FrameMoves(t) /\ GoesOn(t, "send", thread[t].result) /\ thread'[t].on = None
         /\ (Flush(t) /\ ~Up(conn)) \/ EndOfFile(t)
              => FrameMoves(t) /\ CallsThen(t, "close", "lost")
         /\ \A noreply \in BOOLEAN : Send(t, noreply)
              => /\ FrameMoves(t) /\ thread'[t].on = None
                 /\ GoesOn(t, IF noreply THEN "given" ELSE "read", thread[t].result)
         /\ StartReading(t)
              => /\ FrameMoves(t) /\ GoesOn(t, "reading", thread[t].result)
                 /\ thread'[t].on = conn
         /\ ReadAnswer(t)
              => /\ FrameMoves(t) /\ GoesOn(t, "given", thread[t].result)
                 /\ thread'[t].on = thread[t].on
         /\ Given(t)
              => /\ FrameMoves(t) /\ Leaves(t)
                 /\ thread'[t].pc \in {"ident", "again", "multi", "idle"}
<1> USE DEF At, Below, Within, Closes, InCommunicate, Exchange
<1>0. /\ thread \in [Threads -> GoodFrames] /\ thread[t] \in Frames /\ Nested(thread[t])
      /\ thread[t] \in GoodFrames
      /\ thread[t].result \in BOOLEAN /\ thread[t].stack \in Seq(ReturnPlaces)
      /\ thread[t].got \in Threads \cup {Late, None}
      /\ conn \in Sockets \cup {None} /\ sockets \in [Sockets -> SocketStates]
  BY DEF Typed, GoodFrames, Frames, Nesting
<1>1. Flush(t) /\ Up(conn)
        => FrameMoves(t) /\ GoesOn(t, "send", thread[t].result) /\ thread'[t].on = None
  BY GotoKept DEF Flush, locks, Labels, Up
<1>2. Flush(t) /\ ~Up(conn) => FrameMoves(t) /\ CallsThen(t, "close", "lost")
  BY CallKept DEF Flush, locks, Labels, ReturnPlaces, InAccess
<1>3. ASSUME EndOfFile(t) PROVE FrameMoves(t) /\ CallsThen(t, "close", "lost")
  <2> DEFINE g == [thread[t] EXCEPT !.pc = "close", !.stack = <<"lost">> \o @, !.on = None]
  <2>1. /\ thread[t].pc = "reading" /\ accessLock' = accessLock
        /\ thread' = [thread EXCEPT ![t] = g]
    BY <1>3 DEF EndOfFile, locks
  <2>2. g = [thread[t] EXCEPT !.pc = g.pc, !.stack = <<"lost">> \o @, !.on = None]
        /\ g.pc = "close"
    BY <1>0 DEF Frames
  <2>3. /\ g.result = thread[t].result /\ g.on = None
        /\ g.stack = <<"lost">> \o thread[t].stack
    BY <1>0 DEF Frames
  <2> HIDE DEF g
  <2>4. g \in GoodFrames
    BY <1>0, <2>1, <2>2, Pushed DEF Labels, ReturnPlaces
  <2>5. Stepped(t) /\ thread'[t] = g
    BY <1>0, <2>1, <2>4 DEF Stepped
  <2>6. CallsThen(t, "close", "lost")
    BY <2>2, <2>3, <2>5 DEF CallsThen
  <2> QED
    BY <1>0, <2>1, <2>5, <2>6, FrameKept DEF Labels, ReturnPlaces, InAccess
<1>4. ASSUME NEW noreply \in BOOLEAN, Send(t, noreply)
      PROVE  /\ FrameMoves(t) /\ thread'[t].on = None
             /\ GoesOn(t, IF noreply THEN "given" ELSE "read", thread[t].result)
  BY <1>4, GotoKept DEF Send, locks, Labels
<1>5. ASSUME StartReading(t)
      PROVE  /\ FrameMoves(t) /\ GoesOn(t, "reading", thread[t].result)
             /\ thread'[t].on = conn
  <2> DEFINE g == [thread[t] EXCEPT !.pc = "reading", !.on = conn]
  <2>1. /\ thread[t].pc = "read" /\ accessLock' = accessLock /\ conn # None
        /\ thread' = [thread EXCEPT ![t] = g]
    BY <1>5 DEF StartReading, locks, State
  <2>2. g.pc = "reading" /\ g.on = conn /\ g.stack = thread[t].stack
        /\ g.result = thread[t].result /\ g \in Frames
    BY <1>0 DEF Frames, Labels
  <2> HIDE DEF g
  <2>3. Stepped(t) /\ thread'[t] = g
    BY <2>1, <2>2, Stayed
  <2>4. GoesOn(t, "reading", thread[t].result)
    BY <2>2, <2>3 DEF GoesOn
  <2> QED
    BY <1>0, <2>1, <2>2, <2>3, <2>4, FrameKept DEF Labels
<1>6. ASSUME ReadAnswer(t)
      PROVE  /\ FrameMoves(t) /\ GoesOn(t, "given", thread[t].result)
             /\ thread'[t].on = thread[t].on
  <2> DEFINE answer == Head(sockets[thread[t].on].arrived)
             g == [thread[t] EXCEPT !.pc = "given", !.got = answer]
  <2>1. /\ thread[t].pc = "reading" /\ accessLock' = accessLock
        /\ sockets[thread[t].on].arrived # <<>>
        /\ thread' = [thread EXCEPT ![t] = g]
    BY <1>6 DEF ReadAnswer, locks
  <2>2. answer \in Threads \cup {Late, None}
    <3>1. thread[t].on \in Sockets
      BY <2>1, Places
    <3>2. sockets[thread[t].on].arrived \in Seq(Threads \cup {Late})
      BY <1>0, <3>1 DEF SocketStates
    <3> QED
      BY <2>1, <3>2
  <2> HIDE DEF answer
  <2>3. g.pc = "given" /\ g.on = thread[t].on /\ g.stack = thread[t].stack
        /\ g.result = thread[t].result /\ g \in Frames
    BY <1>0, <2>2 DEF Frames, Labels
  <2> HIDE DEF g
  <2>4. Stepped(t) /\ thread'[t] = g
    BY <2>1, <2>3, Stayed
  <2>5. GoesOn(t, "given", thread[t].result)
    BY <2>3, <2>4 DEF GoesOn
  <2> QED
    BY <1>0, <2>1, <2>3, <2>4, <2>5, FrameKept DEF Labels
<1>7. Given(t)
        => /\ FrameMoves(t) /\ Leaves(t)
           /\ thread'[t].pc \in {"ident", "again", "multi", "idle"}
  BY ReturnKept DEF Given
<1> QED
  BY <1>1, <1>2, <1>3, <1>4, <1>5, <1>6, <1>7

LEMMA ConnectFrames ==
  ASSUME Typed, Nesting, NEW t \in Threads
  PROVE  /\ EnterRead(t)
              => FrameMoves(t) /\ GoesOn(t, "test", thread[t].result) /\ thread'[t].on = None
         /\ TestConnected(t)
              => /\ FrameMoves(t) /\ thread'[t].on = None
                 /\ GoesOn(t, IF is_connected THEN "announce" ELSE "open", TRUE)
         /\ Open(t)
              => FrameMoves(t) /\ GoesOn(t, "flag", thread[t].result) /\ thread'[t].on = None
         /\ FlagConnected(t) /\ HasIdent
              => FrameMoves(t) /\ \E next \in {"ident", "again"} : CallsThen(t, "check", next)
         /\ FlagConnected(t) /\ ~HasIdent
              => /\ FrameMoves(t) /\ GoesOn(t, "connected", thread[t].result)
                 /\ thread'[t].on = None
         /\ CheckHWIdent(t)
              => /\ FrameMoves(t)
                 /\ \/ CallsThen(t, "check", "again") \/ CallsThen(t, "close", "lost")
                    \/ /\ GoesOn(t, "connected", thread[t].result)
                       /\ thread'[t].on = None
         /\ Connected(t)
              => /\ FrameMoves(t) /\ GoesOn(t, "connection", thread[t].result)
                 /\ thread'[t].on = None
         /\ ReturnConnected(t)
              => /\ FrameMoves(t) /\ GoesOn(t, "announce", is_connected)
                 /\ thread'[t].on = None
         /\ Announce(t)
              => /\ FrameMoves(t) /\ Leaves(t)
                 /\ thread'[t].pc \in {"checked", "announce", "idle"}
<1> USE DEF At, Below, Within, Closes, InCommunicate, Exchange
<1>0. /\ thread \in [Threads -> GoodFrames] /\ thread[t] \in Frames /\ Nested(thread[t])
      /\ thread[t] \in GoodFrames /\ thread[t].result \in BOOLEAN
      /\ is_connected \in BOOLEAN /\ Count(thread[t].stack) \in Nat
      /\ thread[t].pc \notin {"reading", "given"} => thread[t].on = None
  BY EnteredType DEF Typed, GoodFrames, Frames, Nesting
<1>1. ASSUME EnterRead(t)
      PROVE  FrameMoves(t) /\ GoesOn(t, "test", thread[t].result) /\ thread'[t].on = None
  <2>1. /\ thread[t].pc = "enter" /\ Goto(t, "test") /\ CanTake(accessLock, t)
        /\ accessLock' = Taken(accessLock, t)
    BY <1>1 DEF EnterRead
  <2>2. Stepped(t) /\ GoesOn(t, "test", thread[t].result) /\ thread'[t].on = None
    BY <2>1, GotoFrame DEF Labels
  <2>3. /\ Nested(thread'[t])
        /\ Entered(thread'[t]) = Count(thread[t].stack) + 1
    BY <1>0, <2>1, <2>2, GoesOnNested
  <2>4. Entered(thread[t]) = Count(thread[t].stack)
    BY <1>0, <2>1 DEF Entered
  <2> QED
    BY <1>0, <2>1, <2>2, <2>3, <2>4 DEF FrameMoves, AccessMoves
<1>2. ASSUME NEW p \in {"announce", "open"}, NEW r \in BOOLEAN,
             thread[t].pc \in {"test", "connection"}, accessLock' = accessLock,
             thread' = [thread EXCEPT ![t].pc = p, ![t].result = r]
      PROVE  FrameMoves(t) /\ GoesOn(t, p, r) /\ thread'[t].on = None
  <2> DEFINE g == [thread[t] EXCEPT !.pc = p, !.result = r]
  <2>1. thread' = [thread EXCEPT ![t] = g]
    BY <1>2
  <2>2. g.pc = p /\ g.on = None /\ g.stack = thread[t].stack /\ g.result = r /\ g \in Frames
    BY <1>0, <1>2 DEF Frames, Labels
  <2> HIDE DEF g
  <2>3. Stepped(t) /\ thread'[t] = g
    BY <1>2, <2>1, <2>2, Stayed
  <2>4. GoesOn(t, p, r)
    BY <2>2, <2>3 DEF GoesOn
  <2>5. p \in Labels
    BY DEF Labels
  <2> QED
    BY <1>0, <1>2, <2>2, <2>3, <2>4, <2>5, FrameKept
<1>3. ASSUME TestConnected(t)
      PROVE  /\ FrameMoves(t) /\ thread'[t].on = None
             /\ GoesOn(t, IF is_connected THEN "announce" ELSE "open", TRUE)
  BY <1>2, <1>3 DEF TestConnected, locks
<1>4. Open(t)
        => FrameMoves(t) /\ GoesOn(t, "flag", thread[t].result) /\ thread'[t].on = None
  BY GotoKept DEF Open, locks, Labels
<1>5. ASSUME FlagConnected(t), HasIdent
      PROVE  FrameMoves(t) /\ \E next \in {"ident", "again"} : CallsThen(t, "check", next)
  <2>1. PICK next \in {"ident", "again"} :
          /\ thread[t].pc = "flag" /\ Call(t, "check", next) /\ accessLock' = accessLock
    BY <1>5 DEF FlagConnected, locks
  <2>2. FrameMoves(t) /\ CallsThen(t, "check", next)
    BY <2>1, CallKept DEF Labels, ReturnPlaces, InAccess
  <2> QED
    BY <2>2
<1>6. FlagConnected(t) /\ ~HasIdent
        => /\ FrameMoves(t) /\ GoesOn(t, "connected", thread[t].result)
           /\ thread'[t].on = None
  BY GotoKept DEF FlagConnected, locks, Labels
<1>7. ASSUME CheckHWIdent(t)
      PROVE  /\ FrameMoves(t)
             /\ \/ CallsThen(t, "check", "again") \/ CallsThen(t, "close", "lost")
                \/ GoesOn(t, "connected", thread[t].result) /\ thread'[t].on = None
  <2>1. thread[t].pc \in {"ident", "again"} /\ accessLock' = accessLock
    BY <1>7 DEF CheckHWIdent, locks
  <2>2. CASE Call(t, "check", "again")
    BY <2>1, <2>2, CallKept DEF Labels, ReturnPlaces, InAccess
  <2>3. CASE Call(t, "close", "lost")
    BY <2>1, <2>3, CallKept DEF Labels, ReturnPlaces, InAccess
  <2>4. CASE Goto(t, "connected")
    BY <2>1, <2>4, GotoKept DEF Labels
  <2> QED
    BY <1>7, <2>2, <2>3, <2>4 DEF CheckHWIdent
<1>8. Connected(t)
        => /\ FrameMoves(t) /\ GoesOn(t, "connection", thread[t].result)
           /\ thread'[t].on = None
  BY GotoKept DEF Connected, locks, Labels
<1>9. ASSUME ReturnConnected(t)
      PROVE  FrameMoves(t) /\ GoesOn(t, "announce", is_connected) /\ thread'[t].on = None
  BY <1>0, <1>2, <1>9 DEF ReturnConnected, locks
<1>10. ASSUME Announce(t)
       PROVE  /\ FrameMoves(t) /\ Leaves(t)
              /\ thread'[t].pc \in {"checked", "announce", "idle"}
  <2>1. thread[t].pc = "announce" /\ Return(t) /\ accessLock' = Released(accessLock)
    BY <1>10 DEF Announce
  <2>2. Stepped(t) /\ Leaves(t)
    BY <2>1, ReturnFrame
  <2>3. /\ Nested(thread'[t]) /\ Entered(thread'[t]) <= Count(thread[t].stack)
        /\ thread'[t].pc \in Below("announce") \cup {"idle"}
    BY <1>0, <2>1, <2>2, LeavesNested
  <2>4. Entered(thread[t]) = Count(thread[t].stack) + 1
    BY <2>1 DEF Entered
  <2>5. Entered(thread'[t]) \in Nat
    BY <2>2, EnteredType DEF Stepped
  <2> QED
    BY <1>0, <2>1, <2>2, <2>3, <2>4, <2>5 DEF FrameMoves, AccessMoves
<1> QED
  BY <1>1, <1>3, <1>4, <1>5, <1>6, <1>7, <1>8, <1>9, <1>10

\* The steps ended by an exception.
Raising(t) ==
  \/ CloseConnection(t) /\ conn = None
  \/ ConnectionChecked(t) /\ ~thread[t].result
  \/ NoConnection(t) \/ SendFails(t) \/ Timeout(t) \/ ReadClosed(t) \/ ConnectionLost(t)
  \/ Refused(t)

LEMMA RaisingFrames ==
  ASSUME Typed, NEW t \in Threads, Raising(t)
  PROVE  /\ FrameMoves(t) /\ thread'[t] = Idle /\ lineLock' = Dropped(lineLock, t)
         /\ thread[t].pc \in {"close", "checked", "flush", "send", "read", "reading", "lost",
                              "open"}
         /\ UNCHANGED <<is_connected, conn, calls>>
         /\ \A s \in Sockets : sockets'[s].state = sockets[s].state
<1>1. /\ Raise(t)
      /\ thread[t].pc \in {"close", "checked", "flush", "send", "read", "reading", "lost",
                           "open"}
      /\ UNCHANGED <<is_connected, conn, calls>>
  BY DEF Raising, CloseConnection, ConnectionChecked, NoConnection, SendFails, Timeout,
         ReadClosed, ConnectionLost, Refused, Fail, At, bounds
<1>2. ASSUME NEW s \in Sockets PROVE sockets'[s].state = sockets[s].state
  <2>1. CASE Timeout(t)
    <3>1. sockets \in [Sockets -> SocketStates] /\ sockets[s] \in SocketStates
      BY DEF Typed
    <3>2. \/ sockets' = sockets
          \/ sockets' = [sockets EXCEPT ![thread[t].on].late = TRUE]
      BY <2>1 DEF Timeout
    <3> QED
      BY <3>1, <3>2 DEF SocketStates
  <2>2. CASE ~Timeout(t)
    BY <2>2 DEF Raising, CloseConnection, ConnectionChecked, NoConnection, SendFails,
                ReadClosed, ConnectionLost, Refused
  <2> QED
    BY <2>1, <2>2
<1> QED
  BY <1>1, <1>2, RaiseFrame

LEMMA WriteFrames ==
  ASSUME Typed, Nesting, NEW t \in Threads, Write(t)
  PROVE  /\ FrameMoves(t) /\ accessLock'.owner = t
         /\ CallsThen(t, IF thread[t].result THEN "enter" ELSE "close", "announce")
<1> USE DEF At, Below, Within, Closes, InCommunicate, Exchange
<1> DEFINE p == IF thread[t].result THEN "enter" ELSE "close"
<1>0. Count(thread[t].stack) \in Nat /\ Nested(thread[t])
  BY EnteredType DEF Typed, Nesting
<1>1. /\ thread[t].pc = "write" /\ CanTake(accessLock, t)
      /\ accessLock' = Taken(accessLock, t) /\ Call(t, p, "announce")
  BY DEF Write
<1>2. p \in {"enter", "close"}
  OBVIOUS
<1>3. Stepped(t) /\ CallsThen(t, p, "announce")
  BY <1>1, <1>2, CallFrame DEF Labels, ReturnPlaces
<1>4. /\ Nested(thread'[t])
      /\ Entered(thread'[t]) = Count(thread[t].stack) + 1
  <2>1. "announce" \in ReturnPlaces /\ "announce" \in Below(p)
    BY <1>2 DEF ReturnPlaces
  <2>2. Below(thread[t].pc) = {}
    BY <1>1
  <2>3. p \in Closes /\ "announce" = "announce" => ~thread[t].result
    OBVIOUS
  <2>4. p \notin Within
    BY <1>2
  <2> HIDE DEF p
  <2>5. /\ Nested(thread'[t])
        /\ Entered(thread'[t]) = Count(thread[t].stack) + 1 + 0
    BY <1>0, <1>3, <2>1, <2>2, <2>3, <2>4, CallsNested DEF InAccess
  <2> QED
    BY <1>0, <2>5
<1>5. Entered(thread[t]) = Count(thread[t].stack)
  BY <1>0, <1>1 DEF Entered
<1> QED
  BY <1>0, <1>1, <1>3, <1>4, <1>5 DEF FrameMoves, AccessMoves, Taken

\* The calls, and multicomm.
LEMMA CallFrames ==
  ASSUME Typed, Nesting, NEW t \in Threads
  PROVE  /\ t = Poller /\ DoPoll
              => /\ FrameMoves(t) /\ GoesOn(t, "enter", thread[t].result)
                 /\ thread'[t].on = None
         /\ (t = Poller /\ PollModule) \/ (t \in Users /\ Communicate(t))
              => /\ FrameMoves(t) /\ GoesOn(t, "check", thread[t].result)
                 /\ thread'[t].on = None
         /\ Reconnect(t) => FrameMoves(t) /\ CallsThen(t, "close", "enter")
         /\ \A value \in BOOLEAN : WriteIsConnected(t, value)
              => FrameMoves(t) /\ GoesOn(t, "write", value) /\ thread'[t].on = None
         /\ Multicomm(t)
              => /\ FrameMoves(t) /\ GoesOn(t, "lock", thread[t].result)
                 /\ thread'[t].on = None
<1> USE DEF At, Below, Within, Closes, InCommunicate, Exchange
<1>0. /\ thread \in [Threads -> GoodFrames] /\ thread[t] \in Frames /\ Nested(thread[t])
      /\ thread[t] \in GoodFrames /\ thread[t].result \in BOOLEAN
      /\ thread[t].pc = "idle" => thread[t].on = None /\ thread[t].stack = <<>>
  BY DEF Typed, GoodFrames, Frames, Nesting
<1>1. t = Poller /\ DoPoll
        => FrameMoves(t) /\ GoesOn(t, "enter", thread[t].result) /\ thread'[t].on = None
  BY GotoKept DEF DoPoll, locks, Labels
<1>2. (t = Poller /\ PollModule) \/ (t \in Users /\ Communicate(t))
        => FrameMoves(t) /\ GoesOn(t, "check", thread[t].result) /\ thread'[t].on = None
  BY GotoKept DEF PollModule, Communicate, Start, locks, Labels
<1>3. Reconnect(t) => FrameMoves(t) /\ CallsThen(t, "close", "enter")
  BY CallKept DEF Reconnect, Start, locks, Labels, ReturnPlaces, InAccess
<1>4. ASSUME NEW g \in Frames, thread' = [thread EXCEPT ![t] = g], thread[t].pc = "idle",
             g.stack = thread[t].stack, g.on = None, g.pc \in {"write", "lock"},
             accessLock' = accessLock
      PROVE  FrameMoves(t) /\ GoesOn(t, g.pc, g.result) /\ thread'[t].on = None
  <2>1. Stepped(t) /\ thread'[t] = g
    BY <1>0, <1>4, Stayed
  <2>2. GoesOn(t, g.pc, g.result) /\ g.result \in BOOLEAN /\ g.pc \in Labels
    BY <1>4, <2>1 DEF GoesOn, Frames
  <2> QED
    BY <1>0, <1>4, <2>1, <2>2, FrameKept
<1>5. ASSUME NEW value \in BOOLEAN, WriteIsConnected(t, value)
      PROVE  FrameMoves(t) /\ GoesOn(t, "write", value) /\ thread'[t].on = None
  <2> DEFINE g == [thread[t] EXCEPT !.pc = "write", !.result = value]
  <2>1. thread' = [thread EXCEPT ![t] = g] /\ thread[t].pc = "idle"
        /\ accessLock' = accessLock
    BY <1>5 DEF WriteIsConnected, Start, locks
  <2>2. g \in Frames /\ g.stack = thread[t].stack /\ g.on = None /\ g.pc = "write"
        /\ g.result = value
    BY <1>0, <2>1 DEF Frames, Labels
  <2> HIDE DEF g
  <2>3. FrameMoves(t) /\ GoesOn(t, g.pc, g.result) /\ thread'[t].on = None
    BY <1>4, <2>1, <2>2
  <2> QED
    BY <2>2, <2>3
<1>6. ASSUME Multicomm(t)
      PROVE  /\ FrameMoves(t) /\ GoesOn(t, "lock", thread[t].result)
             /\ thread'[t].on = None
  <2> DEFINE g == [thread[t] EXCEPT !.pc = "lock", !.more = 2]
  <2>1. thread' = [thread EXCEPT ![t] = g] /\ thread[t].pc = "idle"
        /\ accessLock' = accessLock
    BY <1>6 DEF Multicomm, Start, locks
  <2>2. g \in Frames /\ g.stack = thread[t].stack /\ g.on = None /\ g.pc = "lock"
        /\ g.result = thread[t].result
    <3>1. 2 \in 0 .. 2 /\ "lock" \in Labels
      BY DEF Labels
    <3> QED
      BY <1>0, <2>1, <3>1 DEF Frames
  <2> HIDE DEF g
  <2>3. FrameMoves(t) /\ GoesOn(t, g.pc, g.result) /\ thread'[t].on = None
    BY <1>4, <2>1, <2>2
  <2> QED
    BY <2>2, <2>3
<1> QED
  BY <1>1, <1>2, <1>3, <1>5, <1>6

LEMMA MulticommFrames ==
  ASSUME Typed, Nesting, NEW t \in Threads
  PROVE  /\ MulticommLock(t)
              => FrameMoves(t) /\ thread'[t].pc = "multi" /\ thread'[t].on = None
         /\ MulticommNext(t)
              => /\ FrameMoves(t) /\ thread'[t].pc \in {"check", "idle"}
                 /\ thread'[t].on = None
<1> USE DEF At, Below, Within, Closes, InCommunicate, Exchange
<1>0. /\ thread \in [Threads -> GoodFrames] /\ thread[t] \in Frames /\ Nested(thread[t])
      /\ thread[t] \in GoodFrames /\ thread[t].result \in BOOLEAN
      /\ thread[t].more \in 0 .. 2
      /\ thread[t].pc \in {"lock", "multi"}
           => thread[t].on = None /\ thread[t].stack = <<>>
  BY DEF Typed, GoodFrames, Frames, Nesting
<1>1. ASSUME MulticommLock(t)
      PROVE  FrameMoves(t) /\ thread'[t].pc = "multi" /\ thread'[t].on = None
  <2> DEFINE g == [thread[t] EXCEPT !.pc = "multi"]
  <2>1. /\ thread[t].pc = "lock" /\ accessLock' = accessLock
        /\ thread' = [thread EXCEPT ![t] = g]
    BY <1>1 DEF MulticommLock, Goto
  <2>2. /\ g.pc = "multi" /\ g.on = None /\ g.stack = thread[t].stack
        /\ g.result = thread[t].result /\ g \in Frames
    BY <1>0, <2>1 DEF Frames, Labels
  <2> HIDE DEF g
  <2>3. Stepped(t) /\ thread'[t] = g
    BY <1>0, <2>1, <2>2, Stayed
  <2>4. GoesOn(t, "multi", thread[t].result)
    BY <2>2, <2>3 DEF GoesOn
  <2> QED
    BY <1>0, <2>1, <2>2, <2>3, <2>4, FrameKept DEF Labels
<1>2. ASSUME MulticommNext(t), thread[t].more > 0
      PROVE  FrameMoves(t) /\ thread'[t].pc = "check" /\ thread'[t].on = None
  <2> DEFINE g == [thread[t] EXCEPT !.pc = "check", !.stack = <<"multi">>, !.more = @ - 1]
  <2>1. /\ thread[t].pc = "multi" /\ accessLock' = accessLock
        /\ thread' = [thread EXCEPT ![t] = g]
    BY <1>2 DEF MulticommNext
  <2>2. /\ <<"multi">> \in Seq(ReturnPlaces) /\ thread[t].more - 1 \in 0 .. 2
        /\ <<"multi">> = <<"multi">> \o <<>> /\ Len(<<"multi">>) = 1
        /\ \A i \in DOMAIN <<"multi">> : i = 1
    BY <1>0, <1>2 DEF ReturnPlaces
  <2>3. /\ g.pc = "check" /\ g.on = None /\ g.stack = <<"multi">>
        /\ g.result = thread[t].result
    BY <1>0, <2>1 DEF Frames
  <2>4. g \in Frames
    BY <1>0, <2>2 DEF Frames, Labels
  <2> HIDE DEF g
  <2>5. g \in GoodFrames
    BY <2>2, <2>3, <2>4 DEF GoodFrames
  <2>6. Stepped(t) /\ thread'[t] = g
    BY <1>0, <2>1, <2>5 DEF Stepped
  <2>7. CallsThen(t, "check", "multi")
    BY <1>0, <2>1, <2>2, <2>3, <2>6 DEF CallsThen
  <2> QED
    BY <1>0, <2>1, <2>3, <2>6, <2>7, FrameKept DEF Labels, ReturnPlaces, InAccess
<1>3. ASSUME MulticommNext(t), ~(thread[t].more > 0)
      PROVE  FrameMoves(t) /\ thread'[t].pc = "idle" /\ thread'[t].on = None
  <2>1. /\ thread[t].pc = "multi" /\ accessLock' = accessLock
        /\ thread' = [thread EXCEPT ![t] = Returned(thread[t])]
    BY <1>3 DEF MulticommNext, Return
  <2>2. Returned(thread[t]) = Idle
    BY <1>0, <2>1 DEF Returned
  <2>3. Stepped(t) /\ thread'[t] = Idle
    BY <1>0, <2>1, <2>2, IdleIsGood DEF Stepped
  <2>4. Leaves(t)
    BY <1>0, <2>1, <2>3 DEF Leaves
  <2> QED
    BY <1>0, <2>1, <2>3, <2>4, FrameKept DEF Idle
<1> QED
  BY <1>1, <1>2, <1>3

LEMMA StepFrame ==
  ASSUME Typed, Nesting, NEW t \in Threads, Step(t)
  PROVE  FrameMoves(t)
<1>1. CASE Raising(t)
  BY <1>1, RaisingFrames
<1>2. CASE CloseConnection(t) \/ ForgetConnection(t) \/ ConnectionClosed(t)
  BY <1>1, <1>2, ClosingFrames DEF Raising
<1>3. CASE CheckConnection(t) \/ ConnectionChecked(t) \/ TakeLine(t)
  BY <1>1, <1>3, CheckFrames DEF Raising
<1>4. CASE \/ Flush(t) \/ (\E noreply \in BOOLEAN : Send(t, noreply)) \/ StartReading(t)
           \/ ReadAnswer(t) \/ EndOfFile(t) \/ Given(t)
  BY <1>4, ExchangeFrames
<1>5. CASE \/ EnterRead(t) \/ TestConnected(t) \/ Open(t) \/ FlagConnected(t)
           \/ CheckHWIdent(t) \/ Connected(t) \/ ReturnConnected(t) \/ Announce(t)
  BY <1>5, ConnectFrames
<1>6. CASE Write(t) \/ MulticommLock(t) \/ MulticommNext(t)
  BY <1>6, WriteFrames, MulticommFrames
<1> QED
  BY <1>1, <1>2, <1>3, <1>4, <1>5, <1>6 DEF Step, Raising

LEMMA CallFromFrame ==
  ASSUME Typed, Nesting, NEW t \in Threads,
         (t \in Users /\ CallFrom(t)) \/ (t = Poller /\ (DoPoll \/ PollModule))
  PROVE  FrameMoves(t)
BY CallFrames DEF CallFrom

\* Every step is one of a thread, or leaves the threads and their locks alone.
LEMMA NextFrames ==
  ASSUME Typed, Nesting, [Next]_vars
  PROVE  \/ \E t \in Threads :
              /\ FrameMoves(t)
              /\ \/ Step(t) \/ (t \in Users /\ CallFrom(t))
                 \/ (t = Poller /\ (DoPoll \/ PollModule))
         \/ /\ UNCHANGED <<is_connected, conn, lineLock, accessLock, thread, calls>>
            /\ (\E s \in Sockets : Answer(s) \/ Drop(s)) \/ sockets' = sockets
<1>1. ASSUME NEW t \in Threads, Step(t) PROVE FrameMoves(t)
  BY <1>1, StepFrame
<1>2. ASSUME NEW t \in Users, CallFrom(t) PROVE t \in Threads /\ FrameMoves(t)
  BY <1>2, CallFromFrame DEF Threads
<1>3. ASSUME DoPoll \/ PollModule PROVE Poller \in Threads /\ FrameMoves(Poller)
  <2>1. Poller \in Threads
    BY DEF Threads
  <2> QED
    BY <1>3, <2>1, CallFromFrame
<1>4. CASE Device
  BY <1>4 DEF Device, Answer, Drop, Referenced, locks, bounds
<1>5. CASE PollintervalOver \/ UNCHANGED vars
  BY <1>5 DEF PollintervalOver, vars, locks, bounds
<1> QED
  BY <1>1, <1>2, <1>3, <1>4, <1>5 DEF Next

LEMMA FrameStep ==
  ASSUME Typed, Nesting, AccessHeld, [Next]_vars
  PROVE  Nesting' /\ AccessHeld'
<1>1. CASE \E t \in Threads : FrameMoves(t)
  BY <1>1, AccessStep
<1>2. CASE UNCHANGED <<accessLock, thread>>
  BY <1>2 DEF Nesting, AccessHeld
<1> QED
  BY <1>1, <1>2, NextFrames

LEMMA FrameInit == Init => Nesting /\ AccessHeld
<1> SUFFICES ASSUME Init PROVE Nesting /\ AccessHeld
  OBVIOUS
<1>1. accessLock = Free /\ thread = [t \in Threads |-> Idle]
  BY DEF Init
<1>2. Free \in Locks /\ Free.owner = None /\ Free.depth = 0
  BY DEF Free, Locks
<1> QED
  BY <1>1, <1>2, IdleNested DEF Nesting, AccessHeld

-----------------------------------------------------------------------------
(* The poll thread alone.                                                  *)

\* What its steps leave of the flag and the connection.
FlagRight(f) ==
  /\ f.pc # "write"
  /\ f.pc \in {"forget", "flag"} => conn # None
  /\ f.pc = "unflag" => conn = None
  /\ f.pc \notin {"forget", "unflag", "flag"} => (is_connected <=> conn # None)
  /\ f.pc = "announce" => f.result = is_connected

Alone ==
  /\ calls \in Nat
  /\ calls = 0 => /\ \A t \in Threads \ {Poller} : At(t, "idle")
                  /\ FlagRight(thread[Poller])

LEMMA StepIsWithin ==
  ASSUME NEW t \in Threads, Step(t)
  PROVE  thread[t].pc # "idle" /\ calls' = calls
BY DEF Step, CloseConnection, ForgetConnection, ConnectionClosed, CheckConnection,
       ConnectionChecked, TakeLine, NoConnection, Flush, Send, SendFails, StartReading,
       ReadAnswer, Timeout, EndOfFile, ReadClosed, ConnectionLost, Given, EnterRead,
       TestConnected, Open, Refused, FlagConnected, CheckHWIdent, Connected,
       ReturnConnected, Announce, Write, MulticommLock, MulticommNext, At, bounds

\* Open makes a new connection.
LEMMA NewSocket ==
  ASSUME Typed, NEW t \in Threads, Open(t)
  PROVE  /\ conn' \in Sockets /\ conn' \notin Referenced /\ conn' # None
         /\ \A s \in Sockets : Up(s)' =>
              \/ s = conn'
              \/ Up(s) /\ (s = conn => \E u \in Threads : thread[u].on = s)
<1> DEFINE new == CHOOSE s \in Sockets : s \notin Referenced
           replaced == {conn} \ {thread[u].on : u \in Threads}
<1>1. new \in Sockets /\ new \notin Referenced
  BY FreshSocket
<1>2. /\ conn' = new
      /\ sockets' = [s \in Sockets |-> IF s = new THEN [Closed EXCEPT !.state = "up"]
                                       ELSE IF s \in replaced THEN Shut(sockets[s])
                                       ELSE sockets[s]]
  BY DEF Open
<1> HIDE DEF new
<1>3. None \notin Sockets
  BY ThreadsAssumption DEF Sockets
<1>4. ASSUME NEW s \in Sockets, Up(s)', s # conn'
      PROVE  Up(s) /\ (s = conn => \E u \in Threads : thread[u].on = s)
  <2>1. sockets'[s] = IF s \in replaced THEN Shut(sockets[s]) ELSE sockets[s]
    BY <1>2, <1>4
  <2>2. sockets'[s].state = "up" /\ s # None
    BY <1>3, <1>4 DEF Up, State
  <2>3. s \notin replaced
    BY <2>1, <2>2 DEF Shut, Closed
  <2> QED
    BY <2>1, <2>2, <2>3 DEF Up, State
<1> QED
  BY <1>1, <1>2, <1>3, <1>4

LEMMA AloneInit == Init => Alone
BY DEF Init, Alone, FlagRight, At, Idle, Threads

LEMMA PollerAlone ==
  ASSUME Typed, Nesting, NEW t \in Threads, FlagRight(thread[t]),
         Step(t) \/ (t = Poller /\ (DoPoll \/ PollModule))
  PROVE  FlagRight(thread[t])'
<1> DEFINE f == thread[t]
           g == thread'[t]
<1>0. /\ Nested(f) /\ f.result \in BOOLEAN /\ is_connected \in BOOLEAN
      /\ f \in GoodFrames /\ f.stack \in Seq(ReturnPlaces)
      /\ None \notin Sockets
  BY Places DEF Typed, Nesting, GoodFrames, Frames
<1>1. ASSUME is_connected' = is_connected, conn' = conn,
             f.pc \notin {"forget", "unflag", "flag"},
             g.pc \notin {"forget", "unflag", "flag", "write"},
             g.pc = "announce" => g.result = is_connected
      PROVE  FlagRight(thread[t])'
  BY <1>1 DEF FlagRight
<1>2. CASE t = Poller /\ (DoPoll \/ PollModule)
  <2>1. g.pc \in {"enter", "check"} /\ f.pc = "idle"
    BY <1>0, <1>2, CallFrames DEF GoesOn, DoPoll, PollModule, At
  <2>2. is_connected' = is_connected /\ conn' = conn
    BY <1>2 DEF DoPoll, PollModule
  <2> QED
    BY <1>1, <2>1, <2>2
<1>3. CASE Raising(t)
  <2>1. /\ g.pc = "idle" /\ is_connected' = is_connected /\ conn' = conn
        /\ f.pc \notin {"forget", "unflag", "flag"}
    BY <1>0, <1>3, RaisingFrames DEF Idle
  <2> QED
    BY <1>1, <2>1
<1>4. CASE CloseConnection(t) /\ conn # None
  <2>1. g.pc = "forget" /\ conn' = conn /\ conn # None
    BY <1>0, <1>4, ClosingFrames DEF GoesOn, CloseConnection
  <2> QED
    BY <2>1 DEF FlagRight
<1>5. CASE ForgetConnection(t)
  <2>1. g.pc = "unflag" /\ conn' = None
    BY <1>0, <1>5, ClosingFrames DEF GoesOn, ForgetConnection
  <2> QED
    BY <2>1 DEF FlagRight
<1>6. CASE ConnectionClosed(t)
  <2>1. /\ f.pc = "unflag" /\ is_connected' = FALSE /\ conn' = conn
        /\ g.pc \in {"lost", "announce", "enter", "idle"} /\ Leaves(t)
    BY <1>0, <1>6, ClosingFrames DEF ConnectionClosed, At
  <2>2. conn = None
    BY <2>1 DEF FlagRight
  <2>3. g.pc = "announce" => f.stack # <<>> /\ Head(f.stack) = "announce" /\ g.result = f.result
    BY <2>1 DEF Leaves, Idle
  <2>4. g.pc = "announce" => g.result = FALSE
    BY <1>0, <2>1, <2>3 DEF Nested, Closes
  <2> QED
    BY <2>1, <2>2, <2>4 DEF FlagRight
<1>7. CASE CheckConnection(t) \/ (ConnectionChecked(t) /\ f.result) \/ TakeLine(t)
  <2>1. /\ g.pc \in {"take", "enter", "flush"} /\ f.pc \in {"check", "checked", "take"}
        /\ is_connected' = is_connected /\ conn' = conn
    BY <1>0, <1>7, CheckFrames
       DEF GoesOn, CallsThen, CheckConnection, ConnectionChecked, TakeLine, At
  <2> QED
    BY <1>1, <2>1
<1>8. CASE \/ Flush(t) \/ (\E noreply \in BOOLEAN : Send(t, noreply)) \/ StartReading(t)
           \/ ReadAnswer(t) \/ EndOfFile(t) \/ Given(t)
  <2>1. g.pc \in {"send", "close", "given", "read", "reading", "ident", "again", "multi", "idle"}
    BY <1>0, <1>8, ExchangeFrames DEF GoesOn, CallsThen
  <2>2. f.pc \in Exchange /\ is_connected' = is_connected /\ conn' = conn
    BY <1>8 DEF Flush, Send, StartReading, ReadAnswer, EndOfFile, Given, At, Exchange
  <2> QED
    BY <1>1, <2>1, <2>2 DEF Exchange
<1>9. CASE EnterRead(t) \/ TestConnected(t) \/ CheckHWIdent(t) \/ Connected(t) \/ ReturnConnected(t)
  <2>1. /\ g.pc \in {"test", "announce", "open", "check", "close", "connected", "connection"}
        /\ g.pc = "announce" => g.result = is_connected
    BY <1>0, <1>9, ConnectFrames DEF GoesOn, CallsThen
  <2>2. /\ f.pc \in {"enter", "test", "ident", "again", "connected", "connection"}
        /\ is_connected' = is_connected /\ conn' = conn
    BY <1>9 DEF EnterRead, TestConnected, CheckHWIdent, Connected, ReturnConnected, At
  <2> QED
    BY <1>1, <2>1, <2>2
<1>10. CASE Open(t)
  <2>1. g.pc = "flag" /\ conn' # None
    BY <1>0, <1>10, ConnectFrames, NewSocket DEF GoesOn
  <2> QED
    BY <2>1 DEF FlagRight
<1>11. CASE FlagConnected(t)
  <2>1. /\ g.pc \in {"check", "connected"} /\ f.pc = "flag" /\ is_connected' = TRUE
        /\ conn' = conn
    BY <1>0, <1>11, ConnectFrames DEF GoesOn, CallsThen, FlagConnected, At
  <2>2. conn # None
    BY <2>1 DEF FlagRight
  <2> QED
    BY <2>1, <2>2 DEF FlagRight
<1>12. CASE Announce(t)
  <2>1. /\ g.pc \in {"checked", "announce", "idle"} /\ f.pc = "announce" /\ Leaves(t)
        /\ is_connected' = f.result /\ conn' = conn
    BY <1>0, <1>12, ConnectFrames DEF Announce, At
  <2>2. is_connected' = is_connected
    BY <2>1 DEF FlagRight
  <2>3. g.pc = "announce" => g.result = f.result
    BY <2>1 DEF Leaves, Idle
  <2> QED
    BY <1>1, <2>1, <2>2, <2>3
<1>13. CASE MulticommLock(t) \/ MulticommNext(t)
  <2>1. /\ g.pc \in {"multi", "check", "idle"} /\ f.pc \in {"lock", "multi"}
        /\ is_connected' = is_connected /\ conn' = conn
    BY <1>0, <1>13, MulticommFrames DEF MulticommLock, MulticommNext, At
  <2> QED
    BY <1>1, <2>1
<1>14. CASE Write(t)
  BY <1>14 DEF Write, At, FlagRight
<1> QED
  BY <1>2, <1>3, <1>4, <1>5, <1>6, <1>7, <1>8, <1>9, <1>10, <1>11, <1>12, <1>13, <1>14
     DEF Step, Raising

LEMMA AloneStep ==
  ASSUME Typed, Nesting, Alone, [Next]_vars
  PROVE  Alone'
<1>0. Poller \in Threads
  BY DEF Threads
<1>1. ASSUME NEW t \in Threads, FrameMoves(t), Step(t) PROVE Alone'
  <2>1. calls' = calls /\ thread[t].pc # "idle"
    BY <1>1, StepIsWithin
  <2>2. CASE calls = 0
    <3>1. t = Poller
      BY <2>1, <2>2 DEF Alone, At
    <3>2. FlagRight(thread[Poller])'
      BY <1>1, <2>2, <3>1, PollerAlone DEF Alone
    <3>3. \A u \in Threads \ {Poller} : thread'[u] = thread[u]
      BY <1>1, <3>1 DEF FrameMoves, Stepped, Typed
    <3> QED
      BY <2>1, <2>2, <3>2, <3>3 DEF Alone, At
  <2>3. CASE calls # 0
    BY <2>1, <2>3 DEF Alone
  <2> QED
    BY <2>2, <2>3
<1>2. ASSUME NEW t \in Users, CallFrom(t) PROVE Alone'
  <2>1. calls' = calls + 1
    BY <1>2 DEF CallFrom, Communicate, Reconnect, Multicomm, WriteIsConnected, Start
  <2>2. calls' \in Nat /\ calls' # 0
    BY <2>1 DEF Alone
  <2> QED
    BY <2>2 DEF Alone
<1>3. ASSUME FrameMoves(Poller), DoPoll \/ PollModule PROVE Alone'
  <2>1. calls' = calls
    BY <1>3 DEF DoPoll, PollModule, bounds
  <2>2. \A u \in Threads \ {Poller} : thread'[u] = thread[u]
    BY <1>0, <1>3 DEF FrameMoves, Stepped, Typed
  <2>3. calls = 0 => FlagRight(thread[Poller])'
    BY <1>0, <1>3, PollerAlone DEF Alone
  <2> QED
    BY <2>1, <2>2, <2>3 DEF Alone, At
<1>4. CASE UNCHANGED <<is_connected, conn, thread, calls>>
  BY <1>4 DEF Alone, FlagRight, At
<1> QED
  BY <1>1, <1>2, <1>3, <1>4, NextFrames

LEMMA AloneTells == Alone => FlagTellsConnection
BY DEF Alone, FlagRight, FlagTellsConnection, At

-----------------------------------------------------------------------------
(* One thread besides the poll thread.                                     *)

\* A thread which has made a connection, or waits for _lock to have it identified.
Opening(t) ==
  /\ accessLock.owner = t
  /\ \/ At(t, "flag")
     \/ is_connected /\ thread[t].pc \in {"check", "take"} /\ Identifying(t)

\* closeConnection is called with one of the locks; when there is a connection after
\* it has shut one, an other thread has just made it, and waits for _lock.
ClosesLocked ==
  \A t \in Threads :
    /\ thread[t].pc \in Closes => t \in {lineLock.owner, accessLock.owner}
    /\ thread[t].pc \in {"forget", "unflag"} /\ Up(conn)
         => lineLock.owner = t /\ \E u \in Threads \ {t} : Opening(u)

\* A thread which has passed check_connection, and not within the identification, ...
Passed(f) == f.pc \in Exchange \cup {"take"} \/ (f.pc = "checked" /\ f.result)

\* ... has the connection flagged, or about to be.
PassedConnected ==
  \A t \in Threads :
    Passed(thread[t]) /\ accessLock.owner # t /\ Up(conn)
      => is_connected \/ \E u \in Threads : At(u, "flag")

\* A connection is opened, and the lack of one announced, only when not flagged.
OpensUnflagged ==
  \A t \in Threads :
    At(t, "open") \/ (At(t, "announce") /\ ~thread[t].result) => ~is_connected

Connections == ClosesLocked /\ PassedConnected /\ OpensUnflagged /\ OneConnection

ConnectionsInv == Inv /\ Nesting /\ AccessHeld /\ Connections

\* A step of t.
StepOf(t) ==
  \/ Step(t) \/ (t \in Users /\ CallFrom(t))
  \/ (t = Poller /\ (DoPoll \/ PollModule))

LEMMA Beside ==
  ASSUME ConnectionsInv, NEW t \in Threads, StepOf(t)
  PROVE  /\ FrameMoves(t)
         /\ \A u \in Threads \ {t} :
              /\ thread'[u] = thread[u]
              /\ accessLock'.owner = u <=> accessLock.owner = u
              /\ lineLock'.owner = u <=> lineLock.owner = u
<1>0. Typed /\ Nesting /\ AccessHeld /\ Inv
  BY DEF ConnectionsInv, Inv
<1>1. FrameMoves(t)
  BY <1>0, StepFrame, CallFromFrame DEF StepOf
<1>2. Moves(t)
  BY <1>0, StepKeeps, CallsKeep DEF StepOf, Keeps
<1>3. ASSUME NEW u \in Threads \ {t} PROVE lineLock'.owner = u <=> lineLock.owner = u
  <2>1. u # None /\ t # None /\ lineLock \in Locks
    BY <1>0, ThreadsAssumption DEF Threads, Typed
  <2> QED
    BY <1>2, <2>1 DEF Moves, LineMoves, Locks, CanTake, Taken, Dropped, Released, Free
<1> QED
  BY <1>0, <1>1, <1>3, AccessStep

\* A thread holds accessLock within read_is_connected, _lock during an exchange; and
\* reads only then.
LEMMA Held ==
  ASSUME ConnectionsInv, NEW t \in Threads
  PROVE  /\ thread[t].pc \in Within => accessLock.owner = t
         /\ thread[t].pc \in Exchange => lineLock.owner = t
         /\ thread[t].on # None => thread[t].pc \in {"reading", "given"}
         /\ t # None /\ thread[t].result \in BOOLEAN /\ Nested(thread[t])
         /\ None \notin Sockets /\ conn \in Sockets \cup {None} /\ is_connected \in BOOLEAN
         /\ thread[t].on \in Sockets \cup {None}
<1>0. Typed /\ Nesting /\ AccessHeld /\ LineHeld
  BY DEF ConnectionsInv, Inv
<1>1. Entered(thread[t]) = Count(thread[t].stack) + (IF thread[t].pc \in Within THEN 1 ELSE 0)
      /\ Count(thread[t].stack) \in Nat
  BY <1>0, EnteredType DEF Entered, Typed
<1>2. thread[t].pc \in Within => Entered(thread[t]) > 0
  BY <1>1
<1>3. t # None
  BY ThreadsAssumption DEF Threads
<1>4. /\ thread[t].on # None => thread[t].pc \in {"reading", "given"}
      /\ thread[t].result \in BOOLEAN
  BY <1>0 DEF Typed, GoodFrames, Frames
<1> QED
  BY <1>0, <1>2, <1>3, <1>4, Places
     DEF AccessHeld, LineHeld, Holds, Exchanging, Nesting, Typed

\* A step which leaves the flag and the connection, or drops or shuts that one.
LEMMA FlagKept ==
  ASSUME ConnectionsInv, NEW t \in Threads, StepOf(t), UNCHANGED <<is_connected, conn>>,
         \A s \in Sockets : Up(s)' => Up(s),
         thread'[t].pc \in Closes => t \in {lineLock'.owner, accessLock'.owner},
         thread'[t].pc \in {"forget", "unflag"} => ~Up(conn)',
         thread[t].pc # "flag",
         \A u \in Threads \ {t} :
           Opening(t) /\ thread[u].pc \in {"forget", "unflag"} /\ Up(conn) => Opening(t)',
         Passed(thread'[t]) /\ accessLock'.owner # t /\ Up(conn)
           => is_connected \/ \E u \in Threads \ {t} : At(u, "flag"),
         thread'[t].pc = "open" \/ (thread'[t].pc = "announce" /\ ~thread'[t].result)
           => ~is_connected,
         thread'[t].on \in {None, conn, thread[t].on}
  PROVE  Connections'
<1>0. /\ Connections /\ conn' = conn /\ is_connected' = is_connected
      /\ conn \in Sockets \cup {None} /\ None \notin Sockets
  BY Held DEF ConnectionsInv
<1>1. \A u \in Threads \ {t} :
        /\ thread'[u] = thread[u]
        /\ accessLock'.owner = u <=> accessLock.owner = u
        /\ lineLock'.owner = u <=> lineLock.owner = u
  BY Beside
<1>2. Up(conn)' => Up(conn)
  BY <1>0 DEF Up, State
<1>3. \A u \in Threads \ {t} : Opening(u) => Opening(u)'
  BY <1>0, <1>1 DEF Opening, At, Identifying
<1>4. ClosesLocked'
  <2> SUFFICES ASSUME NEW u \in Threads
               PROVE  /\ thread'[u].pc \in Closes => u \in {lineLock'.owner, accessLock'.owner}
                      /\ thread'[u].pc \in {"forget", "unflag"} /\ Up(conn)'
                           => lineLock'.owner = u /\ \E v \in Threads \ {u} : Opening(v)'
    BY DEF ClosesLocked
  <2>1. CASE u = t
    BY <2>1
  <2>2. CASE u # t
    <3>1. thread'[u] = thread[u]
      BY <1>1, <2>2
    <3>2. thread'[u].pc \in Closes => u \in {lineLock'.owner, accessLock'.owner}
      BY <1>0, <1>1, <2>2, <3>1 DEF Connections, ClosesLocked
    <3>3. ASSUME thread'[u].pc \in {"forget", "unflag"}, Up(conn)'
          PROVE  lineLock'.owner = u /\ \E v \in Threads \ {u} : Opening(v)'
      <4>1. lineLock.owner = u
        BY <1>0, <1>2, <3>1, <3>3 DEF Connections, ClosesLocked
      <4>2. PICK v \in Threads \ {u} : Opening(v)
        BY <1>0, <1>2, <3>1, <3>3 DEF Connections, ClosesLocked
      <4>3. Opening(v)'
        <5>1. CASE v = t
          <6>1. /\ Opening(t) /\ thread[u].pc \in {"forget", "unflag"} /\ Up(conn)
                /\ u \in Threads \ {t}
            BY <1>2, <2>2, <3>1, <3>3, <4>2, <5>1
          <6>2. Opening(t)'
            BY <6>1
          <6> QED
            BY <5>1, <6>2
        <5>2. CASE v # t
          BY <1>3, <4>2, <5>2
        <5> QED
          BY <5>1, <5>2
      <4> QED
        BY <1>1, <2>2, <4>1, <4>3
    <3> QED
      BY <3>2, <3>3
  <2> QED
    BY <2>1, <2>2
<1>5. PassedConnected'
  <2> SUFFICES ASSUME NEW u \in Threads, Passed(thread'[u]), accessLock'.owner # u, Up(conn)'
               PROVE  is_connected' \/ \E v \in Threads : At(v, "flag")'
    BY DEF PassedConnected
  <2>1. is_connected \/ \E v \in Threads \ {t} : At(v, "flag")
    <3>1. CASE u = t
      BY <1>2, <3>1
    <3>2. CASE u # t
      BY <1>0, <1>1, <1>2, <3>2 DEF Connections, PassedConnected, At
    <3> QED
      BY <3>1, <3>2
  <2> QED
    BY <1>0, <1>1, <2>1 DEF At
<1>6. OpensUnflagged'
  BY <1>0, <1>1 DEF Connections, OpensUnflagged, At
<1>7. OneConnection'
  <2> SUFFICES ASSUME NEW s \in Sockets, Up(s)',
                      s = conn' \/ \E u \in Threads : thread'[u].on = s
               PROVE  s = conn
    BY <1>0 DEF OneConnection, Referenced
  <2>1. Up(s)
    OBVIOUS
  <2>2. s = conn \/ \E u \in Threads : thread[u].on = s
    BY <1>0, <1>1
  <2> QED
    BY <1>0, <2>1, <2>2 DEF Connections, OneConnection, Referenced
<1> QED
  BY <1>4, <1>5, <1>6, <1>7 DEF Connections

LEMMA RaisingKnown ==
  ASSUME ConnectionsInv, NEW t \in Threads, Raising(t), StepOf(t)
  PROVE  Connections'
<1>0. Typed /\ Nesting
  BY DEF ConnectionsInv, Inv
<1>1. /\ thread'[t] = Idle
      /\ thread[t].pc \notin {"flag", "check", "take"}
      /\ UNCHANGED <<is_connected, conn>>
      /\ \A s \in Sockets : sockets'[s].state = sockets[s].state
  BY <1>0, RaisingFrames
<1>2. /\ Idle.pc = "idle" /\ Idle.on = None
  BY DEF Idle
<1>3. ~Opening(t)
  BY <1>1 DEF Opening, At
<1>4. \A s \in Sockets : Up(s)' => Up(s)
  BY <1>1 DEF Up, State
<1> QED
  BY <1>1, <1>2, <1>3, <1>4, FlagKept DEF Closes, Passed, Exchange

LEMMA CheckKnown ==
  ASSUME ConnectionsInv, NEW t \in Threads, StepOf(t),
         CheckConnection(t) \/ (ConnectionChecked(t) /\ thread[t].result) \/ TakeLine(t)
  PROVE  Connections'
<1>0. Typed /\ Nesting
  BY DEF ConnectionsInv, Inv
<1>1. /\ UNCHANGED <<is_connected, conn, sockets, accessLock>>
      /\ thread[t].pc \in {"check", "checked", "take"}
  BY DEF CheckConnection, ConnectionChecked, TakeLine, At, locks, Fail, Raise
<1>2. \A s \in Sockets : Up(s)' => Up(s)
  BY <1>1 DEF Up, State
<1>3. CASE CheckConnection(t) /\ is_connected
  <2>1. GoesOn(t, "take", thread[t].result) /\ thread'[t].on = None
    BY <1>0, <1>3, CheckFrames
  <2>2. Opening(t) => Opening(t)'
    BY <1>1, <1>3, <2>1 DEF Opening, GoesOn, Identifying, CheckConnection, At
  <2>3. thread'[t].pc = "take" /\ thread[t].pc = "check"
    BY <1>3, <2>1 DEF GoesOn, CheckConnection, At
  <2> QED
    BY <1>1, <1>2, <1>3, <2>1, <2>2, <2>3, FlagKept DEF Closes
<1>4. CASE CheckConnection(t) /\ ~is_connected
  <2>1. thread'[t].pc = "enter" /\ thread'[t].on = None
    BY <1>0, <1>4, CheckFrames DEF CallsThen
  <2>2. ~Opening(t)
    BY <1>4 DEF Opening, CheckConnection, At
  <2> QED
    BY <1>1, <1>2, <2>1, <2>2, FlagKept DEF Closes, Passed, Exchange
<1>5. CASE ConnectionChecked(t) /\ thread[t].result
  <2>1. thread'[t].pc = "take" /\ thread'[t].on = None /\ thread[t].pc = "checked"
    BY <1>0, <1>5, CheckFrames DEF GoesOn, ConnectionChecked, At
  <2>2. Passed(thread[t]) /\ ~Opening(t)
    BY <1>5, <2>1 DEF Passed, Opening, At
  <2>3. accessLock.owner # t /\ Up(conn)
          => is_connected \/ \E u \in Threads \ {t} : At(u, "flag")
    BY <2>1, <2>2 DEF ConnectionsInv, Connections, PassedConnected, At
  <2> QED
    BY <1>1, <1>2, <2>1, <2>2, <2>3, FlagKept DEF Closes
<1>6. CASE TakeLine(t)
  <2>1. /\ thread'[t].pc = "flush" /\ thread'[t].on = None /\ thread[t].pc = "take"
        /\ CanTake(lineLock, t)
    BY <1>0, <1>6, CheckFrames DEF GoesOn, TakeLine, At
  <2>2. Passed(thread[t])
    BY <2>1 DEF Passed
  <2>3. accessLock.owner # t /\ Up(conn)
          => is_connected \/ \E u \in Threads \ {t} : At(u, "flag")
    BY <2>1, <2>2 DEF ConnectionsInv, Connections, PassedConnected, At
  <2>4. ASSUME NEW u \in Threads \ {t}, thread[u].pc \in {"forget", "unflag"}, Up(conn)
        PROVE  FALSE
    <3>1. lineLock.owner = u /\ u # None
      BY <2>4, Held DEF ConnectionsInv, Connections, ClosesLocked
    <3> QED
      BY <2>1, <3>1 DEF CanTake
  <2> QED
    BY <1>1, <1>2, <2>1, <2>3, <2>4, FlagKept DEF Closes
<1> QED
  BY <1>3, <1>4, <1>5, <1>6

LEMMA ExchangeKnown ==
  ASSUME ConnectionsInv, NEW t \in Threads, StepOf(t),
         \/ Flush(t) \/ (\E noreply \in BOOLEAN : Send(t, noreply)) \/ StartReading(t)
         \/ ReadAnswer(t) \/ EndOfFile(t) \/ Given(t)
  PROVE  Connections'
<1>0. Typed /\ Nesting /\ sockets \in [Sockets -> SocketStates]
  BY DEF ConnectionsInv, Inv, Typed
<1>1. /\ UNCHANGED <<is_connected, conn, accessLock>>
      /\ thread[t].pc \in Exchange
      /\ ~Given(t) => lineLock' = lineLock
  BY DEF Flush, Send, StartReading, ReadAnswer, EndOfFile, Given, At, locks, Exchange
<1>2. \A s \in Sockets : sockets'[s].state = sockets[s].state
  <2>1. \A s \in Sockets : sockets[s] \in SocketStates
    BY <1>0
  <2>2. CASE \E noreply \in BOOLEAN : Send(t, noreply)
    <3>1. PICK noreply \in BOOLEAN : Send(t, noreply)
      BY <2>2
    <3>2. sockets' = sockets \/ sockets' = [sockets EXCEPT ![conn] = Sent(sockets[conn], t, noreply)]
      BY <3>1 DEF Send
    <3>3. \A s \in Sockets : Sent(sockets[s], t, noreply).state = sockets[s].state
      BY <2>1, RequestSent
    <3> QED
      BY <1>0, <3>2, <3>3
  <2>3. CASE Flush(t) \/ StartReading(t) \/ ReadAnswer(t) \/ EndOfFile(t) \/ Given(t)
    <3>1. \/ sockets' = sockets
          \/ \E c \in Sockets \cup {None} : \E q : sockets' = [sockets EXCEPT ![c].arrived = q]
      <4>1. thread[t].on \in Sockets \cup {None} /\ conn \in Sockets \cup {None}
        BY Held
      <4>2. ReadAnswer(t) => sockets' = [sockets EXCEPT ![thread[t].on].arrived
                                           = Tail(sockets[thread[t].on].arrived)]
        BY <1>0 DEF ReadAnswer
      <4> QED
        BY <2>3, <4>1, <4>2 DEF Flush, StartReading, EndOfFile, Given
    <3>2. ASSUME NEW c, NEW q, sockets' = [sockets EXCEPT ![c].arrived = q], NEW s \in Sockets
          PROVE  sockets'[s].state = sockets[s].state
      <4>1. sockets'[s] = IF s = c THEN [sockets[s] EXCEPT !.arrived = q] ELSE sockets[s]
        BY <1>0, <3>2
      <4>2. sockets[s] \in SocketStates
        BY <2>1
      <4> QED
        BY <4>1, <4>2 DEF SocketStates
    <3> QED
      BY <3>1, <3>2
  <2> QED
    BY <2>2, <2>3
<1>3. \A s \in Sockets : Up(s)' => Up(s)
  BY <1>2, Held DEF Up, State
<1>4. /\ thread'[t].pc \in Exchange \cup {"close", "ident", "again", "multi", "idle"}
      /\ thread'[t].pc = "close" => ~Given(t)
      /\ thread'[t].on \in {None, conn, thread[t].on}
  <2>1. CASE Given(t)
    BY <1>0, <2>1, ExchangeFrames DEF Leaves, Idle
  <2>2. CASE ~Given(t)
    BY <1>0, <2>2, ExchangeFrames DEF GoesOn, CallsThen, Exchange
  <2> QED
    BY <2>1, <2>2
<1>5. thread'[t].pc = "close" => lineLock'.owner = t
  BY <1>1, <1>4, Held
<1>6. ~Opening(t) /\ Passed(thread[t]) /\ ~At(t, "flag")
  BY <1>1 DEF Opening, At, Exchange, Passed
<1>7. accessLock.owner # t /\ Up(conn)
        => is_connected \/ \E u \in Threads \ {t} : At(u, "flag")
  BY <1>6 DEF ConnectionsInv, Connections, PassedConnected
<1>8. /\ thread'[t].pc \in Closes => thread'[t].pc = "close"
      /\ thread'[t].pc \notin {"forget", "unflag", "open", "announce"}
      /\ thread[t].pc # "flag"
  BY <1>1, <1>4 DEF Closes, Exchange
<1> QED
  BY <1>1, <1>3, <1>4, <1>5, <1>6, <1>7, <1>8, FlagKept

LEMMA ConnectKnown ==
  ASSUME ConnectionsInv, NEW t \in Threads, StepOf(t),
         \/ EnterRead(t) \/ TestConnected(t) \/ CheckHWIdent(t) \/ Connected(t)
         \/ ReturnConnected(t)
  PROVE  Connections'
<1>0. Typed /\ Nesting /\ is_connected \in BOOLEAN
  BY DEF ConnectionsInv, Inv, Typed
<1>1. /\ UNCHANGED <<is_connected, conn, sockets>>
      /\ thread[t].pc \in {"enter", "test", "ident", "again", "connected", "connection"}
      /\ CheckHWIdent(t) => accessLock' = accessLock /\ thread[t].pc \in {"ident", "again"}
  BY DEF EnterRead, TestConnected, CheckHWIdent, Connected, ReturnConnected, At, locks
<1>2. \A s \in Sockets : Up(s)' => Up(s)
  BY <1>1 DEF Up, State
<1>3. /\ thread'[t].pc \in {"test", "announce", "open", "check", "close", "connected",
                            "connection"}
      /\ thread'[t].pc = "close" => CheckHWIdent(t)
      /\ thread'[t].pc = "open" \/ (thread'[t].pc = "announce" /\ ~thread'[t].result)
           => ~is_connected
      /\ thread'[t].on = None
  BY <1>0, ConnectFrames DEF GoesOn, CallsThen
<1>4. thread'[t].pc = "close" => accessLock'.owner = t
  BY <1>1, <1>3, Held DEF Within
<1>5. ~Opening(t)
  BY <1>1 DEF Opening, At
<1> QED
  BY <1>1, <1>2, <1>3, <1>4, <1>5, FlagKept DEF Closes, Passed, Exchange

LEMMA CallsKnown ==
  ASSUME ConnectionsInv, NEW t \in Threads, StepOf(t), "reconnect" \notin Ops,
         \/ t \in Users /\ CallFrom(t)
         \/ t = Poller /\ (DoPoll \/ PollModule)
         \/ Write(t) \/ MulticommLock(t) \/ MulticommNext(t)
  PROVE  Connections'
<1>0. Typed /\ Nesting
  BY DEF ConnectionsInv, Inv
<1>1. ~Reconnect(t)
  BY DEF Reconnect, Start
<1>2. /\ UNCHANGED <<is_connected, conn, sockets>>
      /\ thread[t].pc \in {"idle", "write", "lock", "multi"}
  BY <1>1 DEF CallFrom, Communicate, Multicomm, WriteIsConnected, Start, DoPoll, PollModule,
              Write, MulticommLock, MulticommNext, At, locks
<1>3. \A s \in Sockets : Up(s)' => Up(s)
  BY <1>2 DEF Up, State
<1>4. /\ thread'[t].pc \in {"enter", "check", "write", "lock", "multi", "idle", "close"}
      /\ thread'[t].on = None
      /\ thread'[t].pc = "close" => accessLock'.owner = t
  <2>1. CASE (t \in Users /\ CallFrom(t)) \/ (t = Poller /\ (DoPoll \/ PollModule))
    BY <1>0, <1>1, <2>1, CallFrames DEF CallFrom, GoesOn
  <2>2. CASE Write(t)
    BY <1>0, <2>2, WriteFrames DEF CallsThen
  <2>3. CASE MulticommLock(t) \/ MulticommNext(t)
    BY <1>0, <2>3, MulticommFrames
  <2> QED
    BY <2>1, <2>2, <2>3
<1>5. ~Opening(t)
  BY <1>2 DEF Opening, At
<1> QED
  BY <1>2, <1>3, <1>4, <1>5, FlagKept DEF Closes, Passed, Exchange

LEMMA ClosingKnown ==
  ASSUME ConnectionsInv, NEW t \in Threads, StepOf(t),
         \A a, b, c \in Threads : a = b \/ b = c \/ a = c,
         \/ CloseConnection(t) /\ conn # None
         \/ ForgetConnection(t) \/ ConnectionClosed(t)
  PROVE  Connections'
<1>0. /\ Typed /\ Nesting /\ Connections /\ sockets \in [Sockets -> SocketStates]
      /\ conn \in Sockets \cup {None} /\ None \notin Sockets
  BY Held DEF ConnectionsInv, Inv, Typed
<1>1. \A u \in Threads \ {t} :
        /\ thread'[u] = thread[u]
        /\ accessLock'.owner = u <=> accessLock.owner = u
        /\ lineLock'.owner = u <=> lineLock.owner = u
  BY Beside
<1>2. CASE CloseConnection(t) /\ conn # None
  <2>1. /\ thread[t].pc = "close" /\ UNCHANGED <<is_connected, conn, lineLock, accessLock>>
        /\ sockets' = [sockets EXCEPT ![conn] = Shut(sockets[conn])]
    BY <1>2 DEF CloseConnection, At, locks
  <2>2. thread'[t].pc = "forget" /\ thread'[t].on = None
    BY <1>0, <1>2, ClosingFrames DEF GoesOn
  <2>3. sockets'[conn].state # "up" /\ \A s \in Sockets \ {conn} : sockets'[s] = sockets[s]
    BY <1>0, <1>2, <2>1 DEF Shut, Closed
  <2>4. ~Up(conn)' /\ \A s \in Sockets : Up(s)' => Up(s)
    BY <1>0, <1>2, <2>1, <2>3 DEF Up, State
  <2>5. t \in {lineLock'.owner, accessLock'.owner}
    BY <1>0, <2>1 DEF Connections, ClosesLocked, Closes
  <2>6. ~Opening(t) /\ ~Passed(thread'[t])
    BY <2>1, <2>2 DEF Opening, At, Passed, Exchange
  <2> QED
    BY <2>1, <2>2, <2>4, <2>5, <2>6, FlagKept
<1>3. CASE ForgetConnection(t)
  <2>1. /\ thread[t].pc = "forget" /\ conn' = None
        /\ UNCHANGED <<is_connected, sockets, lineLock, accessLock>>
    BY <1>3 DEF ForgetConnection, At, locks
  <2>2. thread'[t].pc = "unflag" /\ thread'[t].on = None
    BY <1>0, <1>3, ClosingFrames DEF GoesOn
  <2>3. ~Up(conn)' /\ \A s \in Sockets : Up(s)' => Up(s)
    BY <2>1 DEF Up, State
  <2>4. ClosesLocked'
    BY <1>0, <1>1, <2>1, <2>2, <2>3 DEF Connections, ClosesLocked, Closes
  <2>5. PassedConnected'
    BY <2>3 DEF PassedConnected
  <2>6. OpensUnflagged'
    BY <1>0, <1>1, <2>1, <2>2 DEF Connections, OpensUnflagged, At
  <2>7. ASSUME NEW s \in Sockets, Up(s)', NEW u \in Threads, thread'[u].on = s
        PROVE  FALSE
    <3>1. u # t /\ thread[u].on = s /\ Up(s)
      BY <1>0, <1>1, <2>2, <2>3, <2>7
    <3>2. s = conn
      BY <1>0, <3>1 DEF Connections, OneConnection, Referenced
    <3>3. lineLock.owner = t
      BY <1>0, <2>1, <3>1, <3>2 DEF Connections, ClosesLocked
    <3>4. lineLock.owner = u
      BY <1>0, <3>1, Held DEF Exchange
    <3> QED
      BY <3>1, <3>3, <3>4
  <2>8. OneConnection'
    BY <1>0, <2>1, <2>7 DEF OneConnection, Referenced
  <2> QED
    BY <2>4, <2>5, <2>6, <2>8 DEF Connections
<1>4. CASE ConnectionClosed(t)
  <2>1. /\ thread[t].pc = "unflag" /\ is_connected' = FALSE
        /\ UNCHANGED <<conn, sockets, lineLock, accessLock>>
    BY <1>4 DEF ConnectionClosed, At, locks
  <2>2. /\ thread'[t].pc \in {"lost", "announce", "enter", "idle"} /\ thread'[t].on = None
    BY <1>0, <1>4, ClosingFrames DEF Leaves, Idle
  <2>3. \A s \in Sockets \cup {None} : Up(s)' <=> Up(s)
    BY <2>1 DEF Up, State
  <2>4. Up(conn)' => Up(conn)
    BY <1>0, <2>1, <2>3
  <2>5. ASSUME NEW u \in Threads, thread'[u].pc \in {"forget", "unflag"}, Up(conn) PROVE FALSE
    <3>1. u # t /\ thread[u].pc \in {"forget", "unflag"}
      BY <1>1, <2>2, <2>5
    <3>2. PICK v \in Threads \ {u} : Opening(v)
      BY <1>0, <2>5, <3>1 DEF Connections, ClosesLocked
    <3>3. v = t
      BY <3>1, <3>2
    <3> QED
      BY <2>1, <3>2, <3>3 DEF Opening, At
  <2>6. ClosesLocked'
    <3>1. \A u \in Threads : thread'[u].pc \in Closes => u \in {lineLock'.owner, accessLock'.owner}
      BY <1>0, <1>1, <2>1, <2>2 DEF Connections, ClosesLocked, Closes
    <3> QED
      BY <2>4, <2>5, <3>1 DEF ClosesLocked
  <2>7. ASSUME NEW u \in Threads, Passed(thread'[u]), accessLock'.owner # u, Up(conn)
        PROVE  FALSE
    <3>1. u # t
      BY <2>2, <2>7 DEF Passed, Exchange
    <3>2. PICK v \in Threads \ {t} : Opening(v)
      BY <1>0, <2>1, <2>7 DEF Connections, ClosesLocked
    <3>3. v = u
      BY <3>1, <3>2
    <3> QED
      BY <2>1, <2>7, <3>2, <3>3 DEF Opening
  <2>8. PassedConnected'
    BY <2>4, <2>7 DEF PassedConnected
  <2>9. OpensUnflagged'
    BY <2>1 DEF OpensUnflagged
  <2>10. OneConnection'
    <3> SUFFICES ASSUME NEW s \in Sockets, Up(s)',
                        s = conn' \/ \E u \in Threads : thread'[u].on = s
                 PROVE  s = conn'
      BY DEF OneConnection, Referenced
    <3>1. Up(s) /\ (s = conn \/ \E u \in Threads : thread[u].on = s)
      BY <1>0, <1>1, <2>1, <2>2, <2>3
    <3> QED
      BY <1>0, <2>1, <3>1 DEF Connections, OneConnection, Referenced
  <2> QED
    BY <2>6, <2>8, <2>9, <2>10 DEF Connections
<1> QED
  BY <1>2, <1>3, <1>4

LEMMA OpenKnown ==
  ASSUME ConnectionsInv, NEW t \in Threads, StepOf(t), Open(t)
  PROVE  Connections'
<1>0. Typed /\ Nesting /\ Connections
  BY DEF ConnectionsInv, Inv
<1>1. \A u \in Threads \ {t} :
        /\ thread'[u] = thread[u]
        /\ accessLock'.owner = u <=> accessLock.owner = u
        /\ lineLock'.owner = u <=> lineLock.owner = u
  BY Beside
<1>2. /\ thread[t].pc = "open" /\ UNCHANGED <<is_connected, lineLock, accessLock>>
  BY DEF Open, At, locks
<1>3. thread'[t].pc = "flag" /\ thread'[t].on = None
  BY <1>0, ConnectFrames DEF GoesOn
<1>4. accessLock.owner = t /\ ~is_connected
  BY <1>0, <1>2, Held DEF Within, Connections, OpensUnflagged, At
<1>5. At(t, "flag")' /\ Opening(t)'
  BY <1>2, <1>3, <1>4 DEF At, Opening
<1>6. ClosesLocked'
  <2>1. ASSUME NEW u \in Threads, thread'[u].pc \in Closes
        PROVE  u # t /\ lineLock'.owner = u
    <3>1. u # t /\ thread[u].pc \in Closes
      BY <1>1, <1>3, <2>1 DEF Closes
    <3> QED
      BY <1>0, <1>2, <1>4, <3>1 DEF Connections, ClosesLocked
  <2> QED
    BY <1>5, <2>1 DEF ClosesLocked, Closes
<1>7. PassedConnected'
  BY <1>5 DEF PassedConnected
<1>8. OpensUnflagged'
  BY <1>1, <1>2, <1>4 DEF OpensUnflagged
<1>9. OneConnection'
  <2> SUFFICES ASSUME NEW s \in Sockets, Up(s)', s # conn',
                      NEW w \in Threads, thread'[w].on = s
               PROVE  FALSE
    BY DEF OneConnection, Referenced
  <2>0. s # None
    BY Held
  <2>1. Up(s) /\ (s = conn => \E u \in Threads : thread[u].on = s)
    BY <1>0, NewSocket
  <2>2. w # t /\ thread[w].on = s
    BY <1>1, <1>3, <2>0
  <2>3. s = conn
    BY <1>0, <2>1, <2>2 DEF Connections, OneConnection, Referenced
  <2>4. Passed(thread[w])
    BY <2>0, <2>2, Held DEF Passed, Exchange
  <2>5. PICK v \in Threads : At(v, "flag")
    BY <1>0, <1>4, <2>1, <2>2, <2>3, <2>4 DEF Connections, PassedConnected
  <2>6. accessLock.owner = v
    BY <2>5, Held DEF Within, At
  <2> QED
    BY <1>2, <1>4, <2>5, <2>6 DEF At
<1> QED
  BY <1>6, <1>7, <1>8, <1>9 DEF Connections

\* The flag is set when a connection has been made, and with the result of
\* read_is_connected.
LEMMA FlagSetKnown ==
  ASSUME ConnectionsInv, NEW t \in Threads, StepOf(t), HasIdent,
         FlagConnected(t) \/ (Announce(t) /\ thread[t].result)
  PROVE  Connections'
<1>0. /\ Typed /\ Nesting /\ Connections
      /\ conn \in Sockets \cup {None} /\ None \notin Sockets
  BY Held DEF ConnectionsInv, Inv
<1>1. \A u \in Threads \ {t} :
        /\ thread'[u] = thread[u]
        /\ accessLock'.owner = u <=> accessLock.owner = u
        /\ lineLock'.owner = u <=> lineLock.owner = u
  BY Beside
<1>2. /\ is_connected' = TRUE /\ UNCHANGED <<conn, sockets, lineLock>>
      /\ thread[t].pc \in {"flag", "announce"}
      /\ FlagConnected(t) => thread[t].pc = "flag" /\ accessLock' = accessLock
      /\ Announce(t) => thread[t].pc = "announce"
  BY DEF FlagConnected, Announce, At, locks
<1>3. /\ thread'[t].pc \in {"check", "checked", "announce", "idle"} /\ thread'[t].on = None
      /\ thread'[t].pc = "announce" => thread'[t].result
  <2>1. CASE FlagConnected(t)
    BY <1>0, <2>1, ConnectFrames DEF CallsThen
  <2>2. CASE Announce(t) /\ thread[t].result
    <3>1. Leaves(t) /\ thread'[t].pc \in {"checked", "announce", "idle"}
      BY <1>0, <2>2, ConnectFrames
    <3>2. Idle.pc = "idle" /\ Idle.on = None
      BY DEF Idle
    <3> QED
      BY <2>2, <3>1, <3>2 DEF Leaves
  <2> QED
    BY <2>1, <2>2
<1>4. accessLock.owner = t
  BY <1>2, Held DEF Within
<1>5. FlagConnected(t) => Opening(t)'
  <2> SUFFICES ASSUME FlagConnected(t) PROVE Opening(t)'
    OBVIOUS
  <2>1. PICK next \in {"ident", "again"} : CallsThen(t, "check", next)
    BY <1>0, ConnectFrames
  <2>2. thread[t].stack \in Seq(ReturnPlaces)
    BY <1>0, EnteredType DEF Typed
  <2>3. thread'[t].stack = <<next>> \o thread[t].stack /\ thread'[t].pc = "check"
    BY <2>1 DEF CallsThen
  <2>4. <<next>> \o thread[t].stack # <<>> /\ Head(<<next>> \o thread[t].stack) = next
    BY <2>2
  <2> QED
    BY <1>2, <1>4, <2>3, <2>4 DEF Opening, Identifying
<1>6. \A s \in Sockets \cup {None} : Up(s)' <=> Up(s)
  BY <1>2 DEF Up, State
<1>7. ClosesLocked'
  <2>1. ASSUME NEW u \in Threads, thread'[u].pc \in Closes
        PROVE  u # t /\ thread[u].pc \in Closes /\ u \in {lineLock'.owner, accessLock'.owner}
    <3>1. u # t /\ thread[u].pc \in Closes
      BY <1>1, <1>3, <2>1 DEF Closes
    <3> QED
      BY <1>0, <1>1, <3>1 DEF Connections, ClosesLocked
  <2>2. ASSUME NEW u \in Threads, thread'[u].pc \in {"forget", "unflag"}, Up(conn)'
        PROVE  lineLock'.owner = u /\ \E v \in Threads \ {u} : Opening(v)'
    <3>1. u # t /\ thread'[u] = thread[u] /\ Up(conn)
      BY <1>0, <1>1, <1>2, <1>6, <2>1, <2>2 DEF Closes
    <3>2. lineLock.owner = u /\ \E v \in Threads \ {u} : Opening(v)
      BY <1>0, <2>2, <3>1 DEF Connections, ClosesLocked
    <3>3. Opening(t)
      BY <1>4, <3>2 DEF Opening
    <3>4. FlagConnected(t)
      BY <1>2, <3>3 DEF Opening, At
    <3> QED
      BY <1>1, <1>5, <3>1, <3>2, <3>4
  <2> QED
    BY <2>1, <2>2 DEF ClosesLocked
<1>8. PassedConnected'
  BY <1>2 DEF PassedConnected
<1>9. OpensUnflagged'
  <2> SUFFICES ASSUME NEW u \in Threads,
                      thread'[u].pc = "open" \/ (thread'[u].pc = "announce" /\ ~thread'[u].result)
               PROVE  FALSE
    BY DEF OpensUnflagged, At
  <2>1. u # t /\ thread[u].pc \in Within
    BY <1>1, <1>3 DEF Within
  <2>2. accessLock.owner = u
    BY <2>1, Held
  <2> QED
    BY <1>4, <2>1, <2>2
<1>10. OneConnection'
  <2> SUFFICES ASSUME NEW s \in Sockets, Up(s)',
                      s = conn' \/ \E u \in Threads : thread'[u].on = s
               PROVE  s = conn'
    BY DEF OneConnection, Referenced
  <2>1. Up(s) /\ (s = conn \/ \E u \in Threads : thread[u].on = s)
    BY <1>0, <1>1, <1>2, <1>3, <1>6
  <2> QED
    BY <1>0, <1>2, <2>1 DEF Connections, OneConnection, Referenced
<1> QED
  BY <1>7, <1>8, <1>9, <1>10 DEF Connections

LEMMA AnnounceKnown ==
  ASSUME ConnectionsInv, NEW t \in Threads, StepOf(t), Announce(t), ~thread[t].result
  PROVE  Connections'
<1>0. Typed /\ Nesting /\ Connections /\ is_connected \in BOOLEAN /\ thread[t].result \in BOOLEAN
  BY Held DEF ConnectionsInv, Inv
<1>1. /\ thread[t].pc = "announce" /\ is_connected' = FALSE /\ UNCHANGED <<conn, sockets>>
  BY <1>0 DEF Announce, At
<1>2. is_connected = FALSE
  BY <1>0, <1>1 DEF Connections, OpensUnflagged, At
<1>3. /\ thread'[t].pc \in {"checked", "announce", "idle"} /\ thread'[t].on = None
      /\ thread'[t].pc = "checked" => ~thread'[t].result
  <2>1. Leaves(t) /\ thread'[t].pc \in {"checked", "announce", "idle"}
    BY <1>0, ConnectFrames
  <2>2. Idle.pc = "idle" /\ Idle.on = None
    BY DEF Idle
  <2> QED
    BY <1>0, <2>1, <2>2 DEF Leaves
<1>4. ~Opening(t) /\ ~Passed(thread'[t])
  BY <1>1, <1>3 DEF Opening, At, Passed, Exchange
<1>5. \A s \in Sockets : Up(s)' => Up(s)
  BY <1>1 DEF Up, State
<1> QED
  BY <1>1, <1>2, <1>3, <1>4, <1>5, FlagKept DEF Closes

LEMMA DeviceKnown ==
  ASSUME ConnectionsInv, UNCHANGED <<is_connected, conn, lineLock, accessLock, thread>>,
         (\E s \in Sockets : Answer(s) \/ Drop(s)) \/ sockets' = sockets
  PROVE  Connections'
<1>0. /\ Connections /\ sockets \in [Sockets -> SocketStates]
      /\ conn \in Sockets \cup {None} /\ None \notin Sockets
  <2>1. None \notin Sockets
    BY ThreadsAssumption DEF Sockets
  <2> QED
    BY <2>1 DEF ConnectionsInv, Inv, Typed
<1>1. \A s \in Sockets : Up(s)' => Up(s)
  BY <1>0 DEF Answer, Drop, Up, State, SocketStates
<1>2. Up(conn)' => Up(conn)
  BY <1>0, <1>1 DEF Up, State
<1>3. ClosesLocked'
  BY <1>0, <1>2 DEF Connections, ClosesLocked, Opening, At, Identifying
<1>4. PassedConnected'
  BY <1>0, <1>2 DEF Connections, PassedConnected, At
<1>5. OpensUnflagged'
  BY <1>0 DEF Connections, OpensUnflagged, At
<1>6. OneConnection'
  BY <1>0, <1>1 DEF Connections, OneConnection, Referenced
<1> QED
  BY <1>3, <1>4, <1>5, <1>6 DEF Connections

LEMMA ConnectionsStep ==
  ASSUME ConnectionsInv, [Next]_vars,
         \A a, b, c \in Threads : a = b \/ b = c \/ a = c, HasIdent, "reconnect" \notin Ops
  PROVE  ConnectionsInv'
<1>0. Inv /\ Typed /\ Nesting /\ AccessHeld
  BY DEF ConnectionsInv, Inv
<1>1. Inv' /\ Nesting' /\ AccessHeld'
  BY <1>0, InvStep, FrameStep
<1>2. ASSUME NEW t \in Threads, StepOf(t) PROVE Connections'
  <2>1. CASE (t \in Users /\ CallFrom(t)) \/ (t = Poller /\ (DoPoll \/ PollModule))
    BY <1>2, <2>1, CallsKnown
  <2>2. CASE Step(t)
    <3>1. CASE Raising(t)
      BY <1>2, <3>1, RaisingKnown
    <3>2. CASE CloseConnection(t) \/ ForgetConnection(t) \/ ConnectionClosed(t)
      BY <1>2, <3>1, <3>2, ClosingKnown DEF Raising
    <3>3. CASE CheckConnection(t) \/ ConnectionChecked(t) \/ TakeLine(t)
      BY <1>2, <3>1, <3>3, CheckKnown DEF Raising
    <3>4. CASE \/ Flush(t) \/ (\E noreply \in BOOLEAN : Send(t, noreply)) \/ StartReading(t)
               \/ ReadAnswer(t) \/ EndOfFile(t) \/ Given(t)
      BY <1>2, <3>4, ExchangeKnown
    <3>5. CASE \/ EnterRead(t) \/ TestConnected(t) \/ CheckHWIdent(t) \/ Connected(t)
               \/ ReturnConnected(t)
      BY <1>2, <3>5, ConnectKnown
    <3>6. CASE Open(t)
      BY <1>2, <3>6, OpenKnown
    <3>7. CASE FlagConnected(t) \/ Announce(t)
      BY <1>2, <3>7, FlagSetKnown, AnnounceKnown
    <3>8. CASE Write(t) \/ MulticommLock(t) \/ MulticommNext(t)
      BY <1>2, <3>8, CallsKnown
    <3> QED
      BY <2>2, <3>1, <3>2, <3>3, <3>4, <3>5, <3>6, <3>7, <3>8 DEF Step, Raising
  <2> QED
    BY <1>2, <2>1, <2>2 DEF StepOf
<1>3. Connections'
  <2>1. CASE /\ UNCHANGED <<is_connected, conn, lineLock, accessLock, thread, calls>>
             /\ (\E s \in Sockets : Answer(s) \/ Drop(s)) \/ sockets' = sockets
    BY <2>1, DeviceKnown
  <2> QED
    BY <1>0, <1>2, <2>1, NextFrames DEF StepOf
<1> QED
  BY <1>1, <1>3 DEF ConnectionsInv

LEMMA ConnectionsInit == Init => ConnectionsInv
<1> SUFFICES ASSUME Init PROVE Connections
  BY InitInv, FrameInit DEF ConnectionsInv
<1>1. /\ thread = [t \in Threads |-> Idle] /\ conn = None
      /\ Idle.pc = "idle" /\ Idle.on = None /\ None \notin Sockets
  BY ThreadsAssumption DEF Init, Idle, Sockets
<1>2. ClosesLocked
  BY <1>1 DEF ClosesLocked, Closes
<1>3. PassedConnected
  BY <1>1 DEF PassedConnected, Passed, Exchange
<1>4. OpensUnflagged
  BY <1>1 DEF OpensUnflagged, At
<1>5. OneConnection
  BY <1>1 DEF OneConnection, Referenced
<1> QED
  BY <1>2, <1>3, <1>4, <1>5 DEF Connections

\* Between the polls, is_connected tells whether there is a connection, as long as only
\* the poll thread has used the communicator, whatever connections are dropped or
\* refused (read_is_connected and closeConnection, io.py).
THEOREM PollerTells == SafetySpec => []FlagTellsConnection
<1>1. Init => Inv /\ Nesting /\ AccessHeld /\ Alone
  BY InitInv, FrameInit, AloneInit
<1>2. Inv /\ Nesting /\ AccessHeld /\ Alone /\ [Next]_vars
        => (Inv /\ Nesting /\ AccessHeld /\ Alone)'
  BY InvStep, FrameStep, AloneStep DEF Inv
<1>3. Alone => FlagTellsConnection
  BY AloneTells
<1> QED
  BY <1>1, <1>2, <1>3, PTL DEF SafetySpec

\* With one thread besides the poll thread, which does not call reconnect, and an
\* identification to check, the device is used over one connection: closeConnection
\* (io.py), called with _lock or with accessLock only, and a thread having made a
\* connection, which waits for _lock to identify it, keep the threads apart.
THEOREM ConnectionStaysKnown ==
  ASSUME \A t, u \in Users : t = u, HasIdent, "reconnect" \notin Ops
  PROVE  SafetySpec => []ConnectionKnown
<1>1. \A a, b, c \in Threads : a = b \/ b = c \/ a = c
  BY DEF Threads
<1>2. ConnectionsInv /\ [Next]_vars => ConnectionsInv'
  BY <1>1, ConnectionsStep
<1>3. ConnectionsInv => OneConnection
  BY DEF ConnectionsInv, Connections
<1>4. OneConnection /\ FlagTellsConnection => ConnectionKnown
  BY DEF ConnectionKnown
<1> QED
  BY <1>2, <1>3, <1>4, ConnectionsInit, PollerTells, PTL DEF SafetySpec

-----------------------------------------------------------------------------
(* The client.  Its calls of connect(), and its threads.                   *)

\* The purposes of calls of connect(): those within connect() come after the first.
Inner == {"describe", "activate"}
Stacks == {s \in Seq(Cl!Purposes) : \A i \in 1 .. Len(s) : s[i] \in Inner <=> i > 1}

\* A call of connect() by its thread is the outermost one.
LEMMA OneCall ==
  ASSUME NEW p \in Cl!Purposes \ Inner
  PROVE  Append(<< >>, p) \in Stacks /\ Len(Append(<< >>, p)) = 1
BY DEF Stacks

\* A call within connect(), and a return from one.
LEMMA Calls ==
  ASSUME NEW s \in Stacks, s # << >>
  PROVE  /\ s[Len(s)] \in Cl!Purposes
         /\ Cl!Pop(s) \in Stacks
         /\ Len(s) \in Nat /\ Len(s) >= 1
         /\ Len(Cl!Pop(s)) = Len(s) - 1
         /\ Cl!Pop(s) = << >> <=> Len(s) = 1
         /\ s[Len(s)] \in Inner <=> Len(s) > 1
         /\ Append(s, "describe") \in Stacks
         /\ Len(Append(s, "describe")) = Len(s) + 1
         /\ Len(s) > 1 => /\ Append(Cl!Pop(s), "activate") \in Stacks
                          /\ Len(Append(Cl!Pop(s), "activate")) = Len(s)
<1>1. s \in Seq(Cl!Purposes) /\ \A i \in 1 .. Len(s) : s[i] \in Inner <=> i > 1
  BY DEF Stacks
<1>2. Len(s) \in Nat /\ Len(s) >= 1
  BY <1>1
<1> DEFINE r == Cl!Pop(s)
<1>3. r \in Seq(Cl!Purposes) /\ Len(r) = Len(s) - 1 /\ \A i \in 1 .. Len(r) : r[i] = s[i]
  <2>1. \A i \in 1 .. Len(s) - 1 : s[i] \in Cl!Purposes
    BY <1>1, <1>2
  <2>2. r = SubSeq(s, 1, Len(s) - 1) /\ 1 \in Int /\ Len(s) - 1 \in Int
    BY <1>2 DEF Cl!Pop
  <2> HIDE DEF r
  <2>3. /\ r \in Seq(Cl!Purposes)
        /\ Len(r) = IF 1 <= Len(s) - 1 THEN Len(s) - 1 - 1 + 1 ELSE 0
        /\ \A i \in 1 .. Len(s) - 1 - 1 + 1 : r[i] = s[1 + i - 1]
    BY <2>1, <2>2, SubSeqProperties
  <2> DEFINE k == Len(s)
  <2>4. k \in Nat /\ k >= 1
    BY <1>2
  <2>5. /\ Len(r) = IF 1 <= k - 1 THEN k - 1 - 1 + 1 ELSE 0
        /\ \A i \in 1 .. k - 1 - 1 + 1 : r[i] = s[1 + i - 1]
    BY <2>3
  <2> HIDE DEF k
  <2>6. Len(r) = k - 1
    BY <2>4, <2>5
  <2>7. ASSUME NEW i \in 1 .. k - 1 PROVE r[i] = s[i]
    <3>1. i \in 1 .. k - 1 - 1 + 1 /\ 1 + i - 1 = i
      BY <2>4
    <3> QED
      BY <2>5, <3>1
  <2> QED
    BY <2>3, <2>6, <2>7 DEF k
<1>4. r \in Stacks
  BY <1>1, <1>2, <1>3 DEF Stacks
<1>5. r = << >> <=> Len(s) = 1
  BY <1>3, <1>2
<1> DEFINE a == Append(s, "describe")
<1>6. a \in Seq(Cl!Purposes) /\ Len(a) = Len(s) + 1 /\ a[Len(s) + 1] = "describe"
      /\ \A i \in 1 .. Len(s) : a[i] = s[i]
  BY <1>1, <1>2 DEF Cl!Purposes
<1>7. a \in Stacks
  <2> HIDE DEF a
  <2>1. \A i \in 1 .. Len(a) : a[i] \in Inner <=> i > 1
    <3> SUFFICES ASSUME NEW i \in 1 .. Len(a) PROVE a[i] \in Inner <=> i > 1
      OBVIOUS
    <3>1. CASE i = Len(s) + 1
      BY <1>2, <1>6, <3>1 DEF Inner
    <3>2. CASE i \in 1 .. Len(s)
      BY <1>1, <1>6, <3>2
    <3> QED
      BY <1>2, <1>6, <3>1, <3>2
  <2> QED
    BY <1>6, <2>1 DEF Stacks
<1> DEFINE b == Append(r, "activate")
<1>8. b \in Seq(Cl!Purposes) /\ Len(b) = Len(s) /\ b[Len(s)] = "activate"
      /\ \A i \in 1 .. Len(s) - 1 : b[i] = s[i]
  <2> HIDE DEF r
  <2> QED
    BY <1>2, <1>3 DEF Cl!Purposes
<1>9. ASSUME Len(s) > 1 PROVE b \in Stacks
  <2> HIDE DEF b
  <2>1. \A i \in 1 .. Len(b) : b[i] \in Inner <=> i > 1
    <3> SUFFICES ASSUME NEW i \in 1 .. Len(b) PROVE b[i] \in Inner <=> i > 1
      OBVIOUS
    <3>1. CASE i = Len(s)
      BY <1>2, <1>8, <1>9, <3>1 DEF Inner
    <3>2. CASE i \in 1 .. Len(s) - 1
      BY <1>1, <1>8, <3>2
    <3> QED
      BY <1>2, <1>8, <3>1, <3>2
  <2> QED
    BY <1>8, <2>1 DEF Stacks
<1> HIDE DEF r, a, b
<1>10. s[Len(s)] \in Cl!Purposes /\ (s[Len(s)] \in Inner <=> Len(s) > 1)
  BY <1>1, <1>2
<1> QED
  BY <1>2, <1>3, <1>4, <1>5, <1>6, <1>7, <1>8, <1>9, <1>10 DEF r, a, b

\* The threads of the connections are different ones, and none of the users.
LEMMA ThreadNames ==
  ASSUME NEW m \in Cl!Links, NEW n \in Cl!Links
  PROVE  /\ {Cl!Tx(n), Cl!Rx(n), Cl!Rc(n)} \subseteq Cl!Threads \ Clients
         /\ Cl!Nobody \notin {Cl!Tx(n), Cl!Rx(n), Cl!Rc(n)}
         /\ Cl!Rx(m) \notin {Cl!Tx(n), Cl!Rc(n)} /\ Cl!Tx(m) # Cl!Rc(n)
         /\ m # n => /\ Cl!Tx(m) # Cl!Tx(n)
                     /\ Cl!Rx(m) # Cl!Rx(n)
                     /\ Cl!Rc(m) # Cl!Rc(n)
BY ClientsAssumption, LinksAssumption
   DEF Cl!Tx, Cl!Rx, Cl!Rc, Cl!Threads, Cl!Nobody, Cl!NoLink, Cl!Links

-----------------------------------------------------------------------------
(* The invariant. *)

\* The rx thread of connection n is reading, or about to end but not yet known to be.
InLoop(n) == at[Cl!Rx(n)] \in {"read", "end", "crash"} \/ stack[Cl!Rx(n)] # << >>

Attributes ==
  [io : Cl!Links \cup {Cl!NoLink}, running : BOOLEAN, shutdown : BOOLEAN,
   lock : Cl!Threads \cup {Cl!Nobody}, txthread : Cl!Threads \cup {Cl!Nobody},
   rxthread : Cl!Threads \cup {Cl!Nobody}, connthread : Cl!Threads \cup {Cl!Nobody},
   queue : Cl!Queues, online : BOOLEAN, state : Cl!States]
LinkStates == {"none", "open", "shut", "gone"}

ClTyped ==
  /\ self \in Attributes
  /\ at \in [Cl!Threads -> Cl!Places] /\ DOMAIN ref = Cl!Threads
  /\ stack \in [Cl!Threads -> Stacks]
  /\ request \in [Cl!Threads -> Cl!Requests]
  /\ link \in [Cl!Links -> LinkStates]
  /\ since \in [Cl!Threads -> SUBSET Cl!Links] /\ overtaken \in BOOLEAN

\* A thread is within connect(), or a request, as long as it is there for a purpose, and
\* makes a request only for some of them.
Stacked ==
  \A t \in Cl!Threads :
    /\ at[t] \in Cl!Calling <=> stack[t] # << >>
    /\ at[t] \in {"put", "wait"} => Cl!Purpose(t) \notin {"reconnect", "heartbeat"}

\* Connections are made one after the other, and threads for each of them.
Numbered ==
  /\ \A n \in Cl!Links : link[n] # "none" <=> n <= Cl!Made
  /\ self.io \in {Cl!NoLink, Cl!Made}
  /\ \A n \in Cl!Links :
       /\ at[Cl!Rx(n)] # "none" => n <= Cl!Made
       /\ at[Cl!Rx(n)] # "none" <=> at[Cl!Tx(n)] # "none"
       /\ at[Cl!Rc(n)] # "none" => at[Cl!Rx(n)] = "dead"
  /\ \A t \in Cl!Threads : since[t] \subseteq Cl!Serving

\* Attempts to connect are made with the lock ...
InLock == {"try", "start", "identified", "except", "connected"}
Locking ==
  \A t \in Cl!Threads : at[t] \in InLock \/ Len(stack[t]) > 1 => self.lock = t

\* ... and without a connection, but for the one just made, which has no threads yet.
Starting ==
  \A t \in Cl!Threads :
    /\ at[t] = "try" => self.io = Cl!NoLink
    /\ at[t] \in {"start", "identified"} =>
         /\ Cl!Made \in Cl!Links /\ at[Cl!Rx(Cl!Made)] = "none"
         /\ ~overtaken => self.io = Cl!Made

Attempting == Locking /\ Starting

\* Connections closed are not those of the client.
Tidy == Cl!NoLeak

\* Who reads does so from the connection of the client, ...
Reading ==
  ~overtaken => \A n \in Cl!Links : InLoop(n) => self.io = n /\ self.rxthread = Cl!Rx(n)

\* ... and a disconnect() begun after that waits for it before it closes the connection.
Waiting ==
  ~overtaken => \A t \in Cl!Threads :
    self.io \in since[t] /\ InLoop(self.io) =>
      /\ at[t] = "join rx" => ref[t] = Cl!Rx(self.io)
      /\ at[t] # "close"

ClInv == ClTyped /\ Stacked /\ Numbered /\ Attempting /\ Tidy /\ Reading /\ Waiting

\* The connections made are counted up to their bound.
LEMMA MadeRange ==
  /\ IsFiniteSet(Cl!Links)
  /\ Cl!Made = Cardinality({n \in Cl!Links : link[n] # "none"})
  /\ Cl!Made \in 0 .. MaxLinks
  /\ Cl!Made < MaxLinks => Cl!Made + 1 \in Cl!Links
<1> DEFINE S == {n \in Cl!Links : link[n] # "none"}
<1>1. IsFiniteSet(Cl!Links) /\ Cardinality(Cl!Links) = MaxLinks
  BY FS_Interval, LinksAssumption DEF Cl!Links
<1>2. Cardinality(S) \in Nat /\ Cardinality(S) <= MaxLinks
  BY <1>1, FS_Subset, FS_CardinalityType
<1>3. Cl!Cardinality(S) = Cardinality(S)
  BY DEF Cl!Cardinality, Cardinality
<1>4. Cl!Made = Cl!Cardinality(S)
  BY DEF Cl!Made
<1> QED
  BY <1>1, <1>2, <1>3, <1>4, LinksAssumption DEF Cl!Links

\* Every step leaves the attributes, the threads and the queues with values of their kind.
LEMMA ClTypeStep ==
  ASSUME ClTyped, Stacked, Attempting, Cl!Next PROVE ClTyped'
<1> USE ThreadNames, LinksAssumption, MadeRange DEF ClTyped, Attributes
<1> USE DEF Cl!Places, Cl!Calling, Cl!Closing, Cl!env, Cl!history, Cl!NoLink

<1>1. ASSUME NEW u \in Clients, Cl!Request(u) PROVE ClTyped'
  <2>0. u \in Cl!Threads
    BY DEF Cl!Threads
  <2>1. at' \in [Cl!Threads -> Cl!Places]
    BY <1>1, <2>0 DEF Cl!Request, Cl!CallConnect, Cl!Go, Cl!Purposes
  <2>e. stack[u] = << >> /\ u \in Cl!Threads
    BY <1>1, ThreadNames, <2>0 DEF Stacked, Cl!Go, Cl!CallConnect, Cl!Request
  <2>2. stack' \in [Cl!Threads -> Stacks]
    BY <2>e, <1>1, <2>0, OneCall DEF Cl!Request, Cl!CallConnect, Cl!Go, Cl!Purposes, Inner
  <2>3. self' \in Attributes
    BY <1>1, <2>0 DEF Cl!Request, Cl!CallConnect, Cl!Go, Cl!States, Cl!Queues, Cl!Links
  <2>4. request' \in [Cl!Threads -> Cl!Requests]
    BY <1>1, <2>0 DEF Cl!Request, Cl!CallConnect, Cl!Go, Cl!Requests
  <2>5. link' \in [Cl!Links -> LinkStates]
    BY <1>1, <2>0 DEF Cl!Request, Cl!CallConnect, Cl!Go, LinkStates
  <2>6. since' \in [Cl!Threads -> SUBSET Cl!Links] /\ overtaken' \in BOOLEAN /\ DOMAIN ref' = Cl!Threads
    BY <1>1, <2>0 DEF Cl!Request, Cl!CallConnect, Cl!Go, Cl!Serving
  <2> QED
    BY <2>1, <2>2, <2>3, <2>4, <2>5, <2>6
<1>2. ASSUME NEW u \in Clients, Cl!Disconnect(u) PROVE ClTyped'
  <2>0. u \in Cl!Threads
    BY DEF Cl!Threads
  <2>1. at' \in [Cl!Threads -> Cl!Places]
    BY <1>2, <2>0 DEF Cl!Disconnect, Cl!Go, Cl!Purposes
  <2>2. stack' \in [Cl!Threads -> Stacks]
    BY <1>2, <2>0, OneCall DEF Cl!Disconnect, Cl!Go, Cl!Purposes, Inner
  <2>3. self' \in Attributes
    BY <1>2, <2>0 DEF Cl!Disconnect, Cl!Go, Cl!States, Cl!Queues, Cl!Links
  <2>4. request' \in [Cl!Threads -> Cl!Requests]
    BY <1>2, <2>0 DEF Cl!Disconnect, Cl!Go, Cl!Requests
  <2>5. link' \in [Cl!Links -> LinkStates]
    BY <1>2, <2>0 DEF Cl!Disconnect, Cl!Go, LinkStates
  <2>6. since' \in [Cl!Threads -> SUBSET Cl!Links] /\ overtaken' \in BOOLEAN /\ DOMAIN ref' = Cl!Threads
    BY <1>2, <2>0 DEF Cl!Disconnect, Cl!Go, Cl!Serving
  <2> QED
    BY <2>1, <2>2, <2>3, <2>4, <2>5, <2>6
<1>3. ASSUME NEW t \in Cl!Threads, Cl!Lock(t) PROVE ClTyped'
  <2>0. stack[t] \in Stacks /\ stack[t] # << >>
    BY <1>3 DEF Cl!Lock, Cl!Go, Cl!ReturnFromConnect, Cl!Released, Cl!Purpose, Cl!Cleared, Stacked
  <2>p. /\ Cl!Purpose(t) \in Cl!Purposes /\ Cl!Pop(stack[t]) \in Stacks
        /\ Append(stack[t], "describe") \in Stacks
        /\ Len(stack[t]) > 1 => Append(Cl!Pop(stack[t]), "activate") \in Stacks
        /\ Len(stack[t]) > 1 <=> Cl!Purpose(t) \in Inner
    BY <2>0, Calls DEF Cl!Purpose
  <2>a. \/ /\ Cl!ReturnFromConnect(t, "lock") /\ UNCHANGED <<request, txq>>
           /\ self' = [self EXCEPT !.lock = Cl!Released(t)]
        \/ /\ Cl!Go(t, "lock", "try") /\ UNCHANGED stack /\ request' = Cl!Cleared
           /\ \E s \in Cl!States : self' = [self EXCEPT !.lock = t, !.shutdown = FALSE,
                                          !.queue = Cl!Made, !.state = s]
    <3>1. CASE self.io # Cl!NoLink
      BY <1>3, <3>1 DEF Cl!Lock
    <3>2. CASE self.io = Cl!NoLink
      BY <1>3, <3>2 DEF Cl!Lock, Cl!States
    <3> QED
      BY <3>1, <3>2
  <2>1. at' \in [Cl!Threads -> Cl!Places]
    BY <2>a DEF Cl!Go, Cl!ReturnFromConnect
  <2>2. stack' \in [Cl!Threads -> Stacks]
    <3>1. stack' \in {stack, [stack EXCEPT ![t] = Cl!Pop(stack[t])]}
      BY <2>a DEF Cl!ReturnFromConnect
    <3>2. CASE stack' = stack
      BY <3>2
    <3>3. CASE stack' = [stack EXCEPT ![t] = Cl!Pop(stack[t])]
      BY <2>p, <3>3
    <3> QED
      BY <3>1, <3>2, <3>3
  <2>3. self' \in Attributes
    <3>1. Cl!Released(t) \in Cl!Threads \cup {Cl!Nobody} /\ Cl!Made \in Cl!Queues
      BY DEF Cl!Released, Cl!Queues
    <3>2. CASE self' = [self EXCEPT !.lock = Cl!Released(t)]
      BY <3>1, <3>2 DEF Attributes
    <3>3. CASE \E s \in Cl!States : self' = [self EXCEPT !.lock = t, !.shutdown = FALSE,
                                             !.queue = Cl!Made, !.state = s]
      <4>1. PICK s \in Cl!States : self' = [self EXCEPT !.lock = t, !.shutdown = FALSE,
                                             !.queue = Cl!Made, !.state = s]
        BY <3>3
      <4> QED
        BY <3>1, <4>1 DEF Attributes
    <3> QED
      BY <2>a, <3>2, <3>3
  <2>4. request' \in [Cl!Threads -> Cl!Requests]
    BY <2>a DEF Cl!Cleared, Cl!Requests
  <2>5. link' \in [Cl!Links -> LinkStates]
    BY <1>3, <2>p DEF Cl!Lock, Cl!Go, Cl!ReturnFromConnect, Cl!Released, Cl!Cleared, LinkStates
  <2>6. since' \in [Cl!Threads -> SUBSET Cl!Links] /\ overtaken' \in BOOLEAN /\ DOMAIN ref' = Cl!Threads
    BY <1>3, <2>p DEF Cl!Lock, Cl!Go, Cl!ReturnFromConnect, Cl!Released, Cl!Cleared, Cl!Serving
  <2> QED
    BY <2>1, <2>2, <2>3, <2>4, <2>5, <2>6
<1>4. ASSUME NEW t \in Cl!Threads, Cl!TryShutdown(t) PROVE ClTyped'
  <2>0. stack[t] \in Stacks /\ stack[t] # << >>
    BY <1>4 DEF Cl!TryShutdown, Cl!ReturnFromConnect, Cl!Released, Cl!Purpose, Cl!Go, Stacked
  <2>p. /\ Cl!Purpose(t) \in Cl!Purposes /\ Cl!Pop(stack[t]) \in Stacks
        /\ Append(stack[t], "describe") \in Stacks
        /\ Len(stack[t]) > 1 => Append(Cl!Pop(stack[t]), "activate") \in Stacks
        /\ Len(stack[t]) > 1 <=> Cl!Purpose(t) \in Inner
    BY <2>0, Calls DEF Cl!Purpose
  <2>1. at' \in [Cl!Threads -> Cl!Places]
    BY <1>4, <2>p DEF Cl!TryShutdown, Cl!ReturnFromConnect, Cl!Released, Cl!Go, Cl!Purposes
  <2>2. stack' \in [Cl!Threads -> Stacks]
    BY <1>4, <2>p, OneCall DEF Cl!TryShutdown, Cl!ReturnFromConnect, Cl!Released, Cl!Go, Cl!Purposes, Inner
  <2>3. self' \in Attributes
    BY <1>4, <2>p DEF Cl!TryShutdown, Cl!ReturnFromConnect, Cl!Released, Cl!Go, Cl!States, Cl!Queues, Cl!Links
  <2>4. request' \in [Cl!Threads -> Cl!Requests]
    BY <1>4, <2>p DEF Cl!TryShutdown, Cl!ReturnFromConnect, Cl!Released, Cl!Go, Cl!Requests
  <2>5. link' \in [Cl!Links -> LinkStates]
    BY <1>4, <2>p DEF Cl!TryShutdown, Cl!ReturnFromConnect, Cl!Released, Cl!Go, LinkStates
  <2>6. since' \in [Cl!Threads -> SUBSET Cl!Links] /\ overtaken' \in BOOLEAN /\ DOMAIN ref' = Cl!Threads
    BY <1>4, <2>p DEF Cl!TryShutdown, Cl!ReturnFromConnect, Cl!Released, Cl!Go, Cl!Serving
  <2> QED
    BY <2>1, <2>2, <2>3, <2>4, <2>5, <2>6
<1>5. ASSUME NEW t \in Cl!Threads, Cl!Open(t) PROVE ClTyped'
  <2>1. at' \in [Cl!Threads -> Cl!Places]
    BY <1>5 DEF Cl!Open, Cl!Go, Cl!Purposes
  <2>2. stack' \in [Cl!Threads -> Stacks]
    BY <1>5, OneCall DEF Cl!Open, Cl!Go, Cl!Purposes, Inner
  <2>3. self' \in Attributes
    BY <1>5 DEF Cl!Open, Cl!Go, Cl!States, Cl!Queues, Cl!Links
  <2>4. request' \in [Cl!Threads -> Cl!Requests]
    BY <1>5 DEF Cl!Open, Cl!Go, Cl!Requests
  <2>5. link' \in [Cl!Links -> LinkStates]
    BY <1>5 DEF Cl!Open, Cl!Go, LinkStates
  <2>6. since' \in [Cl!Threads -> SUBSET Cl!Links] /\ overtaken' \in BOOLEAN /\ DOMAIN ref' = Cl!Threads
    BY <1>5 DEF Cl!Open, Cl!Go, Cl!Serving
  <2> QED
    BY <2>1, <2>2, <2>3, <2>4, <2>5, <2>6
<1>6. ASSUME NEW t \in Cl!Threads, Cl!Refused(t) PROVE ClTyped'
  <2>1. at' \in [Cl!Threads -> Cl!Places]
    BY <1>6 DEF Cl!Refused, Cl!Go, Cl!Purposes
  <2>2. stack' \in [Cl!Threads -> Stacks]
    BY <1>6, OneCall DEF Cl!Refused, Cl!Go, Cl!Purposes, Inner
  <2>3. self' \in Attributes
    BY <1>6 DEF Cl!Refused, Cl!Go, Cl!States, Cl!Queues, Cl!Links
  <2>4. request' \in [Cl!Threads -> Cl!Requests]
    BY <1>6 DEF Cl!Refused, Cl!Go, Cl!Requests
  <2>5. link' \in [Cl!Links -> LinkStates]
    BY <1>6 DEF Cl!Refused, Cl!Go, LinkStates
  <2>6. since' \in [Cl!Threads -> SUBSET Cl!Links] /\ overtaken' \in BOOLEAN /\ DOMAIN ref' = Cl!Threads
    BY <1>6 DEF Cl!Refused, Cl!Go, Cl!Serving
  <2> QED
    BY <2>1, <2>2, <2>3, <2>4, <2>5, <2>6
<1>7. ASSUME NEW t \in Cl!Threads, Cl!Identified(t) PROVE ClTyped'
  <2>1. at' \in [Cl!Threads -> Cl!Places]
    BY <1>7 DEF Cl!Identified, Cl!Go, Cl!Purposes
  <2>2. stack' \in [Cl!Threads -> Stacks]
    BY <1>7, OneCall DEF Cl!Identified, Cl!Go, Cl!Purposes, Inner
  <2>3. self' \in Attributes
    BY <1>7 DEF Cl!Identified, Cl!Go, Cl!States, Cl!Queues, Cl!Links
  <2>4. request' \in [Cl!Threads -> Cl!Requests]
    BY <1>7 DEF Cl!Identified, Cl!Go, Cl!Requests
  <2>5. link' \in [Cl!Links -> LinkStates]
    BY <1>7 DEF Cl!Identified, Cl!Go, LinkStates
  <2>6. since' \in [Cl!Threads -> SUBSET Cl!Links] /\ overtaken' \in BOOLEAN /\ DOMAIN ref' = Cl!Threads
    BY <1>7 DEF Cl!Identified, Cl!Go, Cl!Serving
  <2> QED
    BY <2>1, <2>2, <2>3, <2>4, <2>5, <2>6
<1>8. ASSUME NEW t \in Cl!Threads, Cl!NotIdentified(t) PROVE ClTyped'
  <2>1. at' \in [Cl!Threads -> Cl!Places]
    BY <1>8 DEF Cl!NotIdentified, Cl!Go, Cl!Purposes
  <2>2. stack' \in [Cl!Threads -> Stacks]
    BY <1>8, OneCall DEF Cl!NotIdentified, Cl!Go, Cl!Purposes, Inner
  <2>3. self' \in Attributes
    BY <1>8 DEF Cl!NotIdentified, Cl!Go, Cl!States, Cl!Queues, Cl!Links
  <2>4. request' \in [Cl!Threads -> Cl!Requests]
    BY <1>8 DEF Cl!NotIdentified, Cl!Go, Cl!Requests
  <2>5. link' \in [Cl!Links -> LinkStates]
    BY <1>8 DEF Cl!NotIdentified, Cl!Go, LinkStates
  <2>6. since' \in [Cl!Threads -> SUBSET Cl!Links] /\ overtaken' \in BOOLEAN /\ DOMAIN ref' = Cl!Threads
    BY <1>8 DEF Cl!NotIdentified, Cl!Go, Cl!Serving
  <2> QED
    BY <2>1, <2>2, <2>3, <2>4, <2>5, <2>6
<1>9. ASSUME NEW t \in Cl!Threads, Cl!Start(t) PROVE ClTyped'
  <2>0. stack[t] \in Stacks /\ stack[t] # << >>
    BY <1>9 DEF Cl!Start, Stacked
  <2>p. /\ Cl!Purpose(t) \in Cl!Purposes /\ Cl!Pop(stack[t]) \in Stacks
        /\ Append(stack[t], "describe") \in Stacks
        /\ Len(stack[t]) > 1 => Append(Cl!Pop(stack[t]), "activate") \in Stacks
        /\ Len(stack[t]) > 1 <=> Cl!Purpose(t) \in Inner
    BY <2>0, Calls DEF Cl!Purpose
  <2>1. at' \in [Cl!Threads -> Cl!Places]
    BY <1>9, <2>p DEF Cl!Start, Cl!Purposes
  <2>2. stack' \in [Cl!Threads -> Stacks]
    BY <1>9, <2>p, OneCall DEF Cl!Start, Cl!Purposes, Inner
  <2>m. Cl!Made \in Cl!Links
    BY <1>9 DEF Cl!Start, Attempting, Starting
  <2>r. {Cl!Rx(Cl!Made), Cl!Tx(Cl!Made)} \subseteq Cl!Threads
    BY <2>m, ThreadNames
  <2>3. self' \in Attributes
    BY <2>r, <1>9, <2>p DEF Cl!Start, Cl!States, Cl!Queues, Cl!Links
  <2>4. request' \in [Cl!Threads -> Cl!Requests]
    BY <1>9, <2>p DEF Cl!Start, Cl!Requests
  <2>5. link' \in [Cl!Links -> LinkStates]
    BY <1>9, <2>p DEF Cl!Start, LinkStates
  <2>6. since' \in [Cl!Threads -> SUBSET Cl!Links] /\ overtaken' \in BOOLEAN /\ DOMAIN ref' = Cl!Threads
    BY <1>9, <2>p DEF Cl!Start, Cl!Serving
  <2> QED
    BY <2>1, <2>2, <2>3, <2>4, <2>5, <2>6
<1>10. ASSUME NEW t \in Cl!Threads, Cl!Connect(t) PROVE ClTyped'
  <2>0. stack[t] \in Stacks /\ stack[t] # << >>
    BY <1>10 DEF Cl!Connect, Cl!ReturnFromConnect, Cl!Go, Cl!Purpose, Cl!Released, Stacked
  <2>p. /\ Cl!Purpose(t) \in Cl!Purposes /\ Cl!Pop(stack[t]) \in Stacks
        /\ Append(stack[t], "describe") \in Stacks
        /\ Len(stack[t]) > 1 => Append(Cl!Pop(stack[t]), "activate") \in Stacks
        /\ Len(stack[t]) > 1 <=> Cl!Purpose(t) \in Inner
    BY <2>0, Calls DEF Cl!Purpose
  <2>1. at' \in [Cl!Threads -> Cl!Places]
    BY <1>10, <2>p DEF Cl!Connect, Cl!ReturnFromConnect, Cl!Go, Cl!Released, Cl!Purposes
  <2>2. stack' \in [Cl!Threads -> Stacks]
    BY <1>10, <2>p, OneCall DEF Cl!Connect, Cl!ReturnFromConnect, Cl!Go, Cl!Released, Cl!Purposes, Inner
  <2>3. self' \in Attributes
    BY <1>10, <2>p DEF Cl!Connect, Cl!ReturnFromConnect, Cl!Go, Cl!Released, Cl!States, Cl!Queues, Cl!Links
  <2>4. request' \in [Cl!Threads -> Cl!Requests]
    BY <1>10, <2>p DEF Cl!Connect, Cl!ReturnFromConnect, Cl!Go, Cl!Released, Cl!Requests
  <2>5. link' \in [Cl!Links -> LinkStates]
    BY <1>10, <2>p DEF Cl!Connect, Cl!ReturnFromConnect, Cl!Go, Cl!Released, LinkStates
  <2>6. since' \in [Cl!Threads -> SUBSET Cl!Links] /\ overtaken' \in BOOLEAN /\ DOMAIN ref' = Cl!Threads
    BY <1>10, <2>p DEF Cl!Connect, Cl!ReturnFromConnect, Cl!Go, Cl!Released, Cl!Serving
  <2> QED
    BY <2>1, <2>2, <2>3, <2>4, <2>5, <2>6
<1>11. ASSUME NEW t \in Cl!Threads, Cl!GiveUp(t) PROVE ClTyped'
  <2>0. stack[t] \in Stacks /\ stack[t] # << >>
    BY <1>11 DEF Cl!GiveUp, Cl!Raise, Cl!Go, Cl!Purpose, Cl!Released, Stacked
  <2>p. /\ Cl!Purpose(t) \in Cl!Purposes /\ Cl!Pop(stack[t]) \in Stacks
        /\ Append(stack[t], "describe") \in Stacks
        /\ Len(stack[t]) > 1 => Append(Cl!Pop(stack[t]), "activate") \in Stacks
        /\ Len(stack[t]) > 1 <=> Cl!Purpose(t) \in Inner
    BY <2>0, Calls DEF Cl!Purpose
  <2>1. at' \in [Cl!Threads -> Cl!Places]
    BY <1>11, <2>p DEF Cl!GiveUp, Cl!Raise, Cl!Go, Cl!Released, Cl!Purposes
  <2>2. stack' \in [Cl!Threads -> Stacks]
    BY <1>11, <2>p, OneCall DEF Cl!GiveUp, Cl!Raise, Cl!Go, Cl!Released, Cl!Purposes, Inner
  <2>3. self' \in Attributes
    BY <1>11, <2>p DEF Cl!GiveUp, Cl!Raise, Cl!Go, Cl!Released, Cl!States, Cl!Queues, Cl!Links
  <2>4. request' \in [Cl!Threads -> Cl!Requests]
    BY <1>11, <2>p DEF Cl!GiveUp, Cl!Raise, Cl!Go, Cl!Released, Cl!Requests
  <2>5. link' \in [Cl!Links -> LinkStates]
    BY <1>11, <2>p DEF Cl!GiveUp, Cl!Raise, Cl!Go, Cl!Released, LinkStates
  <2>6. since' \in [Cl!Threads -> SUBSET Cl!Links] /\ overtaken' \in BOOLEAN /\ DOMAIN ref' = Cl!Threads
    BY <1>11, <2>p DEF Cl!GiveUp, Cl!Raise, Cl!Go, Cl!Released, Cl!Serving
  <2> QED
    BY <2>1, <2>2, <2>3, <2>4, <2>5, <2>6
<1>12. ASSUME NEW t \in Cl!Threads, Cl!Retry(t) PROVE ClTyped'
  <2>1. at' \in [Cl!Threads -> Cl!Places]
    BY <1>12 DEF Cl!Retry, Cl!Go, Cl!Purposes
  <2>2. stack' \in [Cl!Threads -> Stacks]
    BY <1>12, OneCall DEF Cl!Retry, Cl!Go, Cl!Purposes, Inner
  <2>3. self' \in Attributes
    BY <1>12 DEF Cl!Retry, Cl!Go, Cl!States, Cl!Queues, Cl!Links
  <2>4. request' \in [Cl!Threads -> Cl!Requests]
    BY <1>12 DEF Cl!Retry, Cl!Go, Cl!Requests
  <2>5. link' \in [Cl!Links -> LinkStates]
    BY <1>12 DEF Cl!Retry, Cl!Go, LinkStates
  <2>6. since' \in [Cl!Threads -> SUBSET Cl!Links] /\ overtaken' \in BOOLEAN /\ DOMAIN ref' = Cl!Threads
    BY <1>12 DEF Cl!Retry, Cl!Go, Cl!Serving
  <2> QED
    BY <2>1, <2>2, <2>3, <2>4, <2>5, <2>6
<1>13. ASSUME NEW t \in Cl!Threads, Cl!Put(t) PROVE ClTyped'
  <2>1. at' \in [Cl!Threads -> Cl!Places]
    BY <1>13 DEF Cl!Put, Cl!Go, Cl!Purposes
  <2>2. stack' \in [Cl!Threads -> Stacks]
    BY <1>13, OneCall DEF Cl!Put, Cl!Go, Cl!Purposes, Inner
  <2>3. self' \in Attributes
    BY <1>13 DEF Cl!Put, Cl!Go, Cl!States, Cl!Queues, Cl!Links
  <2>4. request' \in [Cl!Threads -> Cl!Requests]
    BY <1>13 DEF Cl!Put, Cl!Go, Cl!Requests
  <2>5. link' \in [Cl!Links -> LinkStates]
    BY <1>13 DEF Cl!Put, Cl!Go, LinkStates
  <2>6. since' \in [Cl!Threads -> SUBSET Cl!Links] /\ overtaken' \in BOOLEAN /\ DOMAIN ref' = Cl!Threads
    BY <1>13 DEF Cl!Put, Cl!Go, Cl!Serving
  <2> QED
    BY <2>1, <2>2, <2>3, <2>4, <2>5, <2>6
<1>14. ASSUME NEW t \in Cl!Threads, Cl!GetReply(t) PROVE ClTyped'
  <2>0. stack[t] \in Stacks /\ stack[t] # << >>
    BY <1>14 DEF Cl!GetReply, Cl!Go, Cl!Purpose, Stacked
  <2>p. /\ Cl!Purpose(t) \in Cl!Purposes /\ Cl!Pop(stack[t]) \in Stacks
        /\ Append(stack[t], "describe") \in Stacks
        /\ Len(stack[t]) > 1 => Append(Cl!Pop(stack[t]), "activate") \in Stacks
        /\ Len(stack[t]) > 1 <=> Cl!Purpose(t) \in Inner
    BY <2>0, Calls DEF Cl!Purpose
  <2>a. \/ /\ Cl!Go(t, "wait", "idle")
           /\ stack' = [stack EXCEPT ![t] = Cl!Pop(@)] /\ UNCHANGED self
        \/ /\ Cl!Go(t, "wait", "lock") /\ Cl!Purpose(t) = "describe"
           /\ stack' = [stack EXCEPT ![t] = Append(Cl!Pop(@), "activate")]
           /\ self' = [self EXCEPT !.online = TRUE, !.state = "activating"]
        \/ /\ Cl!Go(t, "wait", "connected")
           /\ stack' = [stack EXCEPT ![t] = Cl!Pop(@)] /\ UNCHANGED self
    <3>1. CASE Cl!Purpose(t) = "request"
      BY <1>14, <3>1 DEF Cl!GetReply
    <3>2. CASE Cl!Purpose(t) = "describe"
      BY <1>14, <3>2 DEF Cl!GetReply
    <3>3. CASE Cl!Purpose(t) \notin {"request", "describe"}
      BY <1>14, <3>3 DEF Cl!GetReply
    <3> QED
      BY <3>1, <3>2, <3>3
  <2>1. at' \in [Cl!Threads -> Cl!Places]
    BY <2>a DEF Cl!Go
  <2>2. stack' \in [Cl!Threads -> Stacks]
    <3>1. stack' \in {[stack EXCEPT ![t] = Cl!Pop(stack[t])],
                      [stack EXCEPT ![t] = Append(Cl!Pop(stack[t]), "activate")]}
      BY <2>a
    <3>2. Cl!Purpose(t) = "describe" => Append(Cl!Pop(stack[t]), "activate") \in Stacks
      BY <2>p DEF Inner
    <3>3. CASE Cl!Purpose(t) = "describe"
      <4>1. CASE stack' = [stack EXCEPT ![t] = Cl!Pop(stack[t])]
        BY <2>p, <4>1
      <4>2. CASE stack' = [stack EXCEPT ![t] = Append(Cl!Pop(stack[t]), "activate")]
        BY <3>2, <3>3, <4>2
      <4> QED
        BY <3>1, <4>1, <4>2
    <3>4. CASE Cl!Purpose(t) # "describe"
      <4>1. stack' = [stack EXCEPT ![t] = Cl!Pop(stack[t])]
        BY <2>a, <3>4
      <4> QED
        BY <2>p, <4>1
    <3> QED
      BY <3>3, <3>4
  <2>3. self' \in Attributes
    BY <2>a DEF Cl!States
  <2>4. request' \in [Cl!Threads -> Cl!Requests]
    BY <1>14, <2>p DEF Cl!GetReply, Cl!Go, Cl!Requests
  <2>5. link' \in [Cl!Links -> LinkStates]
    BY <1>14, <2>p DEF Cl!GetReply, Cl!Go, LinkStates
  <2>6. since' \in [Cl!Threads -> SUBSET Cl!Links] /\ overtaken' \in BOOLEAN /\ DOMAIN ref' = Cl!Threads
    BY <1>14, <2>p DEF Cl!GetReply, Cl!Go, Cl!Serving
  <2> QED
    BY <2>1, <2>2, <2>3, <2>4, <2>5, <2>6
<1>15. ASSUME NEW t \in Cl!Threads, Cl!NoReply(t) PROVE ClTyped'
  <2>0. stack[t] \in Stacks /\ stack[t] # << >>
    BY <1>15 DEF Cl!NoReply, Cl!Raise, Cl!Go, Cl!Purpose, Stacked
  <2>p. /\ Cl!Purpose(t) \in Cl!Purposes /\ Cl!Pop(stack[t]) \in Stacks
        /\ Append(stack[t], "describe") \in Stacks
        /\ Len(stack[t]) > 1 => Append(Cl!Pop(stack[t]), "activate") \in Stacks
        /\ Len(stack[t]) > 1 <=> Cl!Purpose(t) \in Inner
    BY <2>0, Calls DEF Cl!Purpose
  <2>1. at' \in [Cl!Threads -> Cl!Places]
    BY <1>15, <2>p DEF Cl!NoReply, Cl!Raise, Cl!Go, Cl!Purposes
  <2>2. stack' \in [Cl!Threads -> Stacks]
    BY <1>15, <2>p, OneCall DEF Cl!NoReply, Cl!Raise, Cl!Go, Cl!Purposes, Inner
  <2>3. self' \in Attributes
    BY <1>15, <2>p DEF Cl!NoReply, Cl!Raise, Cl!Go, Cl!States, Cl!Queues, Cl!Links
  <2>4. request' \in [Cl!Threads -> Cl!Requests]
    BY <1>15, <2>p DEF Cl!NoReply, Cl!Raise, Cl!Go, Cl!Requests
  <2>5. link' \in [Cl!Links -> LinkStates]
    BY <1>15, <2>p DEF Cl!NoReply, Cl!Raise, Cl!Go, LinkStates
  <2>6. since' \in [Cl!Threads -> SUBSET Cl!Links] /\ overtaken' \in BOOLEAN /\ DOMAIN ref' = Cl!Threads
    BY <1>15, <2>p DEF Cl!NoReply, Cl!Raise, Cl!Go, Cl!Serving
  <2> QED
    BY <2>1, <2>2, <2>3, <2>4, <2>5, <2>6
<1>16. ASSUME NEW t \in Cl!Threads, Cl!Stop(t) PROVE ClTyped'
  <2>1. at' \in [Cl!Threads -> Cl!Places]
    BY <1>16 DEF Cl!Stop, Cl!Go, Cl!AfterDisconnect, Cl!Purposes
  <2>2. stack' \in [Cl!Threads -> Stacks]
    BY <1>16, OneCall DEF Cl!Stop, Cl!Go, Cl!AfterDisconnect, Cl!Purposes, Inner
  <2>3. self' \in Attributes
    BY <1>16 DEF Cl!Stop, Cl!Go, Cl!AfterDisconnect, Cl!States, Cl!Queues, Cl!Links
  <2>4. request' \in [Cl!Threads -> Cl!Requests]
    BY <1>16 DEF Cl!Stop, Cl!Go, Cl!AfterDisconnect, Cl!Requests
  <2>5. link' \in [Cl!Links -> LinkStates]
    BY <1>16 DEF Cl!Stop, Cl!Go, Cl!AfterDisconnect, LinkStates
  <2>6. since' \in [Cl!Threads -> SUBSET Cl!Links] /\ overtaken' \in BOOLEAN /\ DOMAIN ref' = Cl!Threads
    BY <1>16 DEF Cl!Stop, Cl!Go, Cl!AfterDisconnect, Cl!Serving
  <2> QED
    BY <2>1, <2>2, <2>3, <2>4, <2>5, <2>6
<1>17. ASSUME NEW t \in Cl!Threads, Cl!Drain(t) PROVE ClTyped'
  <2>1. at' \in [Cl!Threads -> Cl!Places]
    BY <1>17 DEF Cl!Drain, Cl!Go, Cl!Purposes
  <2>2. stack' \in [Cl!Threads -> Stacks]
    BY <1>17, OneCall DEF Cl!Drain, Cl!Go, Cl!Purposes, Inner
  <2>3. self' \in Attributes
    BY <1>17 DEF Cl!Drain, Cl!Go, Cl!States, Cl!Queues, Cl!Links
  <2>4. request' \in [Cl!Threads -> Cl!Requests]
    BY <1>17 DEF Cl!Drain, Cl!Go, Cl!Requests
  <2>5. link' \in [Cl!Links -> LinkStates]
    BY <1>17 DEF Cl!Drain, Cl!Go, LinkStates
  <2>6. since' \in [Cl!Threads -> SUBSET Cl!Links] /\ overtaken' \in BOOLEAN /\ DOMAIN ref' = Cl!Threads
    BY <1>17 DEF Cl!Drain, Cl!Go, Cl!Serving
  <2> QED
    BY <2>1, <2>2, <2>3, <2>4, <2>5, <2>6
<1>18. ASSUME NEW t \in Cl!Threads, Cl!TestTxThread(t) PROVE ClTyped'
  <2>1. at' \in [Cl!Threads -> Cl!Places]
    BY <1>18 DEF Cl!TestTxThread, Cl!Go, Cl!Purposes
  <2>2. stack' \in [Cl!Threads -> Stacks]
    BY <1>18, OneCall DEF Cl!TestTxThread, Cl!Go, Cl!Purposes, Inner
  <2>3. self' \in Attributes
    BY <1>18 DEF Cl!TestTxThread, Cl!Go, Cl!States, Cl!Queues, Cl!Links
  <2>4. request' \in [Cl!Threads -> Cl!Requests]
    BY <1>18 DEF Cl!TestTxThread, Cl!Go, Cl!Requests
  <2>5. link' \in [Cl!Links -> LinkStates]
    BY <1>18 DEF Cl!TestTxThread, Cl!Go, LinkStates
  <2>6. since' \in [Cl!Threads -> SUBSET Cl!Links] /\ overtaken' \in BOOLEAN /\ DOMAIN ref' = Cl!Threads
    BY <1>18 DEF Cl!TestTxThread, Cl!Go, Cl!Serving
  <2> QED
    BY <2>1, <2>2, <2>3, <2>4, <2>5, <2>6
<1>19. ASSUME NEW t \in Cl!Threads, Cl!TestRxThread(t) PROVE ClTyped'
  <2>1. at' \in [Cl!Threads -> Cl!Places]
    BY <1>19 DEF Cl!TestRxThread, Cl!Go, Cl!Purposes
  <2>2. stack' \in [Cl!Threads -> Stacks]
    BY <1>19, OneCall DEF Cl!TestRxThread, Cl!Go, Cl!Purposes, Inner
  <2>3. self' \in Attributes
    BY <1>19 DEF Cl!TestRxThread, Cl!Go, Cl!States, Cl!Queues, Cl!Links
  <2>4. request' \in [Cl!Threads -> Cl!Requests]
    BY <1>19 DEF Cl!TestRxThread, Cl!Go, Cl!Requests
  <2>5. link' \in [Cl!Links -> LinkStates]
    BY <1>19 DEF Cl!TestRxThread, Cl!Go, LinkStates
  <2>6. since' \in [Cl!Threads -> SUBSET Cl!Links] /\ overtaken' \in BOOLEAN /\ DOMAIN ref' = Cl!Threads
    BY <1>19 DEF Cl!TestRxThread, Cl!Go, Cl!Serving
  <2> QED
    BY <2>1, <2>2, <2>3, <2>4, <2>5, <2>6
<1>20. ASSUME NEW t \in Cl!Threads, Cl!JoinFails(t) PROVE ClTyped'
  <2>1. at' \in [Cl!Threads -> Cl!Places]
    BY <1>20 DEF Cl!JoinFails, Cl!Go, Cl!AfterFailure, Cl!Purposes
  <2>2. stack' \in [Cl!Threads -> Stacks]
    BY <1>20, OneCall DEF Cl!JoinFails, Cl!Go, Cl!AfterFailure, Cl!Purposes, Inner
  <2>3. self' \in Attributes
    BY <1>20 DEF Cl!JoinFails, Cl!Go, Cl!AfterFailure, Cl!States, Cl!Queues, Cl!Links
  <2>4. request' \in [Cl!Threads -> Cl!Requests]
    BY <1>20 DEF Cl!JoinFails, Cl!Go, Cl!AfterFailure, Cl!Requests
  <2>5. link' \in [Cl!Links -> LinkStates]
    BY <1>20 DEF Cl!JoinFails, Cl!Go, Cl!AfterFailure, LinkStates
  <2>6. since' \in [Cl!Threads -> SUBSET Cl!Links] /\ overtaken' \in BOOLEAN /\ DOMAIN ref' = Cl!Threads
    BY <1>20 DEF Cl!JoinFails, Cl!Go, Cl!AfterFailure, Cl!Serving
  <2> QED
    BY <2>1, <2>2, <2>3, <2>4, <2>5, <2>6
<1>21. ASSUME NEW t \in Cl!Threads, Cl!Joined(t) PROVE ClTyped'
  <2>1. at' \in [Cl!Threads -> Cl!Places]
    BY <1>21 DEF Cl!Joined, Cl!Go, Cl!Overtakes, Cl!Purposes
  <2>2. stack' \in [Cl!Threads -> Stacks]
    BY <1>21, OneCall DEF Cl!Joined, Cl!Go, Cl!Overtakes, Cl!Purposes, Inner
  <2>3. self' \in Attributes
    BY <1>21 DEF Cl!Joined, Cl!Go, Cl!Overtakes, Cl!States, Cl!Queues, Cl!Links
  <2>4. request' \in [Cl!Threads -> Cl!Requests]
    BY <1>21 DEF Cl!Joined, Cl!Go, Cl!Overtakes, Cl!Requests
  <2>5. link' \in [Cl!Links -> LinkStates]
    BY <1>21 DEF Cl!Joined, Cl!Go, Cl!Overtakes, LinkStates
  <2>6. since' \in [Cl!Threads -> SUBSET Cl!Links] /\ overtaken' \in BOOLEAN /\ DOMAIN ref' = Cl!Threads
    BY <1>21 DEF Cl!Joined, Cl!Go, Cl!Overtakes, Cl!Serving
  <2> QED
    BY <2>1, <2>2, <2>3, <2>4, <2>5, <2>6
<1>22. ASSUME NEW t \in Cl!Threads, Cl!Close(t) PROVE ClTyped'
  <2>1. at' \in [Cl!Threads -> Cl!Places]
    BY <1>22 DEF Cl!Close, Cl!Go, Cl!AfterDisconnect, Cl!Overtakes, Cl!Purposes
  <2>2. stack' \in [Cl!Threads -> Stacks]
    BY <1>22, OneCall DEF Cl!Close, Cl!Go, Cl!AfterDisconnect, Cl!Overtakes, Cl!Purposes, Inner
  <2>3. self' \in Attributes
    BY <1>22 DEF Cl!Close, Cl!Go, Cl!AfterDisconnect, Cl!Overtakes, Cl!States, Cl!Queues, Cl!Links
  <2>4. request' \in [Cl!Threads -> Cl!Requests]
    BY <1>22 DEF Cl!Close, Cl!Go, Cl!AfterDisconnect, Cl!Overtakes, Cl!Requests
  <2>5. link' \in [Cl!Links -> LinkStates]
    BY <1>22 DEF Cl!Close, Cl!Go, Cl!AfterDisconnect, Cl!Overtakes, LinkStates
  <2>6. since' \in [Cl!Threads -> SUBSET Cl!Links] /\ overtaken' \in BOOLEAN /\ DOMAIN ref' = Cl!Threads
    BY <1>22 DEF Cl!Close, Cl!Go, Cl!AfterDisconnect, Cl!Overtakes, Cl!Serving
  <2> QED
    BY <2>1, <2>2, <2>3, <2>4, <2>5, <2>6
<1>23. ASSUME NEW n \in Cl!Links, Cl!TxLoop(n) PROVE ClTyped'
  <2>1. at' \in [Cl!Threads -> Cl!Places]
    BY <1>23 DEF Cl!TxLoop, Cl!Go, Cl!Purposes
  <2>2. stack' \in [Cl!Threads -> Stacks]
    BY <1>23, OneCall DEF Cl!TxLoop, Cl!Go, Cl!Purposes, Inner
  <2>3. self' \in Attributes
    BY <1>23 DEF Cl!TxLoop, Cl!Go, Cl!States, Cl!Queues, Cl!Links
  <2>4. request' \in [Cl!Threads -> Cl!Requests]
    BY <1>23 DEF Cl!TxLoop, Cl!Go, Cl!Requests
  <2>5. link' \in [Cl!Links -> LinkStates]
    BY <1>23 DEF Cl!TxLoop, Cl!Go, LinkStates
  <2>6. since' \in [Cl!Threads -> SUBSET Cl!Links] /\ overtaken' \in BOOLEAN /\ DOMAIN ref' = Cl!Threads
    BY <1>23 DEF Cl!TxLoop, Cl!Go, Cl!Serving
  <2> QED
    BY <2>1, <2>2, <2>3, <2>4, <2>5, <2>6
<1>24. ASSUME NEW n \in Cl!Links, Cl!TxGet(n) PROVE ClTyped'
  <2>1. at' \in [Cl!Threads -> Cl!Places]
    BY <1>24 DEF Cl!TxGet, Cl!Go, Cl!Purposes
  <2>2. stack' \in [Cl!Threads -> Stacks]
    BY <1>24, OneCall DEF Cl!TxGet, Cl!Go, Cl!Purposes, Inner
  <2>3. self' \in Attributes
    BY <1>24 DEF Cl!TxGet, Cl!Go, Cl!States, Cl!Queues, Cl!Links
  <2>4. request' \in [Cl!Threads -> Cl!Requests]
    BY <1>24 DEF Cl!TxGet, Cl!Go, Cl!Requests
  <2>5. link' \in [Cl!Links -> LinkStates]
    BY <1>24 DEF Cl!TxGet, Cl!Go, LinkStates
  <2>6. since' \in [Cl!Threads -> SUBSET Cl!Links] /\ overtaken' \in BOOLEAN /\ DOMAIN ref' = Cl!Threads
    BY <1>24 DEF Cl!TxGet, Cl!Go, Cl!Serving
  <2> QED
    BY <2>1, <2>2, <2>3, <2>4, <2>5, <2>6
<1>25. ASSUME NEW n \in Cl!Links, Cl!TxSend(n) PROVE ClTyped'
  <2>1. at' \in [Cl!Threads -> Cl!Places]
    BY <1>25 DEF Cl!TxSend, Cl!Go, Cl!Purposes
  <2>2. stack' \in [Cl!Threads -> Stacks]
    BY <1>25, OneCall DEF Cl!TxSend, Cl!Go, Cl!Purposes, Inner
  <2>3. self' \in Attributes
    BY <1>25 DEF Cl!TxSend, Cl!Go, Cl!States, Cl!Queues, Cl!Links
  <2>4. request' \in [Cl!Threads -> Cl!Requests]
    <3> DEFINE e == ref[Cl!Tx(n)]
    <3>1. request' = request \/ request' = [request EXCEPT ![e] = "sent"]
      BY <1>25 DEF Cl!TxSend
    <3> HIDE DEF e
    <3> QED
      BY <3>1 DEF Cl!Requests
  <2>5. link' \in [Cl!Links -> LinkStates]
    BY <1>25 DEF Cl!TxSend, Cl!Go, LinkStates
  <2>6. since' \in [Cl!Threads -> SUBSET Cl!Links] /\ overtaken' \in BOOLEAN /\ DOMAIN ref' = Cl!Threads
    BY <1>25 DEF Cl!TxSend, Cl!Go, Cl!Serving
  <2> QED
    BY <2>1, <2>2, <2>3, <2>4, <2>5, <2>6
<1>26. ASSUME NEW n \in Cl!Links, Cl!TxEnd(n) PROVE ClTyped'
  <2>1. at' \in [Cl!Threads -> Cl!Places]
    BY <1>26 DEF Cl!TxEnd, Cl!Go, Cl!Overtakes, Cl!Purposes
  <2>2. stack' \in [Cl!Threads -> Stacks]
    BY <1>26, OneCall DEF Cl!TxEnd, Cl!Go, Cl!Overtakes, Cl!Purposes, Inner
  <2>3. self' \in Attributes
    BY <1>26 DEF Cl!TxEnd, Cl!Go, Cl!Overtakes, Cl!States, Cl!Queues, Cl!Links
  <2>4. request' \in [Cl!Threads -> Cl!Requests]
    BY <1>26 DEF Cl!TxEnd, Cl!Go, Cl!Overtakes, Cl!Requests
  <2>5. link' \in [Cl!Links -> LinkStates]
    BY <1>26 DEF Cl!TxEnd, Cl!Go, Cl!Overtakes, LinkStates
  <2>6. since' \in [Cl!Threads -> SUBSET Cl!Links] /\ overtaken' \in BOOLEAN /\ DOMAIN ref' = Cl!Threads
    BY <1>26 DEF Cl!TxEnd, Cl!Go, Cl!Overtakes, Cl!Serving
  <2> QED
    BY <2>1, <2>2, <2>3, <2>4, <2>5, <2>6
<1>27. ASSUME NEW n \in Cl!Links, Cl!RxStops(n) PROVE ClTyped'
  <2>1. at' \in [Cl!Threads -> Cl!Places]
    BY <1>27 DEF Cl!RxStops, Cl!Go, Cl!Purposes
  <2>2. stack' \in [Cl!Threads -> Stacks]
    BY <1>27, OneCall DEF Cl!RxStops, Cl!Go, Cl!Purposes, Inner
  <2>3. self' \in Attributes
    BY <1>27 DEF Cl!RxStops, Cl!Go, Cl!States, Cl!Queues, Cl!Links
  <2>4. request' \in [Cl!Threads -> Cl!Requests]
    BY <1>27 DEF Cl!RxStops, Cl!Go, Cl!Requests
  <2>5. link' \in [Cl!Links -> LinkStates]
    BY <1>27 DEF Cl!RxStops, Cl!Go, LinkStates
  <2>6. since' \in [Cl!Threads -> SUBSET Cl!Links] /\ overtaken' \in BOOLEAN /\ DOMAIN ref' = Cl!Threads
    BY <1>27 DEF Cl!RxStops, Cl!Go, Cl!Serving
  <2> QED
    BY <2>1, <2>2, <2>3, <2>4, <2>5, <2>6
<1>28. ASSUME NEW n \in Cl!Links, Cl!Receive(n) PROVE ClTyped'
  <2>1. at' \in [Cl!Threads -> Cl!Places]
    BY <1>28 DEF Cl!Receive, Cl!Purposes
  <2>2. stack' \in [Cl!Threads -> Stacks]
    BY <1>28, OneCall DEF Cl!Receive, Cl!Purposes, Inner
  <2>3. self' \in Attributes
    BY <1>28 DEF Cl!Receive, Cl!States, Cl!Queues, Cl!Links
  <2>4. request' \in [Cl!Threads -> Cl!Requests]
    BY <1>28 DEF Cl!Receive, Cl!Requests
  <2>5. link' \in [Cl!Links -> LinkStates]
    BY <1>28 DEF Cl!Receive, LinkStates
  <2>6. since' \in [Cl!Threads -> SUBSET Cl!Links] /\ overtaken' \in BOOLEAN /\ DOMAIN ref' = Cl!Threads
    BY <1>28 DEF Cl!Receive, Cl!Serving
  <2> QED
    BY <2>1, <2>2, <2>3, <2>4, <2>5, <2>6
<1>29. ASSUME NEW n \in Cl!Links, Cl!Heartbeat(n) PROVE ClTyped'
  <2>1. at' \in [Cl!Threads -> Cl!Places]
    BY <1>29 DEF Cl!Heartbeat, Cl!CallConnect, Cl!Go, Cl!Purposes
  <2>e. stack[Cl!Rx(n)] = << >> /\ Cl!Rx(n) \in Cl!Threads
    BY <1>29, ThreadNames DEF Stacked, Cl!Go, Cl!CallConnect, Cl!Heartbeat
  <2>2. stack' \in [Cl!Threads -> Stacks]
    BY <2>e, <1>29, OneCall DEF Cl!Heartbeat, Cl!CallConnect, Cl!Go, Cl!Purposes, Inner
  <2>3. self' \in Attributes
    BY <1>29 DEF Cl!Heartbeat, Cl!CallConnect, Cl!Go, Cl!States, Cl!Queues, Cl!Links
  <2>4. request' \in [Cl!Threads -> Cl!Requests]
    BY <1>29 DEF Cl!Heartbeat, Cl!CallConnect, Cl!Go, Cl!Requests
  <2>5. link' \in [Cl!Links -> LinkStates]
    BY <1>29 DEF Cl!Heartbeat, Cl!CallConnect, Cl!Go, LinkStates
  <2>6. since' \in [Cl!Threads -> SUBSET Cl!Links] /\ overtaken' \in BOOLEAN /\ DOMAIN ref' = Cl!Threads
    BY <1>29 DEF Cl!Heartbeat, Cl!CallConnect, Cl!Go, Cl!Serving
  <2> QED
    BY <2>1, <2>2, <2>3, <2>4, <2>5, <2>6
<1>30. ASSUME NEW n \in Cl!Links, Cl!ConnectionClosed(n) PROVE ClTyped'
  <2>1. at' \in [Cl!Threads -> Cl!Places]
    BY <1>30 DEF Cl!ConnectionClosed, Cl!Go, Cl!Purposes
  <2>2. stack' \in [Cl!Threads -> Stacks]
    BY <1>30, OneCall DEF Cl!ConnectionClosed, Cl!Go, Cl!Purposes, Inner
  <2>3. self' \in Attributes
    BY <1>30 DEF Cl!ConnectionClosed, Cl!Go, Cl!States, Cl!Queues, Cl!Links
  <2>4. request' \in [Cl!Threads -> Cl!Requests]
    BY <1>30 DEF Cl!ConnectionClosed, Cl!Go, Cl!Requests
  <2>5. link' \in [Cl!Links -> LinkStates]
    BY <1>30 DEF Cl!ConnectionClosed, Cl!Go, LinkStates
  <2>6. since' \in [Cl!Threads -> SUBSET Cl!Links] /\ overtaken' \in BOOLEAN /\ DOMAIN ref' = Cl!Threads
    BY <1>30 DEF Cl!ConnectionClosed, Cl!Go, Cl!Serving
  <2> QED
    BY <2>1, <2>2, <2>3, <2>4, <2>5, <2>6
<1>31. ASSUME NEW n \in Cl!Links, Cl!RxFails(n) PROVE ClTyped'
  <2>1. at' \in [Cl!Threads -> Cl!Places]
    BY <1>31 DEF Cl!RxFails, Cl!Go, Cl!Purposes
  <2>2. stack' \in [Cl!Threads -> Stacks]
    BY <1>31, OneCall DEF Cl!RxFails, Cl!Go, Cl!Purposes, Inner
  <2>3. self' \in Attributes
    BY <1>31 DEF Cl!RxFails, Cl!Go, Cl!States, Cl!Queues, Cl!Links
  <2>4. request' \in [Cl!Threads -> Cl!Requests]
    BY <1>31 DEF Cl!RxFails, Cl!Go, Cl!Requests
  <2>5. link' \in [Cl!Links -> LinkStates]
    BY <1>31 DEF Cl!RxFails, Cl!Go, LinkStates
  <2>6. since' \in [Cl!Threads -> SUBSET Cl!Links] /\ overtaken' \in BOOLEAN /\ DOMAIN ref' = Cl!Threads
    BY <1>31 DEF Cl!RxFails, Cl!Go, Cl!Serving
  <2> QED
    BY <2>1, <2>2, <2>3, <2>4, <2>5, <2>6
<1>32. ASSUME NEW n \in Cl!Links, Cl!RxEnd(n) PROVE ClTyped'
  <2>1. at' \in [Cl!Threads -> Cl!Places]
    BY <1>32 DEF Cl!RxEnd, Cl!Go, Cl!Overtakes, Cl!Purposes
  <2>2. stack' \in [Cl!Threads -> Stacks]
    BY <1>32, OneCall DEF Cl!RxEnd, Cl!Go, Cl!Overtakes, Cl!Purposes, Inner
  <2>3. self' \in Attributes
    BY <1>32 DEF Cl!RxEnd, Cl!Go, Cl!Overtakes, Cl!States, Cl!Queues, Cl!Links
  <2>4. request' \in [Cl!Threads -> Cl!Requests]
    BY <1>32 DEF Cl!RxEnd, Cl!Go, Cl!Overtakes, Cl!Requests
  <2>5. link' \in [Cl!Links -> LinkStates]
    BY <1>32 DEF Cl!RxEnd, Cl!Go, Cl!Overtakes, LinkStates
  <2>6. since' \in [Cl!Threads -> SUBSET Cl!Links] /\ overtaken' \in BOOLEAN /\ DOMAIN ref' = Cl!Threads
    BY <1>32 DEF Cl!RxEnd, Cl!Go, Cl!Overtakes, Cl!Serving
  <2> QED
    BY <2>1, <2>2, <2>3, <2>4, <2>5, <2>6
<1>33. ASSUME NEW n \in Cl!Links, Cl!RxClosed(n) PROVE ClTyped'
  <2>1. at' \in [Cl!Threads -> Cl!Places]
    BY <1>33 DEF Cl!RxClosed, Cl!Go, Cl!Purposes
  <2>2. stack' \in [Cl!Threads -> Stacks]
    BY <1>33, OneCall DEF Cl!RxClosed, Cl!Go, Cl!Purposes, Inner
  <2>c. Cl!Rc(n) \in Cl!Threads
    BY ThreadNames
  <2>3. self' \in Attributes
    <3>1. self' = self \/ self' = [self EXCEPT !.connthread = Cl!Rc(n)]
      BY <1>33 DEF Cl!RxClosed
    <3> QED
      BY <2>c, <3>1
  <2>4. request' \in [Cl!Threads -> Cl!Requests]
    BY <1>33 DEF Cl!RxClosed, Cl!Go, Cl!Requests
  <2>5. link' \in [Cl!Links -> LinkStates]
    BY <1>33 DEF Cl!RxClosed, Cl!Go, LinkStates
  <2>6. since' \in [Cl!Threads -> SUBSET Cl!Links] /\ overtaken' \in BOOLEAN /\ DOMAIN ref' = Cl!Threads
    BY <1>33 DEF Cl!RxClosed, Cl!Go, Cl!Serving
  <2> QED
    BY <2>1, <2>2, <2>3, <2>4, <2>5, <2>6
<1>34. ASSUME NEW n \in Cl!Links, Cl!Reconnect(n) PROVE ClTyped'
  <2>1. at' \in [Cl!Threads -> Cl!Places]
    BY <1>34 DEF Cl!Reconnect, Cl!CallConnect, Cl!Go, Cl!Purposes
  <2>e. stack[Cl!Rc(n)] = << >> /\ Cl!Rc(n) \in Cl!Threads
    BY <1>34, ThreadNames DEF Stacked, Cl!Go, Cl!CallConnect, Cl!Reconnect
  <2>2. stack' \in [Cl!Threads -> Stacks]
    <3>1. stack' = stack \/ stack' = [stack EXCEPT ![Cl!Rc(n)] = Append(<< >>, "reconnect")]
      BY <1>34, <2>e DEF Cl!Reconnect, Cl!CallConnect
    <3>2. Append(<< >>, "reconnect") \in Stacks
      BY OneCall DEF Cl!Purposes, Inner
    <3>3. CASE stack' = stack
      BY <3>3
    <3>4. CASE stack' = [stack EXCEPT ![Cl!Rc(n)] = Append(<< >>, "reconnect")]
      BY <3>2, <3>4
    <3> QED
      BY <3>1, <3>3, <3>4
  <2>3. self' \in Attributes
    BY <1>34 DEF Cl!Reconnect, Cl!CallConnect, Cl!Go, Cl!States, Cl!Queues, Cl!Links
  <2>4. request' \in [Cl!Threads -> Cl!Requests]
    BY <1>34 DEF Cl!Reconnect, Cl!CallConnect, Cl!Go, Cl!Requests
  <2>5. link' \in [Cl!Links -> LinkStates]
    BY <1>34 DEF Cl!Reconnect, Cl!CallConnect, Cl!Go, LinkStates
  <2>6. since' \in [Cl!Threads -> SUBSET Cl!Links] /\ overtaken' \in BOOLEAN /\ DOMAIN ref' = Cl!Threads
    BY <1>34 DEF Cl!Reconnect, Cl!CallConnect, Cl!Go, Cl!Serving
  <2> QED
    BY <2>1, <2>2, <2>3, <2>4, <2>5, <2>6
<1>35. ASSUME NEW n \in Cl!Links, Cl!ReconnectFailed(n) PROVE ClTyped'
  <2>1. at' \in [Cl!Threads -> Cl!Places]
    BY <1>35 DEF Cl!ReconnectFailed, Cl!Go, Cl!Purposes
  <2>2. stack' \in [Cl!Threads -> Stacks]
    BY <1>35, OneCall DEF Cl!ReconnectFailed, Cl!Go, Cl!Purposes, Inner
  <2>3. self' \in Attributes
    BY <1>35 DEF Cl!ReconnectFailed, Cl!Go, Cl!States, Cl!Queues, Cl!Links
  <2>4. request' \in [Cl!Threads -> Cl!Requests]
    BY <1>35 DEF Cl!ReconnectFailed, Cl!Go, Cl!Requests
  <2>5. link' \in [Cl!Links -> LinkStates]
    BY <1>35 DEF Cl!ReconnectFailed, Cl!Go, LinkStates
  <2>6. since' \in [Cl!Threads -> SUBSET Cl!Links] /\ overtaken' \in BOOLEAN /\ DOMAIN ref' = Cl!Threads
    BY <1>35 DEF Cl!ReconnectFailed, Cl!Go, Cl!Serving
  <2> QED
    BY <2>1, <2>2, <2>3, <2>4, <2>5, <2>6
<1>36. ASSUME NEW n \in Cl!Links, Cl!ReconnectOver(n) PROVE ClTyped'
  <2>1. at' \in [Cl!Threads -> Cl!Places]
    BY <1>36 DEF Cl!ReconnectOver, Cl!Go, Cl!Purposes
  <2>2. stack' \in [Cl!Threads -> Stacks]
    BY <1>36, OneCall DEF Cl!ReconnectOver, Cl!Go, Cl!Purposes, Inner
  <2>3. self' \in Attributes
    BY <1>36 DEF Cl!ReconnectOver, Cl!Go, Cl!States, Cl!Queues, Cl!Links
  <2>4. request' \in [Cl!Threads -> Cl!Requests]
    BY <1>36 DEF Cl!ReconnectOver, Cl!Go, Cl!Requests
  <2>5. link' \in [Cl!Links -> LinkStates]
    BY <1>36 DEF Cl!ReconnectOver, Cl!Go, LinkStates
  <2>6. since' \in [Cl!Threads -> SUBSET Cl!Links] /\ overtaken' \in BOOLEAN /\ DOMAIN ref' = Cl!Threads
    BY <1>36 DEF Cl!ReconnectOver, Cl!Go, Cl!Serving
  <2> QED
    BY <2>1, <2>2, <2>3, <2>4, <2>5, <2>6
<1>37. ASSUME Cl!Lose PROVE ClTyped'
  <2>1. at' \in [Cl!Threads -> Cl!Places]
    BY <1>37 DEF Cl!Lose, Cl!Purposes
  <2>2. stack' \in [Cl!Threads -> Stacks]
    BY <1>37, OneCall DEF Cl!Lose, Cl!Purposes, Inner
  <2>3. self' \in Attributes
    BY <1>37 DEF Cl!Lose, Cl!States, Cl!Queues, Cl!Links
  <2>4. request' \in [Cl!Threads -> Cl!Requests]
    BY <1>37 DEF Cl!Lose, Cl!Requests
  <2>5. link' \in [Cl!Links -> LinkStates]
    BY <1>37 DEF Cl!Lose, LinkStates
  <2>6. since' \in [Cl!Threads -> SUBSET Cl!Links] /\ overtaken' \in BOOLEAN /\ DOMAIN ref' = Cl!Threads
    BY <1>37 DEF Cl!Lose, Cl!Serving
  <2> QED
    BY <2>1, <2>2, <2>3, <2>4, <2>5, <2>6
<1> QED
  BY <1>1, <1>2, <1>3, <1>4, <1>5, <1>6, <1>7, <1>8, <1>9, <1>10, <1>11, <1>12, <1>13, <1>14, <1>15, <1>16, <1>17, <1>18, <1>19, <1>20, <1>21, <1>22, <1>23, <1>24, <1>25, <1>26, <1>27, <1>28, <1>29, <1>30, <1>31, <1>32, <1>33, <1>34, <1>35, <1>36, <1>37
     DEF Cl!Next, Cl!Connecting, Cl!Disconnecting, Cl!TxStep, Cl!RxStep, Cl!RcStep

-----------------------------------------------------------------------------
(* connect() returns and raises.                                           *)

\* What a thread was called for first stays at the bottom.
LEMMA Bottom ==
  ASSUME NEW s \in Stacks, Len(s) > 1, NEW p
  PROVE  /\ Cl!Pop(s) # << >> /\ Cl!Pop(s)[1] = s[1]
         /\ Append(s, p)[1] = s[1] /\ Append(Cl!Pop(s), "activate")[1] = s[1]
<1> DEFINE k == Len(s) - 1
<1>1. s \in Seq(Cl!Purposes) /\ Len(s) \in Nat /\ 1 \in Int /\ k \in Int /\ 1 <= k
  BY DEF Stacks
<1>2. \A i \in 1 .. k : s[i] \in Cl!Purposes
  BY <1>1
<1>3. Cl!Pop(s) = SubSeq(s, 1, k)
  BY DEF Cl!Pop
<1> DEFINE r == Cl!Pop(s)
<1>4. r \in Seq(Cl!Purposes) /\ Len(r) \in Nat
  BY Calls DEF Stacks
<1> HIDE DEF k, r
<1>5. Len(r) >= 1 /\ r[1] = s[1]
  <2>1. /\ Len(r) = IF 1 <= k THEN k - 1 + 1 ELSE 0
        /\ \A i \in 1 .. k - 1 + 1 : r[i] = s[1 + i - 1]
    BY <1>1, <1>2, <1>3, SubSeqProperties DEF r
  <2>2. 1 \in 1 .. k - 1 + 1
    BY <1>1
  <2>3. r[1] = s[1 + 1 - 1]
    BY <2>1, <2>2
  <2> QED
    BY <1>1, <2>1, <2>3
<1>6. Append(r, "activate")[1] = r[1] /\ r # << >>
  BY <1>4, <1>5
<1>7. Append(s, p)[1] = s[1]
  BY <1>1
<1> QED
  BY <1>5, <1>6, <1>7 DEF r

\* connect() returns: to the request which called it, or to the end of a call of its own.
LEMMA ConnectReturns ==
  ASSUME ClTyped, Stacked, NEW t \in Cl!Threads,
         NEW from \in {"lock", "try", "connected"}, Cl!ReturnFromConnect(t, from)
  PROVE  /\ at[t] = from /\ stack[t] # << >>
         /\ \/ /\ at' = [at EXCEPT ![t] = "put"] /\ stack' = stack
               /\ Cl!Purpose(t) # "reconnect" /\ Cl!Purpose(t) # "heartbeat"
            \/ /\ Len(stack[t]) = 1 /\ stack[t][1] = "reconnect"
               /\ at' = [at EXCEPT ![t] = "over"] /\ stack' = [stack EXCEPT ![t] = << >>]
            \/ /\ Len(stack[t]) = 1 /\ stack[t][1] = "heartbeat"
               /\ at' = [at EXCEPT ![t] = "read"] /\ stack' = [stack EXCEPT ![t] = << >>]
<1>1. at[t] = from
  BY DEF Cl!ReturnFromConnect, Cl!Go
<1>2. stack[t] \in Stacks /\ stack[t] # << >>
  BY <1>1 DEF ClTyped, Stacked, Cl!Calling
<1> DEFINE p == Cl!Purpose(t)
<1>3. p = stack[t][Len(stack[t])]
  BY DEF Cl!Purpose
<1>4. p \notin Inner => p = stack[t][1] /\ Len(stack[t]) = 1 /\ Cl!Pop(stack[t]) = << >>
  BY <1>2, <1>3, Calls
<1> HIDE DEF p
<1>5. CASE p = "reconnect"
  <2>1. at' = [at EXCEPT ![t] = "over"] /\ stack' = [stack EXCEPT ![t] = Cl!Pop(stack[t])]
    BY <1>5 DEF Cl!ReturnFromConnect, Cl!Go, p
  <2> QED
    BY <1>1, <1>2, <1>4, <1>5, <2>1 DEF Inner
<1>6. CASE p = "heartbeat"
  <2>1. at' = [at EXCEPT ![t] = "read"] /\ stack' = [stack EXCEPT ![t] = Cl!Pop(stack[t])]
    BY <1>6 DEF Cl!ReturnFromConnect, Cl!Go, p
  <2> QED
    BY <1>1, <1>2, <1>4, <1>6, <2>1 DEF Inner
<1>7. CASE ~(p = "reconnect" \/ p = "heartbeat")
  <2>1. at' = [at EXCEPT ![t] = "put"] /\ stack' = stack
    BY <1>7 DEF Cl!ReturnFromConnect, Cl!Go, p
  <2> QED
    BY <1>1, <1>2, <1>7, <2>1 DEF p
<1>8. p = "reconnect" \/ p = "heartbeat" \/ ~(p = "reconnect" \/ p = "heartbeat")
  OBVIOUS
<1> QED
  BY <1>8, <1>5, <1>6, <1>7

\* connect(), or a request, raises: to the caller, or to the handler of an outer connect().
LEMMA CallRaises ==
  ASSUME ClTyped, Stacked, NEW t \in Cl!Threads,
         NEW from \in {"except", "wait"}, Cl!Raise(t, from)
  PROVE  /\ at[t] = from /\ stack[t] # << >>
         /\ \/ /\ Len(stack[t]) = 1 /\ stack' = [stack EXCEPT ![t] = << >>]
               /\ \/ stack[t][1] = "request" /\ at' = [at EXCEPT ![t] = "idle"]
                  \/ stack[t][1] = "reconnect" /\ at' = [at EXCEPT ![t] = "failed"]
                  \/ stack[t][1] = "heartbeat" /\ at' = [at EXCEPT ![t] = "crash"]
            \/ /\ Len(stack[t]) > 1 /\ at' = [at EXCEPT ![t] = "except"]
               /\ stack' = [stack EXCEPT ![t] = Cl!Pop(@)]
<1>1. at[t] = from
  BY DEF Cl!Raise, Cl!Go
<1>2. stack[t] \in Stacks /\ stack[t] # << >>
  BY <1>1 DEF ClTyped, Stacked, Cl!Calling
<1> DEFINE p == Cl!Purpose(t)
<1>3. p = stack[t][Len(stack[t])]
  BY DEF Cl!Purpose
<1>4. /\ p \notin Inner => p = stack[t][1] /\ Len(stack[t]) = 1 /\ Cl!Pop(stack[t]) = << >>
      /\ p \in Inner => Len(stack[t]) > 1
      /\ p \in Cl!Purposes
  BY <1>2, <1>3, Calls
<1>5. stack' = [stack EXCEPT ![t] = Cl!Pop(@)]
  BY DEF Cl!Raise
<1> HIDE DEF p
<1>6. CASE p = "request"
  <2>1. at' = [at EXCEPT ![t] = "idle"]
    BY <1>6 DEF Cl!Raise, Cl!Go, p
  <2> QED
    BY <1>1, <1>2, <1>4, <1>5, <1>6, <2>1 DEF Inner
<1>7. CASE p = "reconnect"
  <2>1. at' = [at EXCEPT ![t] = "failed"]
    BY <1>7 DEF Cl!Raise, Cl!Go, p
  <2> QED
    BY <1>1, <1>2, <1>4, <1>5, <1>7, <2>1 DEF Inner
<1>8. CASE p = "heartbeat"
  <2>1. at' = [at EXCEPT ![t] = "crash"]
    BY <1>8 DEF Cl!Raise, Cl!Go, p
  <2> QED
    BY <1>1, <1>2, <1>4, <1>5, <1>8, <2>1 DEF Inner
<1>9. CASE p \in Inner
  <2>1. at' = [at EXCEPT ![t] = "except"]
    BY <1>9 DEF Cl!Raise, Cl!Go, p, Inner
  <2> QED
    BY <1>1, <1>2, <1>4, <1>5, <1>9, <2>1
<1> QED
  BY <1>4, <1>6, <1>7, <1>8, <1>9 DEF Cl!Purposes, Inner

\* What a reply is for.
LEMMA ReplyCame ==
  ASSUME ClTyped, Stacked, NEW t \in Cl!Threads, Cl!GetReply(t)
  PROVE  /\ at[t] = "wait" /\ stack[t] # << >>
         /\ \/ /\ Cl!Purpose(t) = "request" /\ Len(stack[t]) = 1
               /\ at' = [at EXCEPT ![t] = "idle"] /\ stack' = [stack EXCEPT ![t] = << >>]
               /\ self' = self
            \/ /\ Cl!Purpose(t) = "describe" /\ Len(stack[t]) > 1
               /\ at' = [at EXCEPT ![t] = "lock"]
               /\ stack' = [stack EXCEPT ![t] = Append(Cl!Pop(@), "activate")]
               /\ self' = [self EXCEPT !.online = TRUE, !.state = "activating"]
            \/ /\ Cl!Purpose(t) = "activate" /\ Len(stack[t]) > 1
               /\ at' = [at EXCEPT ![t] = "connected"]
               /\ stack' = [stack EXCEPT ![t] = Cl!Pop(@)] /\ self' = self
<1>1. at[t] = "wait"
  <2>1. CASE Cl!Purpose(t) = "request"
    BY <2>1 DEF Cl!GetReply, Cl!Go
  <2>2. CASE Cl!Purpose(t) = "describe"
    BY <2>2 DEF Cl!GetReply, Cl!Go
  <2>3. CASE Cl!Purpose(t) \notin {"request", "describe"}
    BY <2>3 DEF Cl!GetReply, Cl!Go
  <2> QED
    BY <2>1, <2>2, <2>3
<1>2. stack[t] \in Stacks /\ stack[t] # << >>
  BY <1>1 DEF ClTyped, Stacked, Cl!Calling
<1> DEFINE p == Cl!Purpose(t)
<1>3. p = stack[t][Len(stack[t])]
  BY DEF Cl!Purpose
<1>4. /\ p \notin Inner => Len(stack[t]) = 1 /\ Cl!Pop(stack[t]) = << >>
      /\ p \in Inner => Len(stack[t]) > 1
  BY <1>2, <1>3, Calls
<1> HIDE DEF p
<1>5. CASE p = "request"
  <2>1. /\ at' = [at EXCEPT ![t] = "idle"] /\ self' = self
        /\ stack' = [stack EXCEPT ![t] = Cl!Pop(stack[t])]
    BY <1>5 DEF Cl!GetReply, Cl!Go, p
  <2> QED
    BY <1>1, <1>2, <1>4, <1>5, <2>1 DEF Inner, p
<1>6. CASE p = "describe"
  <2>1. /\ at' = [at EXCEPT ![t] = "lock"]
        /\ self' = [self EXCEPT !.online = TRUE, !.state = "activating"]
        /\ stack' = [stack EXCEPT ![t] = Append(Cl!Pop(@), "activate")]
    BY <1>6 DEF Cl!GetReply, Cl!Go, p
  <2> QED
    BY <1>1, <1>2, <1>4, <1>6, <2>1 DEF Inner, p
<1>7. CASE p = "activate"
  <2>1. /\ at' = [at EXCEPT ![t] = "connected"] /\ self' = self
        /\ stack' = [stack EXCEPT ![t] = Cl!Pop(@)]
    BY <1>7 DEF Cl!GetReply, Cl!Go, p
  <2> QED
    BY <1>1, <1>2, <1>4, <1>7, <2>1 DEF p, Inner
<1>8. p \in {"request", "describe", "activate"}
  BY <1>1, <1>2, <1>3, Calls DEF Stacked, Cl!Purposes, p
<1> QED
  BY <1>5, <1>6, <1>7, <1>8

\* Every step leaves the threads within connect() with a purpose, and only these.
LEMMA StackedStep ==
  ASSUME ClTyped, Stacked, Numbered, Attempting, Cl!Next PROVE Stacked'
<1> USE DEF ClTyped, Stacked, Cl!Calling, Cl!Closing, Cl!env, Cl!history, Cl!Purpose
<1>1. ASSUME NEW u \in Clients, Cl!Request(u) PROVE Stacked'
  BY <1>1 DEF Cl!Request, Cl!CallConnect, Cl!Go, Cl!Threads
<1>2. ASSUME NEW u \in Clients, Cl!Disconnect(u) PROVE Stacked'
  BY <1>2 DEF Cl!Disconnect, Cl!Go, Cl!Threads
<1>3. ASSUME NEW t \in Cl!Threads, Cl!Lock(t) PROVE Stacked'
  <2>1. CASE self.io # Cl!NoLink
    <3>1. Cl!ReturnFromConnect(t, "lock")
      BY <1>3, <2>1 DEF Cl!Lock
    <3> QED
      BY <3>1, ConnectReturns
  <2>2. CASE self.io = Cl!NoLink
    BY <1>3, <2>2 DEF Cl!Lock, Cl!Go
  <2> QED
    BY <2>1, <2>2
<1>4. ASSUME NEW t \in Cl!Threads, Cl!TryShutdown(t) PROVE Stacked'
  <2>1. Cl!ReturnFromConnect(t, "try")
    BY <1>4 DEF Cl!TryShutdown
  <2> QED
    BY <2>1, ConnectReturns
<1>5. ASSUME NEW t \in Cl!Threads, Cl!Open(t) PROVE Stacked'
  BY <1>5 DEF Cl!Open, Cl!Go
<1>6. ASSUME NEW t \in Cl!Threads, Cl!Refused(t) PROVE Stacked'
  BY <1>6 DEF Cl!Refused, Cl!Go
<1>7. ASSUME NEW t \in Cl!Threads, Cl!Identified(t) PROVE Stacked'
  BY <1>7 DEF Cl!Identified, Cl!Go
<1>8. ASSUME NEW t \in Cl!Threads, Cl!NotIdentified(t) PROVE Stacked'
  BY <1>8 DEF Cl!NotIdentified, Cl!Go
<1>9. ASSUME NEW t \in Cl!Threads, Cl!Start(t) PROVE Stacked'
  <2>1. /\ Cl!Made \in Cl!Links /\ at[Cl!Rx(Cl!Made)] = "none" /\ at[Cl!Tx(Cl!Made)] = "none"
        /\ at[t] = "identified"
    BY <1>9 DEF Cl!Start, Attempting, Starting, Numbered
  <2> DEFINE rx == Cl!Rx(Cl!Made)  tx == Cl!Tx(Cl!Made)
  <2>2. {rx, tx} \subseteq Cl!Threads
    BY <2>1, ThreadNames
  <2>3. stack[rx] = << >> /\ stack[tx] = << >> /\ rx # t /\ tx # t /\ stack[t] \in Stacks
    BY <2>1, <2>2
  <2>4. Append(stack[t], "describe") # << >>
    BY <2>1, <2>3, Calls
  <2>5. /\ at' = [at EXCEPT ![t] = "lock", ![rx] = "read", ![tx] = "loop"]
        /\ stack' = [stack EXCEPT ![t] = Append(@, "describe")]
    BY <1>9 DEF Cl!Start
  <2> HIDE DEF rx, tx
  <2> QED
    BY <2>2, <2>3, <2>4, <2>5
<1>10. ASSUME NEW t \in Cl!Threads, Cl!Connect(t) PROVE Stacked'
  <2>1. Cl!ReturnFromConnect(t, "connected")
    BY <1>10 DEF Cl!Connect
  <2> QED
    BY <2>1, ConnectReturns
<1>11. ASSUME NEW t \in Cl!Threads, Cl!GiveUp(t) PROVE Stacked'
  <2>1. Cl!Raise(t, "except")
    BY <1>11 DEF Cl!GiveUp
  <2>2. stack[t] \in Stacks
    OBVIOUS
  <2> QED
    BY <2>1, <2>2, CallRaises, Calls
<1>12. ASSUME NEW t \in Cl!Threads, Cl!Retry(t) PROVE Stacked'
  BY <1>12 DEF Cl!Retry, Cl!Go
<1>13. ASSUME NEW t \in Cl!Threads, Cl!Put(t) PROVE Stacked'
  BY <1>13 DEF Cl!Put, Cl!Go
<1>14. ASSUME NEW t \in Cl!Threads, Cl!GetReply(t) PROVE Stacked'
  <2>1. stack[t] \in Stacks
    OBVIOUS
  <2> QED
    BY <1>14, <2>1, ReplyCame, Calls
<1>15. ASSUME NEW t \in Cl!Threads, Cl!NoReply(t) PROVE Stacked'
  <2>1. Cl!Raise(t, "wait")
    BY <1>15 DEF Cl!NoReply
  <2>2. stack[t] \in Stacks
    OBVIOUS
  <2> QED
    BY <2>1, <2>2, CallRaises, Calls
<1>16. ASSUME NEW t \in Cl!Threads, Cl!Stop(t) PROVE Stacked'
  BY <1>16 DEF Cl!Stop, Cl!Go, Cl!AfterDisconnect
<1>17. ASSUME NEW t \in Cl!Threads, Cl!Drain(t) PROVE Stacked'
  BY <1>17 DEF Cl!Drain, Cl!Go
<1>18. ASSUME NEW t \in Cl!Threads, Cl!TestTxThread(t) PROVE Stacked'
  BY <1>18 DEF Cl!TestTxThread, Cl!Go
<1>19. ASSUME NEW t \in Cl!Threads, Cl!TestRxThread(t) PROVE Stacked'
  BY <1>19 DEF Cl!TestRxThread, Cl!Go
<1>20. ASSUME NEW t \in Cl!Threads, Cl!JoinFails(t) PROVE Stacked'
  BY <1>20 DEF Cl!JoinFails, Cl!Go, Cl!AfterFailure
<1>21. ASSUME NEW t \in Cl!Threads, Cl!Joined(t) PROVE Stacked'
  BY <1>21 DEF Cl!Joined, Cl!Go, Cl!Overtakes
<1>22. ASSUME NEW t \in Cl!Threads, Cl!Close(t) PROVE Stacked'
  BY <1>22 DEF Cl!Close, Cl!Go, Cl!AfterDisconnect, Cl!Overtakes
<1>23. ASSUME NEW n \in Cl!Links, Cl!TxLoop(n) PROVE Stacked'
  BY <1>23, ThreadNames DEF Cl!TxLoop, Cl!Go
<1>24. ASSUME NEW n \in Cl!Links, Cl!TxGet(n) PROVE Stacked'
  BY <1>24, ThreadNames DEF Cl!TxGet, Cl!Go
<1>25. ASSUME NEW n \in Cl!Links, Cl!TxSend(n) PROVE Stacked'
  BY <1>25, ThreadNames DEF Cl!TxSend, Cl!Go
<1>26. ASSUME NEW n \in Cl!Links, Cl!TxEnd(n) PROVE Stacked'
  BY <1>26, ThreadNames DEF Cl!TxEnd, Cl!Go, Cl!Overtakes
<1>27. ASSUME NEW n \in Cl!Links, Cl!RxStops(n) PROVE Stacked'
  BY <1>27, ThreadNames DEF Cl!RxStops, Cl!Go
<1>28. ASSUME NEW n \in Cl!Links, Cl!Receive(n) PROVE Stacked'
  BY <1>28, ThreadNames DEF Cl!Receive
<1>29. ASSUME NEW n \in Cl!Links, Cl!Heartbeat(n) PROVE Stacked'
  BY <1>29, ThreadNames DEF Cl!Heartbeat, Cl!CallConnect, Cl!Go
<1>30. ASSUME NEW n \in Cl!Links, Cl!ConnectionClosed(n) PROVE Stacked'
  BY <1>30, ThreadNames DEF Cl!ConnectionClosed, Cl!Go
<1>31. ASSUME NEW n \in Cl!Links, Cl!RxFails(n) PROVE Stacked'
  BY <1>31, ThreadNames DEF Cl!RxFails, Cl!Go
<1>32. ASSUME NEW n \in Cl!Links, Cl!RxEnd(n) PROVE Stacked'
  BY <1>32, ThreadNames DEF Cl!RxEnd, Cl!Go, Cl!Overtakes
<1>33. ASSUME NEW n \in Cl!Links, Cl!RxClosed(n) PROVE Stacked'
  BY <1>33, ThreadNames DEF Cl!RxClosed, Cl!Go, Numbered
<1>34. ASSUME NEW n \in Cl!Links, Cl!Reconnect(n) PROVE Stacked'
  BY <1>34, ThreadNames DEF Cl!Reconnect, Cl!CallConnect, Cl!Go
<1>35. ASSUME NEW n \in Cl!Links, Cl!ReconnectFailed(n) PROVE Stacked'
  BY <1>35, ThreadNames DEF Cl!ReconnectFailed, Cl!Go
<1>36. ASSUME NEW n \in Cl!Links, Cl!ReconnectOver(n) PROVE Stacked'
  BY <1>36, ThreadNames DEF Cl!ReconnectOver, Cl!Go
<1>37. ASSUME Cl!Lose PROVE Stacked'
  BY <1>37 DEF Cl!Lose
<1> QED
  BY <1>1, <1>2, <1>3, <1>4, <1>5, <1>6, <1>7, <1>8, <1>9, <1>10, <1>11, <1>12, <1>13, <1>14, <1>15, <1>16, <1>17, <1>18, <1>19, <1>20, <1>21, <1>22, <1>23, <1>24, <1>25, <1>26, <1>27, <1>28, <1>29, <1>30, <1>31, <1>32, <1>33, <1>34, <1>35, <1>36, <1>37
     DEF Cl!Next, Cl!Connecting, Cl!Disconnecting, Cl!TxStep, Cl!RxStep, Cl!RcStep

\* The number of connections made.
LEMMA MadeKept ==
  ASSUME \A n \in Cl!Links : link'[n] # "none" <=> link[n] # "none"
  PROVE  Cl!Made' = Cl!Made
<1>1. {n \in Cl!Links : link'[n] # "none"} = {n \in Cl!Links : link[n] # "none"}
  OBVIOUS
<1> QED
  BY <1>1 DEF Cl!Made

\* ... and one more.
LEMMA MadeMore ==
  ASSUME ClTyped, Numbered, Cl!Made < MaxLinks, link' = [link EXCEPT ![Cl!Made + 1] = "open"]
  PROVE  Cl!Made' = Cl!Made + 1
<1> DEFINE S == {n \in Cl!Links : link[n] # "none"}
           k == Cl!Made + 1
<1>1. k \in Cl!Links /\ k \notin S /\ IsFiniteSet(S) /\ Cardinality(S) = Cl!Made
  <2>1. k \in Cl!Links /\ Cl!Made \in Nat /\ Cardinality(S) = Cl!Made /\ IsFiniteSet(Cl!Links)
    BY MadeRange
  <2>2. IsFiniteSet(S)
    BY <2>1, FS_Subset
  <2>3. k \notin S
    BY <2>1 DEF Numbered
  <2> QED
    BY <2>1, <2>2, <2>3
<1>2. {n \in Cl!Links : link'[n] # "none"} = S \cup {k}
  BY <1>1 DEF ClTyped
<1>3. Cardinality(S \cup {k}) = Cardinality(S) + 1
  BY <1>1, FS_AddElement
<1>4. Cl!Made' = Cardinality({n \in Cl!Links : link'[n] # "none"})
  <2>1. Cl!Cardinality(S \cup {k}) = Cardinality(S \cup {k})
    BY DEF Cl!Cardinality, Cardinality
  <2> QED
    BY <1>2, <2>1 DEF Cl!Made
<1> QED
  BY <1>1, <1>2, <1>3, <1>4

\* Numbers are kept by a thread going on.
LEMMA NumberedKept ==
  ASSUME ClTyped, Numbered, NEW t \in Cl!Threads, NEW x,
         at[t] \notin {"none", "dead"}, x # "none", at' = [at EXCEPT ![t] = x],
         self'.io \in {self.io, Cl!NoLink},
         \A n \in Cl!Links : link'[n] = "none" <=> link[n] = "none",
         \A u \in Cl!Threads : since'[u] \subseteq since[u] \cup Cl!Serving
  PROVE  Numbered'
<1>1. Cl!Made' = Cl!Made
  BY MadeKept
<1>2. \A u \in Cl!Threads : at[u] # "none" <=> at'[u] # "none"
  BY DEF ClTyped
<1>3. \A u \in Cl!Threads : at[u] = "dead" => at'[u] = "dead"
  BY DEF ClTyped
<1>4. Cl!Serving' = Cl!Serving
  BY <1>2, ThreadNames DEF Cl!Serving
<1> QED
  BY <1>1, <1>2, <1>3, <1>4, ThreadNames DEF Numbered

\* Connections, and their threads, are made in the order of their numbers.
LEMMA NumberedStep ==
  ASSUME ClTyped, Stacked, Numbered, Attempting, Cl!Next PROVE Numbered'
<1> USE DEF ClTyped, Attributes, Numbered, Cl!env, Cl!history, Cl!Serving
<1>1. ASSUME NEW u \in Clients, Cl!Request(u) PROVE Numbered'
  <2>0. u \in Cl!Threads
    BY DEF Cl!Threads
  <2>1. at[u] \notin {"none", "dead"} /\ \E x : x # "none" /\ at' = [at EXCEPT ![u] = x]
    BY <2>0, <1>1 DEF Cl!Request, Cl!CallConnect, Cl!Go
  <2>2. self'.io \in {self.io, Cl!NoLink}
    BY <2>0, <1>1 DEF Cl!Request, Cl!CallConnect, Cl!Go
  <2>3. \A n \in Cl!Links : link'[n] = "none" <=> link[n] = "none"
    BY <2>0, <1>1 DEF Cl!Request, Cl!CallConnect, Cl!Go
  <2>4. \A v \in Cl!Threads : since'[v] \subseteq since[v] \cup Cl!Serving
    BY <2>0, <1>1 DEF Cl!Request, Cl!CallConnect, Cl!Go
  <2>5. PICK x : x # "none" /\ at' = [at EXCEPT ![u] = x]
    BY <2>1
  <2> HIDE DEF Numbered, ClTyped, Cl!Serving
  <2> QED
    BY <2>0, <2>1, <2>2, <2>3, <2>4, <2>5, NumberedKept
<1>2. ASSUME NEW u \in Clients, Cl!Disconnect(u) PROVE Numbered'
  <2>0. u \in Cl!Threads
    BY DEF Cl!Threads
  <2>1. at[u] \notin {"none", "dead"} /\ \E x : x # "none" /\ at' = [at EXCEPT ![u] = x]
    BY <2>0, <1>2 DEF Cl!Disconnect, Cl!Go
  <2>2. self'.io \in {self.io, Cl!NoLink}
    BY <2>0, <1>2 DEF Cl!Disconnect, Cl!Go
  <2>3. \A n \in Cl!Links : link'[n] = "none" <=> link[n] = "none"
    BY <2>0, <1>2 DEF Cl!Disconnect, Cl!Go
  <2>4. \A v \in Cl!Threads : since'[v] \subseteq since[v] \cup Cl!Serving
    BY <2>0, <1>2 DEF Cl!Disconnect, Cl!Go
  <2>5. PICK x : x # "none" /\ at' = [at EXCEPT ![u] = x]
    BY <2>1
  <2> HIDE DEF Numbered, ClTyped, Cl!Serving
  <2> QED
    BY <2>0, <2>1, <2>2, <2>3, <2>4, <2>5, NumberedKept
<1>3. ASSUME NEW t \in Cl!Threads, Cl!Lock(t) PROVE Numbered'
  <2>1. at[t] = "lock" /\ \E x : x # "none" /\ at' = [at EXCEPT ![t] = x]
    <3>1. CASE self.io # Cl!NoLink
      <4>1. Cl!ReturnFromConnect(t, "lock")
        BY <1>3, <3>1 DEF Cl!Lock
      <4> QED
        BY <4>1, ConnectReturns
    <3>2. CASE self.io = Cl!NoLink
      BY <1>3, <3>2 DEF Cl!Lock, Cl!Go
    <3> QED
      BY <3>1, <3>2
  <2>2. self'.io = self.io /\ link' = link /\ since' = since
    <3>1. CASE self.io # Cl!NoLink
      BY <1>3, <3>1 DEF Cl!Lock
    <3>2. CASE self.io = Cl!NoLink
      BY <1>3, <3>2 DEF Cl!Lock
    <3> QED
      BY <3>1, <3>2
  <2>3. PICK x : x # "none" /\ at' = [at EXCEPT ![t] = x]
    BY <2>1
  <2> HIDE DEF Numbered, ClTyped, Cl!Serving
  <2> QED
    BY <2>1, <2>2, <2>3, NumberedKept
<1>4. ASSUME NEW t \in Cl!Threads, Cl!TryShutdown(t) PROVE Numbered'
  BY <1>4, MadeKept DEF Cl!TryShutdown, Cl!ReturnFromConnect, Cl!Released, Cl!Purpose, Cl!Go
<1>5. ASSUME NEW t \in Cl!Threads, Cl!Open(t) PROVE Numbered'
  <2>1. /\ Cl!Made < MaxLinks /\ link' = [link EXCEPT ![Cl!Made + 1] = "open"]
        /\ self' = [self EXCEPT !.io = Cl!Made + 1] /\ since' = since /\ at[t] = "try"
        /\ at' = [at EXCEPT ![t] = "start"]
    BY <1>5 DEF Cl!Open, Cl!Go
  <2>2. Cl!Made' = Cl!Made + 1
    <3> HIDE DEF Numbered, ClTyped
    <3> QED
      BY <2>1, MadeMore
  <2>3. Cl!Made \in Nat /\ Cl!Made + 1 \in Cl!Links /\ Cl!Links \subseteq Nat
    BY <2>1, MadeRange DEF Cl!Links
  <2> QED
    BY <2>1, <2>2, <2>3, ThreadNames
<1>6. ASSUME NEW t \in Cl!Threads, Cl!Refused(t) PROVE Numbered'
  BY <1>6, MadeKept DEF Cl!Refused, Cl!Go
<1>7. ASSUME NEW t \in Cl!Threads, Cl!Identified(t) PROVE Numbered'
  BY <1>7, MadeKept DEF Cl!Identified, Cl!Go
<1>8. ASSUME NEW t \in Cl!Threads, Cl!NotIdentified(t) PROVE Numbered'
  BY <1>8, MadeKept DEF Cl!NotIdentified, Cl!Go
<1>9. ASSUME NEW t \in Cl!Threads, Cl!Start(t) PROVE Numbered'
  <2>1. /\ Cl!Made \in Cl!Links /\ at[t] = "identified" /\ at[Cl!Rx(Cl!Made)] = "none"
    BY <1>9 DEF Cl!Start, Attempting, Starting
  <2> DEFINE k == Cl!Made  rx == Cl!Rx(Cl!Made)  tx == Cl!Tx(Cl!Made)
  <2>2. {rx, tx} \subseteq Cl!Threads
    BY <2>1, ThreadNames
  <2>5. /\ at' = [at EXCEPT ![t] = "lock", ![rx] = "read", ![tx] = "loop"]
        /\ self' = [self EXCEPT !.running = TRUE, !.rxthread = rx, !.txthread = tx]
        /\ link' = link /\ since' = since /\ Cl!Made' = Cl!Made
    BY <1>9, MadeKept DEF Cl!Start
  <2>6. at'[rx] # "none" /\ at'[tx] # "none"
    BY <2>2, <2>5
  <2>7. \A u \in Cl!Threads \ {rx, tx} : u # t => at'[u] = at[u]
    BY <2>5, <2>2
  <2>8. \A u \in Cl!Threads : at[u] # "none" => at'[u] # "none"
    BY <2>2, <2>5
  <2>9. \A u \in Cl!Threads \ {rx, tx} : at[u] # "none" <=> at'[u] # "none"
    BY <2>1, <2>2, <2>5
  <2>10. \A u \in Cl!Threads : at[u] = "dead" => at'[u] = "dead"
    <3>1. at[tx] = "none"
      BY <2>1
    <3> QED
      BY <2>1, <2>2, <2>5, <3>1
  <2>11. k \in Nat /\ k <= k
    BY MadeRange
  <2> HIDE DEF rx, tx, k
  <2>12. ASSUME NEW n \in Cl!Links
        PROVE  /\ at'[Cl!Rx(n)] # "none" => n <= k
               /\ at'[Cl!Rx(n)] # "none" <=> at'[Cl!Tx(n)] # "none"
               /\ at'[Cl!Rc(n)] # "none" => at'[Cl!Rx(n)] = "dead"
    <3>1. CASE n = k
      <4>1. Cl!Rx(n) = rx /\ Cl!Tx(n) = tx /\ at[Cl!Rc(n)] = "none"
        BY <2>1, <3>1 DEF rx, tx, k
      <4>2. Cl!Rc(n) \notin {rx, tx} /\ Cl!Rc(n) \in Cl!Threads
        BY <4>1, ThreadNames
      <4> QED
        BY <2>6, <2>9, <2>11, <3>1, <4>1, <4>2
    <3>2. CASE n # k
      <4>1. {Cl!Rx(n), Cl!Tx(n), Cl!Rc(n)} \subseteq Cl!Threads \ {rx, tx}
        BY <2>1, <3>2, ThreadNames DEF rx, tx, k
      <4>2. /\ at[Cl!Rx(n)] # "none" => n <= Cl!Made
            /\ at[Cl!Rx(n)] # "none" <=> at[Cl!Tx(n)] # "none"
            /\ at[Cl!Rc(n)] # "none" => at[Cl!Rx(n)] = "dead"
        OBVIOUS
      <4> QED
        BY <2>9, <2>10, <4>1, <4>2 DEF k
    <3> QED
      BY <3>1, <3>2
  <2>13. \A u \in Cl!Threads : since'[u] \subseteq Cl!Serving'
    BY <2>5, <2>8, ThreadNames
  <2>14. self'.io = self.io
    BY <2>5
  <2>15. \A n \in Cl!Links : link[n] # "none" <=> n <= k
    BY DEF k
  <2>16. self.io \in {Cl!NoLink, k}
    BY DEF k
  <2>17. Cl!Made' = k /\ link' = link
    BY <2>5 DEF k
  <2> HIDE DEF ClTyped
  <2> QED
    BY <2>12, <2>13, <2>14, <2>15, <2>16, <2>17
<1>10. ASSUME NEW t \in Cl!Threads, Cl!Connect(t) PROVE Numbered'
  BY <1>10, MadeKept DEF Cl!Connect, Cl!ReturnFromConnect, Cl!Go, Cl!Purpose, Cl!Released
<1>11. ASSUME NEW t \in Cl!Threads, Cl!GiveUp(t) PROVE Numbered'
  BY <1>11, MadeKept DEF Cl!GiveUp, Cl!Raise, Cl!Go, Cl!Purpose, Cl!Released
<1>12. ASSUME NEW t \in Cl!Threads, Cl!Retry(t) PROVE Numbered'
  BY <1>12, MadeKept DEF Cl!Retry, Cl!Go
<1>13. ASSUME NEW t \in Cl!Threads, Cl!Put(t) PROVE Numbered'
  BY <1>13, MadeKept DEF Cl!Put, Cl!Go
<1>14. ASSUME NEW t \in Cl!Threads, Cl!GetReply(t) PROVE Numbered'
  <2>1. at[t] \notin {"none", "dead"} /\ \E x : x # "none" /\ at' = [at EXCEPT ![t] = x]
    BY <1>14, ReplyCame DEF Cl!GetReply, Cl!Go, Cl!Purpose
  <2>2. self'.io \in {self.io, Cl!NoLink}
    BY <1>14, ReplyCame
  <2>3. \A n \in Cl!Links : link'[n] = "none" <=> link[n] = "none"
    BY <1>14 DEF Cl!GetReply, Cl!Go, Cl!Purpose
  <2>4. \A u \in Cl!Threads : since'[u] \subseteq since[u] \cup Cl!Serving
    BY <1>14 DEF Cl!GetReply, Cl!Go, Cl!Purpose
  <2>5. PICK x : x # "none" /\ at' = [at EXCEPT ![t] = x]
    BY <2>1
  <2> HIDE DEF Numbered, ClTyped, Cl!Serving
  <2> QED
    BY <2>1, <2>2, <2>3, <2>4, <2>5, NumberedKept
<1>15. ASSUME NEW t \in Cl!Threads, Cl!NoReply(t) PROVE Numbered'
  BY <1>15, MadeKept DEF Cl!NoReply, Cl!Raise, Cl!Go, Cl!Purpose
<1>16. ASSUME NEW t \in Cl!Threads, Cl!Stop(t) PROVE Numbered'
  <2>1. at[t] \notin {"none", "dead"} /\ \E x : x # "none" /\ at' = [at EXCEPT ![t] = x]
    BY <1>16 DEF Cl!Stop, Cl!Go, Cl!AfterDisconnect
  <2>2. self'.io \in {self.io, Cl!NoLink}
    BY <1>16 DEF Cl!Stop, Cl!Go, Cl!AfterDisconnect
  <2>3. \A n \in Cl!Links : link'[n] = "none" <=> link[n] = "none"
    BY <1>16 DEF Cl!Stop, Cl!Go, Cl!AfterDisconnect
  <2>4. \A u \in Cl!Threads : since'[u] \subseteq since[u] \cup Cl!Serving
    BY <1>16 DEF Cl!Stop, Cl!Go, Cl!AfterDisconnect
  <2>5. PICK x : x # "none" /\ at' = [at EXCEPT ![t] = x]
    BY <2>1
  <2> HIDE DEF Numbered, ClTyped, Cl!Serving
  <2> QED
    BY <2>1, <2>2, <2>3, <2>4, <2>5, NumberedKept
<1>17. ASSUME NEW t \in Cl!Threads, Cl!Drain(t) PROVE Numbered'
  <2>1. at[t] \notin {"none", "dead"} /\ \E x : x # "none" /\ at' = [at EXCEPT ![t] = x]
    BY <1>17 DEF Cl!Drain, Cl!Go
  <2>2. self'.io \in {self.io, Cl!NoLink}
    BY <1>17 DEF Cl!Drain, Cl!Go
  <2>3. \A n \in Cl!Links : link'[n] = "none" <=> link[n] = "none"
    BY <1>17 DEF Cl!Drain, Cl!Go
  <2>4. \A u \in Cl!Threads : since'[u] \subseteq since[u] \cup Cl!Serving
    BY <1>17 DEF Cl!Drain, Cl!Go
  <2>5. PICK x : x # "none" /\ at' = [at EXCEPT ![t] = x]
    BY <2>1
  <2> HIDE DEF Numbered, ClTyped, Cl!Serving
  <2> QED
    BY <2>1, <2>2, <2>3, <2>4, <2>5, NumberedKept
<1>18. ASSUME NEW t \in Cl!Threads, Cl!TestTxThread(t) PROVE Numbered'
  <2>1. at[t] \notin {"none", "dead"} /\ \E x : x # "none" /\ at' = [at EXCEPT ![t] = x]
    BY <1>18 DEF Cl!TestTxThread, Cl!Go
  <2>2. self'.io \in {self.io, Cl!NoLink}
    BY <1>18 DEF Cl!TestTxThread, Cl!Go
  <2>3. \A n \in Cl!Links : link'[n] = "none" <=> link[n] = "none"
    BY <1>18 DEF Cl!TestTxThread, Cl!Go
  <2>4. \A u \in Cl!Threads : since'[u] \subseteq since[u] \cup Cl!Serving
    BY <1>18 DEF Cl!TestTxThread, Cl!Go
  <2>5. PICK x : x # "none" /\ at' = [at EXCEPT ![t] = x]
    BY <2>1
  <2> HIDE DEF Numbered, ClTyped, Cl!Serving
  <2> QED
    BY <2>1, <2>2, <2>3, <2>4, <2>5, NumberedKept
<1>19. ASSUME NEW t \in Cl!Threads, Cl!TestRxThread(t) PROVE Numbered'
  <2>1. at[t] \notin {"none", "dead"} /\ \E x : x # "none" /\ at' = [at EXCEPT ![t] = x]
    BY <1>19 DEF Cl!TestRxThread, Cl!Go
  <2>2. self'.io \in {self.io, Cl!NoLink}
    BY <1>19 DEF Cl!TestRxThread, Cl!Go
  <2>3. \A n \in Cl!Links : link'[n] = "none" <=> link[n] = "none"
    BY <1>19 DEF Cl!TestRxThread, Cl!Go
  <2>4. \A u \in Cl!Threads : since'[u] \subseteq since[u] \cup Cl!Serving
    BY <1>19 DEF Cl!TestRxThread, Cl!Go
  <2>5. PICK x : x # "none" /\ at' = [at EXCEPT ![t] = x]
    BY <2>1
  <2> HIDE DEF Numbered, ClTyped, Cl!Serving
  <2> QED
    BY <2>1, <2>2, <2>3, <2>4, <2>5, NumberedKept
<1>20. ASSUME NEW t \in Cl!Threads, Cl!JoinFails(t) PROVE Numbered'
  <2>1. at[t] \notin {"none", "dead"} /\ \E x : x # "none" /\ at' = [at EXCEPT ![t] = x]
    BY <1>20 DEF Cl!JoinFails, Cl!Go, Cl!AfterFailure
  <2>2. self'.io \in {self.io, Cl!NoLink}
    BY <1>20 DEF Cl!JoinFails, Cl!Go, Cl!AfterFailure
  <2>3. \A n \in Cl!Links : link'[n] = "none" <=> link[n] = "none"
    BY <1>20 DEF Cl!JoinFails, Cl!Go, Cl!AfterFailure
  <2>4. \A u \in Cl!Threads : since'[u] \subseteq since[u] \cup Cl!Serving
    BY <1>20 DEF Cl!JoinFails, Cl!Go, Cl!AfterFailure
  <2>5. PICK x : x # "none" /\ at' = [at EXCEPT ![t] = x]
    BY <2>1
  <2> HIDE DEF Numbered, ClTyped, Cl!Serving
  <2> QED
    BY <2>1, <2>2, <2>3, <2>4, <2>5, NumberedKept
<1>21. ASSUME NEW t \in Cl!Threads, Cl!Joined(t) PROVE Numbered'
  <2>1. at[t] \notin {"none", "dead"} /\ \E x : x # "none" /\ at' = [at EXCEPT ![t] = x]
    BY <1>21 DEF Cl!Joined, Cl!Go, Cl!Overtakes
  <2>2. self'.io \in {self.io, Cl!NoLink}
    BY <1>21 DEF Cl!Joined, Cl!Go, Cl!Overtakes
  <2>3. \A n \in Cl!Links : link'[n] = "none" <=> link[n] = "none"
    BY <1>21 DEF Cl!Joined, Cl!Go, Cl!Overtakes
  <2>4. \A u \in Cl!Threads : since'[u] \subseteq since[u] \cup Cl!Serving
    BY <1>21 DEF Cl!Joined, Cl!Go, Cl!Overtakes
  <2>5. PICK x : x # "none" /\ at' = [at EXCEPT ![t] = x]
    BY <2>1
  <2> HIDE DEF Numbered, ClTyped, Cl!Serving
  <2> QED
    BY <2>1, <2>2, <2>3, <2>4, <2>5, NumberedKept
<1>22. ASSUME NEW t \in Cl!Threads, Cl!Close(t) PROVE Numbered'
  <2>1. at[t] \notin {"none", "dead"} /\ \E x : x # "none" /\ at' = [at EXCEPT ![t] = x]
    BY <1>22 DEF Cl!Close, Cl!Go, Cl!AfterDisconnect, Cl!Overtakes
  <2>2. self'.io \in {self.io, Cl!NoLink}
    BY <1>22 DEF Cl!Close, Cl!Go, Cl!AfterDisconnect, Cl!Overtakes
  <2>3. \A n \in Cl!Links : link'[n] = "none" <=> link[n] = "none"
    <3>1. link' = [n \in Cl!Links |-> IF n = self.io THEN "gone" ELSE link[n]]
      BY <1>22 DEF Cl!Close
    <3>2. ASSUME NEW n \in Cl!Links, n = self.io PROVE link[n] # "none"
      <4>1. n = Cl!Made /\ n \in Nat
        BY <3>2, LinksAssumption DEF Cl!Links, Cl!NoLink
      <4> QED
        BY <4>1
    <3> QED
      BY <3>1, <3>2
  <2>4. \A u \in Cl!Threads : since'[u] \subseteq since[u] \cup Cl!Serving
    BY <1>22 DEF Cl!Close, Cl!Go, Cl!AfterDisconnect, Cl!Overtakes
  <2>5. PICK x : x # "none" /\ at' = [at EXCEPT ![t] = x]
    BY <2>1
  <2> HIDE DEF Numbered, ClTyped, Cl!Serving
  <2> QED
    BY <2>1, <2>2, <2>3, <2>4, <2>5, NumberedKept
<1>23. ASSUME NEW n \in Cl!Links, Cl!TxLoop(n) PROVE Numbered'
  BY <1>23, MadeKept, ThreadNames DEF Cl!TxLoop, Cl!Go
<1>24. ASSUME NEW n \in Cl!Links, Cl!TxGet(n) PROVE Numbered'
  BY <1>24, MadeKept, ThreadNames DEF Cl!TxGet, Cl!Go
<1>25. ASSUME NEW n \in Cl!Links, Cl!TxSend(n) PROVE Numbered'
  BY <1>25, MadeKept, ThreadNames DEF Cl!TxSend, Cl!Go
<1>26. ASSUME NEW n \in Cl!Links, Cl!TxEnd(n) PROVE Numbered'
  BY <1>26, MadeKept, ThreadNames DEF Cl!TxEnd, Cl!Go, Cl!Overtakes
<1>27. ASSUME NEW n \in Cl!Links, Cl!RxStops(n) PROVE Numbered'
  BY <1>27, MadeKept, ThreadNames DEF Cl!RxStops, Cl!Go
<1>28. ASSUME NEW n \in Cl!Links, Cl!Receive(n) PROVE Numbered'
  BY <1>28, MadeKept, ThreadNames DEF Cl!Receive
<1>29. ASSUME NEW n \in Cl!Links, Cl!Heartbeat(n) PROVE Numbered'
  BY <1>29, MadeKept, ThreadNames DEF Cl!Heartbeat, Cl!CallConnect, Cl!Go
<1>30. ASSUME NEW n \in Cl!Links, Cl!ConnectionClosed(n) PROVE Numbered'
  BY <1>30, MadeKept, ThreadNames DEF Cl!ConnectionClosed, Cl!Go
<1>31. ASSUME NEW n \in Cl!Links, Cl!RxFails(n) PROVE Numbered'
  BY <1>31, MadeKept, ThreadNames DEF Cl!RxFails, Cl!Go
<1>32. ASSUME NEW n \in Cl!Links, Cl!RxEnd(n) PROVE Numbered'
  BY <1>32, MadeKept, ThreadNames DEF Cl!RxEnd, Cl!Go, Cl!Overtakes
<1>33. ASSUME NEW n \in Cl!Links, Cl!RxClosed(n) PROVE Numbered'
  <2>1. CASE self.shutdown
    <3>1. at' = [at EXCEPT ![Cl!Rx(n)] = "dead"] /\ at[Cl!Rx(n)] = "closed"
      BY <1>33, <2>1 DEF Cl!RxClosed, Cl!Go
    <3>2. self' = self /\ link' = link /\ since' = since
      BY <1>33, <2>1 DEF Cl!RxClosed
    <3>3. Cl!Rx(n) \in Cl!Threads
      BY ThreadNames
    <3> HIDE DEF Numbered, ClTyped, Cl!Serving
    <3> QED
      BY <3>1, <3>2, <3>3, NumberedKept
  <2>2. CASE ~self.shutdown
    <3>1. /\ at' = [at EXCEPT ![Cl!Rx(n)] = "dead", ![Cl!Rc(n)] = "again"]
          /\ at[Cl!Rx(n)] = "closed" /\ self'.io = self.io
      BY <1>33, <2>2 DEF Cl!RxClosed
    <3>2. link' = link /\ since' = since /\ Cl!Made' = Cl!Made
      BY <1>33, MadeKept DEF Cl!RxClosed
    <3> QED
      BY <3>1, <3>2, ThreadNames
  <2> QED
    BY <2>1, <2>2
<1>34. ASSUME NEW n \in Cl!Links, Cl!Reconnect(n) PROVE Numbered'
  BY <1>34, MadeKept, ThreadNames DEF Cl!Reconnect, Cl!CallConnect, Cl!Go
<1>35. ASSUME NEW n \in Cl!Links, Cl!ReconnectFailed(n) PROVE Numbered'
  <2>0. Cl!Rc(n) \in Cl!Threads
    BY ThreadNames
  <2>1. at[Cl!Rc(n)] \notin {"none", "dead"} /\ \E x : x # "none" /\ at' = [at EXCEPT ![Cl!Rc(n)] = x]
    BY <2>0, <1>35 DEF Cl!ReconnectFailed, Cl!Go
  <2>2. self'.io \in {self.io, Cl!NoLink}
    BY <2>0, <1>35 DEF Cl!ReconnectFailed, Cl!Go
  <2>3. \A m \in Cl!Links : link'[m] = "none" <=> link[m] = "none"
    BY <2>0, <1>35 DEF Cl!ReconnectFailed, Cl!Go
  <2>4. \A u \in Cl!Threads : since'[u] \subseteq since[u] \cup Cl!Serving
    BY <2>0, <1>35 DEF Cl!ReconnectFailed, Cl!Go
  <2>5. PICK x : x # "none" /\ at' = [at EXCEPT ![Cl!Rc(n)] = x]
    BY <2>0, <2>1
  <2> HIDE DEF Numbered, ClTyped, Cl!Serving
  <2> QED
    BY <2>0, <2>1, <2>2, <2>3, <2>4, <2>5, NumberedKept
<1>36. ASSUME NEW n \in Cl!Links, Cl!ReconnectOver(n) PROVE Numbered'
  BY <1>36, MadeKept, ThreadNames DEF Cl!ReconnectOver, Cl!Go
<1>37. ASSUME Cl!Lose PROVE Numbered'
  BY <1>37, MadeKept DEF Cl!Lose
<1> QED
  BY <1>1, <1>2, <1>3, <1>4, <1>5, <1>6, <1>7, <1>8, <1>9, <1>10, <1>11, <1>12, <1>13, <1>14, <1>15, <1>16, <1>17, <1>18, <1>19, <1>20, <1>21, <1>22, <1>23, <1>24, <1>25, <1>26, <1>27, <1>28, <1>29, <1>30, <1>31, <1>32, <1>33, <1>34, <1>35, <1>36, <1>37
     DEF Cl!Next, Cl!Connecting, Cl!Disconnecting, Cl!TxStep, Cl!RxStep, Cl!RcStep

-----------------------------------------------------------------------------
(* The lock and the attempts to connect.                                   *)

\* The lock may be free.
LEMMA Nobodies == Cl!Nobody \notin Cl!Threads
BY ClientsAssumption DEF Cl!Nobody, Cl!Threads, Cl!NoLink, Cl!Links

\* The lock is kept, or left and taken by one thread.
LEMMA LockingKept ==
  ASSUME ClTyped, Locking, NEW t \in Cl!Threads, NEW y, NEW s,
         at' = [at EXCEPT ![t] = y], stack' = [stack EXCEPT ![t] = s],
         y \in InLock \/ Len(s) > 1 => self'.lock = t,
         self'.lock = self.lock \/ self.lock \in {Cl!Nobody, t}
  PROVE  Locking'
BY Nobodies DEF ClTyped, Locking

\* The lock is released by the outermost connect() only.
LEMMA LockingStep ==
  ASSUME ClTyped, Stacked, Numbered, Locking, Starting, Cl!Next PROVE Locking'
<1> USE DEF ClTyped, Attributes, Locking, InLock, Cl!env, Cl!history
<1>1. ASSUME NEW u \in Clients, Cl!Request(u) PROVE Locking'
  <2>1. u \in Cl!Threads /\ stack[u] = << >>
    BY <1>1 DEF Cl!Threads, Cl!Request, Cl!CallConnect, Cl!Go, Stacked, Cl!Calling
  <2> QED
    BY <1>1, <2>1, OneCall DEF Cl!Request, Cl!CallConnect, Cl!Go, Cl!Purposes, Inner
<1>2. ASSUME NEW u \in Clients, Cl!Disconnect(u) PROVE Locking'
  BY <1>2 DEF Cl!Disconnect, Cl!Go, Cl!Threads
<1>3. ASSUME NEW t \in Cl!Threads, Cl!Lock(t) PROVE Locking'
  <2>1. CASE self.io # Cl!NoLink
    <3>1. Cl!ReturnFromConnect(t, "lock") /\ self'.lock = Cl!Released(t)
      BY <1>3, <2>1 DEF Cl!Lock
    <3>2. self.lock \in {Cl!Nobody, t}
      BY <1>3 DEF Cl!Lock
    <3>3. /\ self.lock \in {Cl!Nobody, t}
          /\ Len(stack[t]) > 1 => self'.lock = t
      <4>1. Len(stack[t]) > 1 => Len(stack[t]) # 1 /\ self.lock = t
        <5>1. stack[t] \in Stacks /\ stack[t] # << >>
          BY <3>1, ConnectReturns
        <5> QED
          BY <5>1, Calls
      <4> HIDE DEF ClTyped, Locking
      <4> QED
        BY <3>1, <3>2, <4>1 DEF Cl!Released
    <3>5. PICK y, s : /\ at' = [at EXCEPT ![t] = y] /\ y \notin InLock
                      /\ stack' = [stack EXCEPT ![t] = s] /\ (Len(s) > 1 => Len(stack[t]) > 1)
      BY <3>1, ConnectReturns
    <3> HIDE DEF Locking, ClTyped
    <3> QED
      BY <3>3, <3>5, LockingKept
  <2>2. CASE self.io = Cl!NoLink
    <3>1. self.lock \in {Cl!Nobody, t} /\ self'.lock = t /\ stack' = stack
      BY <1>3, <2>2 DEF Cl!Lock
    <3>2. at' = [at EXCEPT ![t] = "try"]
      BY <1>3, <2>2 DEF Cl!Lock, Cl!Go
    <3> QED
      BY <3>1, <3>2, Nobodies
  <2> QED
    BY <2>1, <2>2
<1>4. ASSUME NEW t \in Cl!Threads, Cl!TryShutdown(t) PROVE Locking'
  <2>1. Cl!ReturnFromConnect(t, "try")
    BY <1>4 DEF Cl!TryShutdown
  <2>2. self'.lock = Cl!Released(t)
    BY <1>4 DEF Cl!TryShutdown
  <2>3. self.lock = t /\ stack[t] # << >> /\ stack[t] \in Stacks
    BY <2>1, ConnectReturns
  <2>4. Len(stack[t]) > 1 => self'.lock = t
    <3>1. Len(stack[t]) > 1 => Len(stack[t]) # 1
      BY <2>3, Calls
    <3> HIDE DEF ClTyped, Locking
    <3> QED
      BY <2>2, <2>3, <3>1 DEF Cl!Released
  <2>5. PICK y, s : /\ at' = [at EXCEPT ![t] = y] /\ y \notin InLock
                    /\ stack' = [stack EXCEPT ![t] = s] /\ (Len(s) > 1 => Len(stack[t]) > 1)
    BY <2>1, ConnectReturns
  <2> HIDE DEF Locking, ClTyped
  <2> QED
    BY <2>4, <2>3, <2>5, LockingKept
<1>5. ASSUME NEW t \in Cl!Threads, Cl!Open(t) PROVE Locking'
  BY <1>5 DEF Cl!Open, Cl!Go
<1>6. ASSUME NEW t \in Cl!Threads, Cl!Refused(t) PROVE Locking'
  BY <1>6 DEF Cl!Refused, Cl!Go
<1>7. ASSUME NEW t \in Cl!Threads, Cl!Identified(t) PROVE Locking'
  BY <1>7 DEF Cl!Identified, Cl!Go
<1>8. ASSUME NEW t \in Cl!Threads, Cl!NotIdentified(t) PROVE Locking'
  BY <1>8 DEF Cl!NotIdentified, Cl!Go
<1>9. ASSUME NEW t \in Cl!Threads, Cl!Start(t) PROVE Locking'
  <2>1. stack[t] \in Stacks /\ at[t] = "identified" /\ stack[t] # << >>
    BY <1>9 DEF Cl!Start, Stacked, Cl!Calling
  <2>2. /\ Cl!Made \in Cl!Links /\ at[Cl!Rx(Cl!Made)] = "none" /\ at[Cl!Tx(Cl!Made)] = "none"
    BY <1>9 DEF Cl!Start, Starting, Numbered
  <2>3. {Cl!Rx(Cl!Made), Cl!Tx(Cl!Made)} \subseteq Cl!Threads
    BY <2>2, ThreadNames
  <2>4. self'.lock = self.lock /\ stack' = [stack EXCEPT ![t] = Append(@, "describe")]
        /\ at' = [at EXCEPT ![t] = "lock", ![Cl!Rx(Cl!Made)] = "read", ![Cl!Tx(Cl!Made)] = "loop"]
    BY <1>9 DEF Cl!Start
  <2> QED
    BY <2>1, <2>2, <2>3, <2>4
<1>10. ASSUME NEW t \in Cl!Threads, Cl!Connect(t) PROVE Locking'
  <2>1. Cl!ReturnFromConnect(t, "connected")
    BY <1>10 DEF Cl!Connect
  <2>2. self'.lock = Cl!Released(t)
    BY <1>10 DEF Cl!Connect
  <2>3. self.lock = t /\ stack[t] # << >> /\ stack[t] \in Stacks
    BY <2>1, ConnectReturns
  <2>4. Len(stack[t]) > 1 => self'.lock = t
    <3>1. Len(stack[t]) > 1 => Len(stack[t]) # 1
      BY <2>3, Calls
    <3> HIDE DEF ClTyped, Locking
    <3> QED
      BY <2>2, <2>3, <3>1 DEF Cl!Released
  <2>5. PICK y, s : /\ at' = [at EXCEPT ![t] = y] /\ y \notin InLock
                    /\ stack' = [stack EXCEPT ![t] = s] /\ (Len(s) > 1 => Len(stack[t]) > 1)
    BY <2>1, ConnectReturns
  <2> HIDE DEF Locking, ClTyped
  <2> QED
    BY <2>4, <2>3, <2>5, LockingKept
<1>11. ASSUME NEW t \in Cl!Threads, Cl!GiveUp(t) PROVE Locking'
  <2>1. Cl!Raise(t, "except") /\ stack[t] \in Stacks
    BY <1>11 DEF Cl!GiveUp
  <2>2. self'.lock = Cl!Released(t)
    BY <1>11 DEF Cl!GiveUp
  <2> QED
    BY <2>1, <2>2, CallRaises, Calls DEF Cl!Released
<1>12. ASSUME NEW t \in Cl!Threads, Cl!Retry(t) PROVE Locking'
  BY <1>12 DEF Cl!Retry, Cl!Go
<1>13. ASSUME NEW t \in Cl!Threads, Cl!Put(t) PROVE Locking'
  BY <1>13 DEF Cl!Put, Cl!Go
<1>14. ASSUME NEW t \in Cl!Threads, Cl!GetReply(t) PROVE Locking'
  <2>1. stack[t] \in Stacks /\ stack[t] # << >> /\ Len(stack[t]) \in Nat
    BY <1>14, ReplyCame, Calls
  <2>2. self'.lock = self.lock
    BY <1>14, ReplyCame
  <2>3. PICK y, s : /\ at' = [at EXCEPT ![t] = y] /\ stack' = [stack EXCEPT ![t] = s]
                    /\ y \in InLock \/ Len(s) > 1 => Len(stack[t]) > 1
    BY <1>14, <2>1, ReplyCame, Calls
  <2> HIDE DEF Locking, ClTyped
  <2>4. Len(stack[t]) > 1 => self.lock = t
    BY DEF Locking
  <2> QED
    BY <2>2, <2>3, <2>4, LockingKept
<1>15. ASSUME NEW t \in Cl!Threads, Cl!NoReply(t) PROVE Locking'
  <2>1. Cl!Raise(t, "wait") /\ stack[t] \in Stacks /\ self' = self
    BY <1>15 DEF Cl!NoReply
  <2> QED
    BY <2>1, CallRaises, Calls
<1>16. ASSUME NEW t \in Cl!Threads, Cl!Stop(t) PROVE Locking'
  BY <1>16 DEF Cl!Stop, Cl!Go, Cl!AfterDisconnect
<1>17. ASSUME NEW t \in Cl!Threads, Cl!Drain(t) PROVE Locking'
  BY <1>17 DEF Cl!Drain, Cl!Go
<1>18. ASSUME NEW t \in Cl!Threads, Cl!TestTxThread(t) PROVE Locking'
  BY <1>18 DEF Cl!TestTxThread, Cl!Go
<1>19. ASSUME NEW t \in Cl!Threads, Cl!TestRxThread(t) PROVE Locking'
  BY <1>19 DEF Cl!TestRxThread, Cl!Go
<1>20. ASSUME NEW t \in Cl!Threads, Cl!JoinFails(t) PROVE Locking'
  BY <1>20 DEF Cl!JoinFails, Cl!Go, Cl!AfterFailure
<1>21. ASSUME NEW t \in Cl!Threads, Cl!Joined(t) PROVE Locking'
  BY <1>21 DEF Cl!Joined, Cl!Go, Cl!Overtakes
<1>22. ASSUME NEW t \in Cl!Threads, Cl!Close(t) PROVE Locking'
  BY <1>22 DEF Cl!Close, Cl!Go, Cl!AfterDisconnect, Cl!Overtakes
<1>23. ASSUME NEW n \in Cl!Links, Cl!TxLoop(n) PROVE Locking'
  BY <1>23, ThreadNames DEF Cl!TxLoop, Cl!Go
<1>24. ASSUME NEW n \in Cl!Links, Cl!TxGet(n) PROVE Locking'
  BY <1>24, ThreadNames DEF Cl!TxGet, Cl!Go
<1>25. ASSUME NEW n \in Cl!Links, Cl!TxSend(n) PROVE Locking'
  BY <1>25, ThreadNames DEF Cl!TxSend, Cl!Go
<1>26. ASSUME NEW n \in Cl!Links, Cl!TxEnd(n) PROVE Locking'
  BY <1>26, ThreadNames DEF Cl!TxEnd, Cl!Go, Cl!Overtakes
<1>27. ASSUME NEW n \in Cl!Links, Cl!RxStops(n) PROVE Locking'
  BY <1>27, ThreadNames DEF Cl!RxStops, Cl!Go
<1>28. ASSUME NEW n \in Cl!Links, Cl!Receive(n) PROVE Locking'
  BY <1>28, ThreadNames DEF Cl!Receive
<1>29. ASSUME NEW n \in Cl!Links, Cl!Heartbeat(n) PROVE Locking'
  <2>1. Cl!Rx(n) \in Cl!Threads /\ stack[Cl!Rx(n)] = << >>
    BY <1>29, ThreadNames DEF Cl!Heartbeat, Cl!CallConnect, Cl!Go, Stacked, Cl!Calling
  <2> QED
    BY <1>29, <2>1, OneCall DEF Cl!Heartbeat, Cl!CallConnect, Cl!Go, Cl!Purposes, Inner
<1>30. ASSUME NEW n \in Cl!Links, Cl!ConnectionClosed(n) PROVE Locking'
  BY <1>30, ThreadNames DEF Cl!ConnectionClosed, Cl!Go
<1>31. ASSUME NEW n \in Cl!Links, Cl!RxFails(n) PROVE Locking'
  BY <1>31, ThreadNames DEF Cl!RxFails, Cl!Go
<1>32. ASSUME NEW n \in Cl!Links, Cl!RxEnd(n) PROVE Locking'
  BY <1>32, ThreadNames DEF Cl!RxEnd, Cl!Go, Cl!Overtakes
<1>33. ASSUME NEW n \in Cl!Links, Cl!RxClosed(n) PROVE Locking'
  BY <1>33, ThreadNames DEF Cl!RxClosed, Cl!Go
<1>34. ASSUME NEW n \in Cl!Links, Cl!Reconnect(n) PROVE Locking'
  <2>0. Cl!Rc(n) \in Cl!Threads
    BY ThreadNames
  <2>1. stack[Cl!Rc(n)] = << >> /\ at[Cl!Rc(n)] = "again" /\ self' = self
    BY <1>34, <2>0 DEF Cl!Reconnect, Cl!CallConnect, Cl!Go, Stacked, Cl!Calling
  <2>2. PICK y, s : /\ at' = [at EXCEPT ![Cl!Rc(n)] = y] /\ y \notin InLock
                    /\ stack' = [stack EXCEPT ![Cl!Rc(n)] = s] /\ ~(Len(s) > 1)
    <3>1. CASE self.shutdown
      BY <1>34, <2>0, <2>1, <3>1 DEF Cl!Reconnect, Cl!Go
    <3>2. CASE ~self.shutdown
      <4>1. /\ stack' = [stack EXCEPT ![Cl!Rc(n)] = Append(<< >>, "reconnect")]
            /\ at' = [at EXCEPT ![Cl!Rc(n)] = "lock"]
        BY <1>34, <2>1, <3>2 DEF Cl!Reconnect, Cl!CallConnect, Cl!Go
      <4>2. ~(Len(Append(<< >>, "reconnect")) > 1)
        BY OneCall DEF Cl!Purposes, Inner
      <4> QED
        BY <4>1, <4>2
    <3> QED
      BY <3>1, <3>2
  <2> HIDE DEF Locking, ClTyped
  <2> QED
    BY <2>0, <2>1, <2>2, LockingKept
<1>35. ASSUME NEW n \in Cl!Links, Cl!ReconnectFailed(n) PROVE Locking'
  BY <1>35, ThreadNames DEF Cl!ReconnectFailed, Cl!Go
<1>36. ASSUME NEW n \in Cl!Links, Cl!ReconnectOver(n) PROVE Locking'
  BY <1>36, ThreadNames DEF Cl!ReconnectOver, Cl!Go
<1>37. ASSUME Cl!Lose PROVE Locking'
  BY <1>37 DEF Cl!Lose
<1> QED
  BY <1>1, <1>2, <1>3, <1>4, <1>5, <1>6, <1>7, <1>8, <1>9, <1>10, <1>11, <1>12, <1>13, <1>14, <1>15, <1>16, <1>17, <1>18, <1>19, <1>20, <1>21, <1>22, <1>23, <1>24, <1>25, <1>26, <1>27, <1>28, <1>29, <1>30, <1>31, <1>32, <1>33, <1>34, <1>35, <1>36, <1>37
     DEF Cl!Next, Cl!Connecting, Cl!Disconnecting, Cl!TxStep, Cl!RxStep, Cl!RcStep

\* Nobody else starts, and nothing which matters for starting is changed.
LEMMA StartingKept ==
  ASSUME ClTyped, Starting, NEW t \in Cl!Threads, NEW x,
         at[t] # "none", x \notin {"try", "start", "identified"}, at' = [at EXCEPT ![t] = x],
         self'.io = self.io, link' = link, overtaken => overtaken'
  PROVE  Starting'
<1>1. Cl!Made' = Cl!Made
  BY MadeKept
<1>2. \A u \in Cl!Threads :
        /\ at'[u] \in {"try", "start", "identified"} => at'[u] = at[u]
        /\ at[u] = "none" => at'[u] = "none"
  BY DEF ClTyped
<1>3. Cl!Made \in Cl!Links => Cl!Rx(Cl!Made) \in Cl!Threads
  BY ThreadNames
<1> QED
  BY <1>1, <1>2, <1>3 DEF Starting

\* An attempt to connect finds no connection, and none is made beside it.
LEMMA StartingStep ==
  ASSUME ClTyped, Stacked, Numbered, Locking, Starting, ~TryAgain, Cl!Next PROVE Starting'
<1> USE DEF ClTyped, Attributes, Starting, Cl!env, Cl!history
<1>1. ASSUME NEW u \in Clients, Cl!Request(u) PROVE Starting'
  <2>1. u \in Cl!Threads
    BY ThreadNames DEF Cl!Threads
  <2>2. at[u] # "none" /\ \E x : x \notin {"try", "start", "identified"} /\ at' = [at EXCEPT ![u] = x]
    BY <1>1, <2>1 DEF Cl!Request, Cl!CallConnect, Cl!Go
  <2>3. self'.io = self.io /\ link' = link /\ (overtaken => overtaken')
    BY <1>1 DEF Cl!Request, Cl!CallConnect, Cl!Go
  <2>4. PICK x : x \notin {"try", "start", "identified"} /\ at' = [at EXCEPT ![u] = x]
    BY <2>2
  <2> HIDE DEF ClTyped, Starting
  <2> QED
    BY <2>1, <2>2, <2>3, <2>4, StartingKept
<1>2. ASSUME NEW u \in Clients, Cl!Disconnect(u) PROVE Starting'
  <2>1. u \in Cl!Threads
    BY ThreadNames DEF Cl!Threads
  <2>2. at[u] # "none" /\ \E x : x \notin {"try", "start", "identified"} /\ at' = [at EXCEPT ![u] = x]
    BY <1>2, <2>1 DEF Cl!Disconnect, Cl!Go
  <2>3. self'.io = self.io /\ link' = link /\ (overtaken => overtaken')
    BY <1>2 DEF Cl!Disconnect, Cl!Go
  <2>4. PICK x : x \notin {"try", "start", "identified"} /\ at' = [at EXCEPT ![u] = x]
    BY <2>2
  <2> HIDE DEF ClTyped, Starting
  <2> QED
    BY <2>1, <2>2, <2>3, <2>4, StartingKept
<1>3. ASSUME NEW t \in Cl!Threads, Cl!Lock(t) PROVE Starting'
  <2>0. link' = link /\ overtaken' = overtaken /\ self'.io = self.io
    <3>1. CASE self.io # Cl!NoLink
      BY <1>3, <3>1 DEF Cl!Lock
    <3>2. CASE self.io = Cl!NoLink
      BY <1>3, <3>2 DEF Cl!Lock
    <3> QED
      BY <3>1, <3>2
  <2>1. CASE self.io # Cl!NoLink
    <3>1. Cl!ReturnFromConnect(t, "lock")
      BY <1>3, <2>1 DEF Cl!Lock
    <3>2. at[t] = "lock" /\ \E x : x \notin {"try", "start", "identified"} /\ at' = [at EXCEPT ![t] = x]
      BY <3>1, ConnectReturns
    <3>3. PICK x : x \notin {"try", "start", "identified"} /\ at' = [at EXCEPT ![t] = x]
      BY <3>2
    <3> HIDE DEF ClTyped, Starting
    <3> QED
      BY <2>0, <3>2, <3>3, StartingKept
  <2>2. CASE self.io = Cl!NoLink
    <3>1. at' = [at EXCEPT ![t] = "try"] /\ at[t] = "lock" /\ self.lock \in {Cl!Nobody, t}
      BY <1>3, <2>2 DEF Cl!Lock, Cl!Go
    <3>2. \A u \in Cl!Threads : at'[u] \notin {"start", "identified"}
      BY <3>1, Nobodies DEF Locking, InLock
    <3> QED
      BY <2>0, <2>2, <3>1, <3>2
  <2> QED
    BY <2>1, <2>2
<1>4. ASSUME NEW t \in Cl!Threads, Cl!TryShutdown(t) PROVE Starting'
  <2>0. Cl!ReturnFromConnect(t, "try") 
    BY <1>4 DEF Cl!TryShutdown
  <2>1. t \in Cl!Threads
    BY ThreadNames DEF Cl!Threads
  <2>2. at[t] # "none" /\ \E x : x \notin {"try", "start", "identified"} /\ at' = [at EXCEPT ![t] = x]
    BY <2>1, <2>0, ConnectReturns
  <2>3. self'.io = self.io /\ link' = link /\ (overtaken => overtaken')
    BY <1>4, <2>0, ConnectReturns DEF Cl!TryShutdown, Cl!ReturnFromConnect, Cl!Released, Cl!Purpose, Cl!Go
  <2>4. PICK x : x \notin {"try", "start", "identified"} /\ at' = [at EXCEPT ![t] = x]
    BY <2>2
  <2> HIDE DEF ClTyped, Starting
  <2> QED
    BY <2>1, <2>2, <2>3, <2>4, StartingKept
<1>5. ASSUME NEW t \in Cl!Threads, Cl!Open(t) PROVE Starting'
  <2>1. /\ Cl!Made < MaxLinks /\ link' = [link EXCEPT ![Cl!Made + 1] = "open"]
        /\ self' = [self EXCEPT !.io = Cl!Made + 1] /\ at[t] = "try"
        /\ at' = [at EXCEPT ![t] = "start"]
    BY <1>5 DEF Cl!Open, Cl!Go
  <2>2. Cl!Made' = Cl!Made + 1
    <3> HIDE DEF ClTyped
    <3> QED
      BY <2>1, MadeMore
  <2>3. Cl!Made \in Nat /\ Cl!Made + 1 \in Cl!Links /\ Cl!Links \subseteq Nat
    BY <2>1, MadeRange DEF Cl!Links
  <2>4. \A u \in Cl!Threads : u # t => at'[u] \notin {"try", "start", "identified"}
    BY <2>1 DEF Locking, InLock
  <2>5. at[Cl!Rx(Cl!Made + 1)] = "none" /\ Cl!Rx(Cl!Made + 1) \in Cl!Threads
    BY <2>3, ThreadNames DEF Numbered
  <2>6. at'[Cl!Rx(Cl!Made + 1)] = "none"
    BY <2>1, <2>5
  <2>7. Cl!Rx(Cl!Made)' = Cl!Rx(Cl!Made + 1)
    BY <2>2 DEF Cl!Rx
  <2> QED
    BY <2>1, <2>2, <2>3, <2>4, <2>6, <2>7
<1>6. ASSUME NEW t \in Cl!Threads, Cl!Refused(t) PROVE Starting'
  <2>1. t \in Cl!Threads
    BY ThreadNames DEF Cl!Threads
  <2>2. at[t] # "none" /\ \E x : x \notin {"try", "start", "identified"} /\ at' = [at EXCEPT ![t] = x]
    BY <1>6, <2>1 DEF Cl!Refused, Cl!Go
  <2>3. self'.io = self.io /\ link' = link /\ (overtaken => overtaken')
    BY <1>6 DEF Cl!Refused, Cl!Go
  <2>4. PICK x : x \notin {"try", "start", "identified"} /\ at' = [at EXCEPT ![t] = x]
    BY <2>2
  <2> HIDE DEF ClTyped, Starting
  <2> QED
    BY <2>1, <2>2, <2>3, <2>4, StartingKept
<1>7. ASSUME NEW t \in Cl!Threads, Cl!Identified(t) PROVE Starting'
  BY <1>7, ThreadNames, MadeKept DEF Cl!Identified, Cl!Go
<1>8. ASSUME NEW t \in Cl!Threads, Cl!NotIdentified(t) PROVE Starting'
  <2>1. t \in Cl!Threads
    BY ThreadNames DEF Cl!Threads
  <2>2. at[t] # "none" /\ \E x : x \notin {"try", "start", "identified"} /\ at' = [at EXCEPT ![t] = x]
    BY <1>8, <2>1 DEF Cl!NotIdentified, Cl!Go
  <2>3. self'.io = self.io /\ link' = link /\ (overtaken => overtaken')
    BY <1>8 DEF Cl!NotIdentified, Cl!Go
  <2>4. PICK x : x \notin {"try", "start", "identified"} /\ at' = [at EXCEPT ![t] = x]
    BY <2>2
  <2> HIDE DEF ClTyped, Starting
  <2> QED
    BY <2>1, <2>2, <2>3, <2>4, StartingKept
<1>9. ASSUME NEW t \in Cl!Threads, Cl!Start(t) PROVE Starting'
  <2>1. at[t] = "identified" /\ Cl!Made \in Cl!Links
    BY <1>9 DEF Cl!Start
  <2>2. {Cl!Rx(Cl!Made), Cl!Tx(Cl!Made)} \subseteq Cl!Threads
    BY <2>1, ThreadNames
  <2>3. /\ at' = [at EXCEPT ![t] = "lock", ![Cl!Rx(Cl!Made)] = "read", ![Cl!Tx(Cl!Made)] = "loop"]
        /\ self'.io = self.io
    BY <1>9 DEF Cl!Start
  <2>4. \A u \in Cl!Threads : u # t => at[u] \notin {"try", "start", "identified"}
    BY <2>1, Nobodies DEF Locking, InLock
  <2>5. \A u \in Cl!Threads : at'[u] \notin {"try", "start", "identified"}
    BY <2>2, <2>3, <2>4
  <2> QED
    BY <2>5
<1>10. ASSUME NEW t \in Cl!Threads, Cl!Connect(t) PROVE Starting'
  <2>0. Cl!ReturnFromConnect(t, "connected") 
    BY <1>10 DEF Cl!Connect
  <2>1. t \in Cl!Threads
    BY ThreadNames DEF Cl!Threads
  <2>2. at[t] # "none" /\ \E x : x \notin {"try", "start", "identified"} /\ at' = [at EXCEPT ![t] = x]
    BY <2>1, <2>0, ConnectReturns
  <2>3. self'.io = self.io /\ link' = link /\ (overtaken => overtaken')
    BY <1>10, <2>0, ConnectReturns DEF Cl!Connect, Cl!ReturnFromConnect, Cl!Go, Cl!Purpose, Cl!Released
  <2>4. PICK x : x \notin {"try", "start", "identified"} /\ at' = [at EXCEPT ![t] = x]
    BY <2>2
  <2> HIDE DEF ClTyped, Starting
  <2> QED
    BY <2>1, <2>2, <2>3, <2>4, StartingKept
<1>11. ASSUME NEW t \in Cl!Threads, Cl!GiveUp(t) PROVE Starting'
  <2>0. Cl!Raise(t, "except") 
    BY <1>11 DEF Cl!GiveUp
  <2>1. t \in Cl!Threads
    BY ThreadNames DEF Cl!Threads
  <2>2. at[t] # "none" /\ \E x : x \notin {"try", "start", "identified"} /\ at' = [at EXCEPT ![t] = x]
    BY <2>1, <2>0, CallRaises
  <2>3. self'.io = self.io /\ link' = link /\ (overtaken => overtaken')
    BY <1>11, <2>0, CallRaises DEF Cl!GiveUp, Cl!Raise, Cl!Go, Cl!Purpose, Cl!Released
  <2>4. PICK x : x \notin {"try", "start", "identified"} /\ at' = [at EXCEPT ![t] = x]
    BY <2>2
  <2> HIDE DEF ClTyped, Starting
  <2> QED
    BY <2>1, <2>2, <2>3, <2>4, StartingKept
<1>12. ASSUME NEW t \in Cl!Threads, Cl!Retry(t) PROVE Starting'
  BY <1>12, ThreadNames, MadeKept DEF Cl!Retry, Cl!Go
<1>13. ASSUME NEW t \in Cl!Threads, Cl!Put(t) PROVE Starting'
  <2>1. t \in Cl!Threads
    BY ThreadNames DEF Cl!Threads
  <2>2. at[t] # "none" /\ \E x : x \notin {"try", "start", "identified"} /\ at' = [at EXCEPT ![t] = x]
    BY <1>13, <2>1 DEF Cl!Put, Cl!Go
  <2>3. self'.io = self.io /\ link' = link /\ (overtaken => overtaken')
    BY <1>13 DEF Cl!Put, Cl!Go
  <2>4. PICK x : x \notin {"try", "start", "identified"} /\ at' = [at EXCEPT ![t] = x]
    BY <2>2
  <2> HIDE DEF ClTyped, Starting
  <2> QED
    BY <2>1, <2>2, <2>3, <2>4, StartingKept
<1>14. ASSUME NEW t \in Cl!Threads, Cl!GetReply(t) PROVE Starting'
  <2>1. t \in Cl!Threads
    BY ThreadNames DEF Cl!Threads
  <2>2. at[t] # "none" /\ \E x : x \notin {"try", "start", "identified"} /\ at' = [at EXCEPT ![t] = x]
    BY <1>14, <2>1, ReplyCame
  <2>3. self'.io = self.io /\ link' = link /\ (overtaken => overtaken')
    BY <1>14, ReplyCame DEF Cl!GetReply, Cl!Go, Cl!Purpose
  <2>4. PICK x : x \notin {"try", "start", "identified"} /\ at' = [at EXCEPT ![t] = x]
    BY <2>2
  <2> HIDE DEF ClTyped, Starting
  <2> QED
    BY <2>1, <2>2, <2>3, <2>4, StartingKept
<1>15. ASSUME NEW t \in Cl!Threads, Cl!NoReply(t) PROVE Starting'
  <2>0. Cl!Raise(t, "wait") 
    BY <1>15 DEF Cl!NoReply
  <2>1. t \in Cl!Threads
    BY ThreadNames DEF Cl!Threads
  <2>2. at[t] # "none" /\ \E x : x \notin {"try", "start", "identified"} /\ at' = [at EXCEPT ![t] = x]
    BY <2>1, <2>0, CallRaises
  <2>3. self'.io = self.io /\ link' = link /\ (overtaken => overtaken')
    BY <1>15, <2>0, CallRaises DEF Cl!NoReply, Cl!Raise, Cl!Go, Cl!Purpose
  <2>4. PICK x : x \notin {"try", "start", "identified"} /\ at' = [at EXCEPT ![t] = x]
    BY <2>2
  <2> HIDE DEF ClTyped, Starting
  <2> QED
    BY <2>1, <2>2, <2>3, <2>4, StartingKept
<1>16. ASSUME NEW t \in Cl!Threads, Cl!Stop(t) PROVE Starting'
  <2>1. t \in Cl!Threads
    BY ThreadNames DEF Cl!Threads
  <2>2. at[t] # "none" /\ \E x : x \notin {"try", "start", "identified"} /\ at' = [at EXCEPT ![t] = x]
    BY <1>16, <2>1 DEF Cl!Stop, Cl!Go, Cl!AfterDisconnect
  <2>3. self'.io = self.io /\ link' = link /\ (overtaken => overtaken')
    BY <1>16 DEF Cl!Stop, Cl!Go, Cl!AfterDisconnect
  <2>4. PICK x : x \notin {"try", "start", "identified"} /\ at' = [at EXCEPT ![t] = x]
    BY <2>2
  <2> HIDE DEF ClTyped, Starting
  <2> QED
    BY <2>1, <2>2, <2>3, <2>4, StartingKept
<1>17. ASSUME NEW t \in Cl!Threads, Cl!Drain(t) PROVE Starting'
  BY <1>17, ThreadNames, MadeKept DEF Cl!Drain, Cl!Go
<1>18. ASSUME NEW t \in Cl!Threads, Cl!TestTxThread(t) PROVE Starting'
  <2>1. t \in Cl!Threads
    BY ThreadNames DEF Cl!Threads
  <2>2. at[t] # "none" /\ \E x : x \notin {"try", "start", "identified"} /\ at' = [at EXCEPT ![t] = x]
    BY <1>18, <2>1 DEF Cl!TestTxThread, Cl!Go
  <2>3. self'.io = self.io /\ link' = link /\ (overtaken => overtaken')
    BY <1>18 DEF Cl!TestTxThread, Cl!Go
  <2>4. PICK x : x \notin {"try", "start", "identified"} /\ at' = [at EXCEPT ![t] = x]
    BY <2>2
  <2> HIDE DEF ClTyped, Starting
  <2> QED
    BY <2>1, <2>2, <2>3, <2>4, StartingKept
<1>19. ASSUME NEW t \in Cl!Threads, Cl!TestRxThread(t) PROVE Starting'
  <2>1. t \in Cl!Threads
    BY ThreadNames DEF Cl!Threads
  <2>2. at[t] # "none" /\ \E x : x \notin {"try", "start", "identified"} /\ at' = [at EXCEPT ![t] = x]
    BY <1>19, <2>1 DEF Cl!TestRxThread, Cl!Go
  <2>3. self'.io = self.io /\ link' = link /\ (overtaken => overtaken')
    BY <1>19 DEF Cl!TestRxThread, Cl!Go
  <2>4. PICK x : x \notin {"try", "start", "identified"} /\ at' = [at EXCEPT ![t] = x]
    BY <2>2
  <2> HIDE DEF ClTyped, Starting
  <2> QED
    BY <2>1, <2>2, <2>3, <2>4, StartingKept
<1>20. ASSUME NEW t \in Cl!Threads, Cl!JoinFails(t) PROVE Starting'
  <2>1. t \in Cl!Threads
    BY ThreadNames DEF Cl!Threads
  <2>2. at[t] # "none" /\ \E x : x \notin {"try", "start", "identified"} /\ at' = [at EXCEPT ![t] = x]
    BY <1>20, <2>1 DEF Cl!JoinFails, Cl!Go, Cl!AfterFailure
  <2>3. self'.io = self.io /\ link' = link /\ (overtaken => overtaken')
    BY <1>20 DEF Cl!JoinFails, Cl!Go, Cl!AfterFailure
  <2>4. PICK x : x \notin {"try", "start", "identified"} /\ at' = [at EXCEPT ![t] = x]
    BY <2>2
  <2> HIDE DEF ClTyped, Starting
  <2> QED
    BY <2>1, <2>2, <2>3, <2>4, StartingKept
<1>21. ASSUME NEW t \in Cl!Threads, Cl!Joined(t) PROVE Starting'
  <2>1. t \in Cl!Threads
    BY ThreadNames DEF Cl!Threads
  <2>2. at[t] # "none" /\ \E x : x \notin {"try", "start", "identified"} /\ at' = [at EXCEPT ![t] = x]
    BY <1>21, <2>1 DEF Cl!Joined, Cl!Go, Cl!Overtakes
  <2>3. self'.io = self.io /\ link' = link /\ (overtaken => overtaken')
    <3>1. CASE Cl!Go(t, "join conn", "drain") /\ self' = [self EXCEPT !.connthread = Cl!Nobody] /\ UNCHANGED overtaken
      BY <1>21, <3>1 DEF Cl!Joined
    <3>2. CASE Cl!Go(t, "join tx", "rx") /\ self' = [self EXCEPT !.txthread = Cl!Nobody]
               /\ Cl!Overtakes(self.txthread \notin {ref[t], Cl!Nobody})
      BY <1>21, <3>2 DEF Cl!Joined, Cl!Overtakes
    <3>3. CASE Cl!Go(t, "join rx", "close") /\ self' = [self EXCEPT !.rxthread = Cl!Nobody]
               /\ Cl!Overtakes(self.rxthread \notin {ref[t], Cl!Nobody})
      BY <1>21, <3>3 DEF Cl!Joined, Cl!Overtakes
    <3> QED
      BY <1>21, <3>1, <3>2, <3>3 DEF Cl!Joined
  <2>4. PICK x : x \notin {"try", "start", "identified"} /\ at' = [at EXCEPT ![t] = x]
    BY <2>2
  <2> HIDE DEF ClTyped, Starting
  <2> QED
    BY <2>1, <2>2, <2>3, <2>4, StartingKept
<1>22. ASSUME NEW t \in Cl!Threads, Cl!Close(t) PROVE Starting'
  <2>1. at[t] = "close" /\ \E x : x \notin {"try", "start", "identified"} /\ at' = [at EXCEPT ![t] = x]
    BY <1>22 DEF Cl!Close, Cl!Go, Cl!AfterDisconnect
  <2>2. /\ self'.io = Cl!NoLink
        /\ overtaken' = (overtaken \/ self.io \notin since[t] \cup {Cl!NoLink})
    BY <1>22 DEF Cl!Close, Cl!Overtakes
  <2>3. Cl!Made' = Cl!Made
    <3>1. \A n \in Cl!Links : link[n] = "none" => n # self.io
      BY LinksAssumption DEF Numbered, Cl!Links, Cl!NoLink
    <3>2. \A n \in Cl!Links : link'[n] # "none" <=> link[n] # "none"
      BY <1>22, <3>1 DEF Cl!Close
    <3> QED
      BY <3>2, MadeKept
  <2>4. \A u \in Cl!Threads :
          /\ at'[u] \in {"try", "start", "identified"} => at'[u] = at[u]
          /\ at[u] = "none" => at'[u] = "none"
    BY <2>1
  <2>5. ASSUME NEW u \in Cl!Threads, at[u] \in {"start", "identified"} PROVE overtaken'
    <3>1. Cl!Made \in Cl!Links /\ at[Cl!Rx(Cl!Made)] = "none" /\ (~overtaken => self.io = Cl!Made)
      BY <2>5
    <3>2. Cl!Made \notin since[t] /\ Cl!Made # Cl!NoLink
      BY <3>1, LinksAssumption DEF Numbered, Cl!Serving, Cl!Links, Cl!NoLink
    <3> QED
      BY <2>2, <3>1, <3>2
  <2>6. Cl!Made \in Cl!Links => Cl!Rx(Cl!Made) \in Cl!Threads
    BY ThreadNames
  <2> QED
    BY <2>2, <2>3, <2>4, <2>5, <2>6
<1>23. ASSUME NEW n \in Cl!Links, Cl!TxLoop(n) PROVE Starting'
  <2>1. Cl!Tx(n) \in Cl!Threads
    BY ThreadNames DEF Cl!Threads
  <2>2. at[Cl!Tx(n)] # "none" /\ \E x : x \notin {"try", "start", "identified"} /\ at' = [at EXCEPT ![Cl!Tx(n)] = x]
    BY <1>23, <2>1 DEF Cl!TxLoop, Cl!Go
  <2>3. self'.io = self.io /\ link' = link /\ (overtaken => overtaken')
    BY <1>23 DEF Cl!TxLoop, Cl!Go
  <2>4. PICK x : x \notin {"try", "start", "identified"} /\ at' = [at EXCEPT ![Cl!Tx(n)] = x]
    BY <2>2
  <2> HIDE DEF ClTyped, Starting
  <2> QED
    BY <2>1, <2>2, <2>3, <2>4, StartingKept
<1>24. ASSUME NEW n \in Cl!Links, Cl!TxGet(n) PROVE Starting'
  <2>1. Cl!Tx(n) \in Cl!Threads
    BY ThreadNames DEF Cl!Threads
  <2>2. at[Cl!Tx(n)] # "none" /\ \E x : x \notin {"try", "start", "identified"} /\ at' = [at EXCEPT ![Cl!Tx(n)] = x]
    BY <1>24, <2>1 DEF Cl!TxGet, Cl!Go
  <2>3. self'.io = self.io /\ link' = link /\ (overtaken => overtaken')
    BY <1>24 DEF Cl!TxGet, Cl!Go
  <2>4. PICK x : x \notin {"try", "start", "identified"} /\ at' = [at EXCEPT ![Cl!Tx(n)] = x]
    BY <2>2
  <2> HIDE DEF ClTyped, Starting
  <2> QED
    BY <2>1, <2>2, <2>3, <2>4, StartingKept
<1>25. ASSUME NEW n \in Cl!Links, Cl!TxSend(n) PROVE Starting'
  <2>1. Cl!Tx(n) \in Cl!Threads
    BY ThreadNames DEF Cl!Threads
  <2>2. at[Cl!Tx(n)] # "none" /\ \E x : x \notin {"try", "start", "identified"} /\ at' = [at EXCEPT ![Cl!Tx(n)] = x]
    BY <1>25, <2>1 DEF Cl!TxSend, Cl!Go
  <2>3. self'.io = self.io /\ link' = link /\ (overtaken => overtaken')
    BY <1>25 DEF Cl!TxSend, Cl!Go
  <2>4. PICK x : x \notin {"try", "start", "identified"} /\ at' = [at EXCEPT ![Cl!Tx(n)] = x]
    BY <2>2
  <2> HIDE DEF ClTyped, Starting
  <2> QED
    BY <2>1, <2>2, <2>3, <2>4, StartingKept
<1>26. ASSUME NEW n \in Cl!Links, Cl!TxEnd(n) PROVE Starting'
  <2>1. Cl!Tx(n) \in Cl!Threads
    BY ThreadNames DEF Cl!Threads
  <2>2. at[Cl!Tx(n)] # "none" /\ \E x : x \notin {"try", "start", "identified"} /\ at' = [at EXCEPT ![Cl!Tx(n)] = x]
    BY <1>26, <2>1 DEF Cl!TxEnd, Cl!Go, Cl!Overtakes
  <2>3. self'.io = self.io /\ link' = link /\ (overtaken => overtaken')
    BY <1>26 DEF Cl!TxEnd, Cl!Go, Cl!Overtakes
  <2>4. PICK x : x \notin {"try", "start", "identified"} /\ at' = [at EXCEPT ![Cl!Tx(n)] = x]
    BY <2>2
  <2> HIDE DEF ClTyped, Starting
  <2> QED
    BY <2>1, <2>2, <2>3, <2>4, StartingKept
<1>27. ASSUME NEW n \in Cl!Links, Cl!RxStops(n) PROVE Starting'
  <2>1. Cl!Rx(n) \in Cl!Threads
    BY ThreadNames DEF Cl!Threads
  <2>2. at[Cl!Rx(n)] # "none" /\ \E x : x \notin {"try", "start", "identified"} /\ at' = [at EXCEPT ![Cl!Rx(n)] = x]
    BY <1>27, <2>1 DEF Cl!RxStops, Cl!Go
  <2>3. self'.io = self.io /\ link' = link /\ (overtaken => overtaken')
    BY <1>27 DEF Cl!RxStops, Cl!Go
  <2>4. PICK x : x \notin {"try", "start", "identified"} /\ at' = [at EXCEPT ![Cl!Rx(n)] = x]
    BY <2>2
  <2> HIDE DEF ClTyped, Starting
  <2> QED
    BY <2>1, <2>2, <2>3, <2>4, StartingKept
<1>28. ASSUME NEW n \in Cl!Links, Cl!Receive(n) PROVE Starting'
  <2>1. self' = self /\ at' = at /\ link' = link /\ overtaken' = overtaken
    BY <1>28 DEF Cl!Receive
  <2> QED
    BY <2>1, MadeKept
<1>29. ASSUME NEW n \in Cl!Links, Cl!Heartbeat(n) PROVE Starting'
  <2>1. Cl!Rx(n) \in Cl!Threads
    BY ThreadNames DEF Cl!Threads
  <2>2. at[Cl!Rx(n)] # "none" /\ \E x : x \notin {"try", "start", "identified"} /\ at' = [at EXCEPT ![Cl!Rx(n)] = x]
    BY <1>29, <2>1 DEF Cl!Heartbeat, Cl!CallConnect, Cl!Go
  <2>3. self'.io = self.io /\ link' = link /\ (overtaken => overtaken')
    BY <1>29 DEF Cl!Heartbeat, Cl!CallConnect, Cl!Go
  <2>4. PICK x : x \notin {"try", "start", "identified"} /\ at' = [at EXCEPT ![Cl!Rx(n)] = x]
    BY <2>2
  <2> HIDE DEF ClTyped, Starting
  <2> QED
    BY <2>1, <2>2, <2>3, <2>4, StartingKept
<1>30. ASSUME NEW n \in Cl!Links, Cl!ConnectionClosed(n) PROVE Starting'
  <2>1. Cl!Rx(n) \in Cl!Threads
    BY ThreadNames DEF Cl!Threads
  <2>2. at[Cl!Rx(n)] # "none" /\ \E x : x \notin {"try", "start", "identified"} /\ at' = [at EXCEPT ![Cl!Rx(n)] = x]
    BY <1>30, <2>1 DEF Cl!ConnectionClosed, Cl!Go
  <2>3. self'.io = self.io /\ link' = link /\ (overtaken => overtaken')
    BY <1>30 DEF Cl!ConnectionClosed, Cl!Go
  <2>4. PICK x : x \notin {"try", "start", "identified"} /\ at' = [at EXCEPT ![Cl!Rx(n)] = x]
    BY <2>2
  <2> HIDE DEF ClTyped, Starting
  <2> QED
    BY <2>1, <2>2, <2>3, <2>4, StartingKept
<1>31. ASSUME NEW n \in Cl!Links, Cl!RxFails(n) PROVE Starting'
  <2>1. Cl!Rx(n) \in Cl!Threads
    BY ThreadNames DEF Cl!Threads
  <2>2. at[Cl!Rx(n)] # "none" /\ \E x : x \notin {"try", "start", "identified"} /\ at' = [at EXCEPT ![Cl!Rx(n)] = x]
    BY <1>31, <2>1 DEF Cl!RxFails, Cl!Go
  <2>3. self'.io = self.io /\ link' = link /\ (overtaken => overtaken')
    BY <1>31 DEF Cl!RxFails, Cl!Go
  <2>4. PICK x : x \notin {"try", "start", "identified"} /\ at' = [at EXCEPT ![Cl!Rx(n)] = x]
    BY <2>2
  <2> HIDE DEF ClTyped, Starting
  <2> QED
    BY <2>1, <2>2, <2>3, <2>4, StartingKept
<1>32. ASSUME NEW n \in Cl!Links, Cl!RxEnd(n) PROVE Starting'
  <2>1. Cl!Rx(n) \in Cl!Threads
    BY ThreadNames DEF Cl!Threads
  <2>2. at[Cl!Rx(n)] # "none" /\ \E x : x \notin {"try", "start", "identified"} /\ at' = [at EXCEPT ![Cl!Rx(n)] = x]
    BY <1>32, <2>1 DEF Cl!RxEnd, Cl!Go, Cl!Overtakes
  <2>3. self'.io = self.io /\ link' = link /\ (overtaken => overtaken')
    BY <1>32 DEF Cl!RxEnd, Cl!Go, Cl!Overtakes
  <2>4. PICK x : x \notin {"try", "start", "identified"} /\ at' = [at EXCEPT ![Cl!Rx(n)] = x]
    BY <2>2
  <2> HIDE DEF ClTyped, Starting
  <2> QED
    BY <2>1, <2>2, <2>3, <2>4, StartingKept
<1>33. ASSUME NEW n \in Cl!Links, Cl!RxClosed(n) PROVE Starting'
  BY <1>33, ThreadNames, MadeKept DEF Cl!RxClosed, Cl!Go
<1>34. ASSUME NEW n \in Cl!Links, Cl!Reconnect(n) PROVE Starting'
  <2>1. Cl!Rc(n) \in Cl!Threads
    BY ThreadNames DEF Cl!Threads
  <2>2. at[Cl!Rc(n)] # "none" /\ \E x : x \notin {"try", "start", "identified"} /\ at' = [at EXCEPT ![Cl!Rc(n)] = x]
    BY <1>34, <2>1 DEF Cl!Reconnect, Cl!CallConnect, Cl!Go
  <2>3. self'.io = self.io /\ link' = link /\ (overtaken => overtaken')
    BY <1>34 DEF Cl!Reconnect, Cl!CallConnect, Cl!Go
  <2>4. PICK x : x \notin {"try", "start", "identified"} /\ at' = [at EXCEPT ![Cl!Rc(n)] = x]
    BY <2>2
  <2> HIDE DEF ClTyped, Starting
  <2> QED
    BY <2>1, <2>2, <2>3, <2>4, StartingKept
<1>35. ASSUME NEW n \in Cl!Links, Cl!ReconnectFailed(n) PROVE Starting'
  <2>1. Cl!Rc(n) \in Cl!Threads
    BY ThreadNames DEF Cl!Threads
  <2>2. at[Cl!Rc(n)] # "none" /\ \E x : x \notin {"try", "start", "identified"} /\ at' = [at EXCEPT ![Cl!Rc(n)] = x]
    BY <1>35, <2>1 DEF Cl!ReconnectFailed, Cl!Go
  <2>3. self'.io = self.io /\ link' = link /\ (overtaken => overtaken')
    BY <1>35 DEF Cl!ReconnectFailed, Cl!Go
  <2>4. PICK x : x \notin {"try", "start", "identified"} /\ at' = [at EXCEPT ![Cl!Rc(n)] = x]
    BY <2>2
  <2> HIDE DEF ClTyped, Starting
  <2> QED
    BY <2>1, <2>2, <2>3, <2>4, StartingKept
<1>36. ASSUME NEW n \in Cl!Links, Cl!ReconnectOver(n) PROVE Starting'
  <2>1. Cl!Rc(n) \in Cl!Threads
    BY ThreadNames DEF Cl!Threads
  <2>2. at[Cl!Rc(n)] # "none" /\ \E x : x \notin {"try", "start", "identified"} /\ at' = [at EXCEPT ![Cl!Rc(n)] = x]
    BY <1>36, <2>1 DEF Cl!ReconnectOver, Cl!Go
  <2>3. self'.io = self.io /\ link' = link /\ (overtaken => overtaken')
    BY <1>36 DEF Cl!ReconnectOver, Cl!Go
  <2>4. PICK x : x \notin {"try", "start", "identified"} /\ at' = [at EXCEPT ![Cl!Rc(n)] = x]
    BY <2>2
  <2> HIDE DEF ClTyped, Starting
  <2> QED
    BY <2>1, <2>2, <2>3, <2>4, StartingKept
<1>37. ASSUME Cl!Lose PROVE Starting'
  BY <1>37, MadeKept DEF Cl!Lose
<1> QED
  BY <1>1, <1>2, <1>3, <1>4, <1>5, <1>6, <1>7, <1>8, <1>9, <1>10, <1>11, <1>12, <1>13, <1>14, <1>15, <1>16, <1>17, <1>18, <1>19, <1>20, <1>21, <1>22, <1>23, <1>24, <1>25, <1>26, <1>27, <1>28, <1>29, <1>30, <1>31, <1>32, <1>33, <1>34, <1>35, <1>36, <1>37
     DEF Cl!Next, Cl!Connecting, Cl!Disconnecting, Cl!TxStep, Cl!RxStep, Cl!RcStep

-----------------------------------------------------------------------------
(* The connection and the threads reading from it.                         *)

\* A connection is closed before the next one is made.
LEMMA TidyStep ==
  ASSUME ClTyped, Stacked, Starting, Tidy, Cl!Next PROVE Tidy'
<1> USE DEF ClTyped, Attributes, Tidy, Cl!NoLeak, Cl!env
<1>1. ASSUME NEW u \in Clients, Cl!Request(u) PROVE Tidy'
  BY <1>1 DEF Cl!Request, Cl!CallConnect, Cl!Go
<1>2. ASSUME NEW u \in Clients, Cl!Disconnect(u) PROVE Tidy'
  BY <1>2 DEF Cl!Disconnect, Cl!Go
<1>3. ASSUME NEW t \in Cl!Threads, Cl!Lock(t) PROVE Tidy'
  <2>1. link' = link /\ self'.io = self.io
    <3>1. CASE self.io # Cl!NoLink
      BY <1>3, <3>1 DEF Cl!Lock
    <3>2. CASE self.io = Cl!NoLink
      BY <1>3, <3>2 DEF Cl!Lock
    <3> QED
      BY <3>1, <3>2
  <2> QED
    BY <2>1
<1>4. ASSUME NEW t \in Cl!Threads, Cl!TryShutdown(t) PROVE Tidy'
  BY <1>4 DEF Cl!TryShutdown, Cl!ReturnFromConnect, Cl!Released, Cl!Purpose, Cl!Go
<1>5. ASSUME NEW t \in Cl!Threads, Cl!Open(t) PROVE Tidy'
  BY <1>5, MadeRange, LinksAssumption DEF Cl!Open, Cl!Go, Starting, Cl!Links, Cl!NoLink
<1>6. ASSUME NEW t \in Cl!Threads, Cl!Refused(t) PROVE Tidy'
  BY <1>6 DEF Cl!Refused, Cl!Go
<1>7. ASSUME NEW t \in Cl!Threads, Cl!Identified(t) PROVE Tidy'
  BY <1>7 DEF Cl!Identified, Cl!Go
<1>8. ASSUME NEW t \in Cl!Threads, Cl!NotIdentified(t) PROVE Tidy'
  BY <1>8 DEF Cl!NotIdentified, Cl!Go
<1>9. ASSUME NEW t \in Cl!Threads, Cl!Start(t) PROVE Tidy'
  BY <1>9 DEF Cl!Start
<1>10. ASSUME NEW t \in Cl!Threads, Cl!Connect(t) PROVE Tidy'
  BY <1>10 DEF Cl!Connect, Cl!ReturnFromConnect, Cl!Go, Cl!Purpose, Cl!Released
<1>11. ASSUME NEW t \in Cl!Threads, Cl!GiveUp(t) PROVE Tidy'
  BY <1>11 DEF Cl!GiveUp, Cl!Raise, Cl!Go, Cl!Purpose, Cl!Released
<1>12. ASSUME NEW t \in Cl!Threads, Cl!Retry(t) PROVE Tidy'
  BY <1>12 DEF Cl!Retry, Cl!Go
<1>13. ASSUME NEW t \in Cl!Threads, Cl!Put(t) PROVE Tidy'
  BY <1>13 DEF Cl!Put, Cl!Go
<1>14. ASSUME NEW t \in Cl!Threads, Cl!GetReply(t) PROVE Tidy'
  <2>1. link' = link /\ self'.io = self.io
    BY <1>14, ReplyCame DEF Cl!GetReply
  <2> QED
    BY <2>1
<1>15. ASSUME NEW t \in Cl!Threads, Cl!NoReply(t) PROVE Tidy'
  BY <1>15 DEF Cl!NoReply, Cl!Raise, Cl!Go, Cl!Purpose
<1>16. ASSUME NEW t \in Cl!Threads, Cl!Stop(t) PROVE Tidy'
  BY <1>16 DEF Cl!Stop, Cl!Go, Cl!AfterDisconnect
<1>17. ASSUME NEW t \in Cl!Threads, Cl!Drain(t) PROVE Tidy'
  BY <1>17 DEF Cl!Drain, Cl!Go
<1>18. ASSUME NEW t \in Cl!Threads, Cl!TestTxThread(t) PROVE Tidy'
  BY <1>18 DEF Cl!TestTxThread, Cl!Go
<1>19. ASSUME NEW t \in Cl!Threads, Cl!TestRxThread(t) PROVE Tidy'
  BY <1>19 DEF Cl!TestRxThread, Cl!Go
<1>20. ASSUME NEW t \in Cl!Threads, Cl!JoinFails(t) PROVE Tidy'
  BY <1>20 DEF Cl!JoinFails, Cl!Go, Cl!AfterFailure
<1>21. ASSUME NEW t \in Cl!Threads, Cl!Joined(t) PROVE Tidy'
  BY <1>21 DEF Cl!Joined, Cl!Go, Cl!Overtakes
<1>22. ASSUME NEW t \in Cl!Threads, Cl!Close(t) PROVE Tidy'
  BY <1>22 DEF Cl!Close, Cl!Go, Cl!AfterDisconnect, Cl!Overtakes
<1>23. ASSUME NEW n \in Cl!Links, Cl!TxLoop(n) PROVE Tidy'
  BY <1>23 DEF Cl!TxLoop, Cl!Go
<1>24. ASSUME NEW n \in Cl!Links, Cl!TxGet(n) PROVE Tidy'
  BY <1>24 DEF Cl!TxGet, Cl!Go
<1>25. ASSUME NEW n \in Cl!Links, Cl!TxSend(n) PROVE Tidy'
  BY <1>25 DEF Cl!TxSend, Cl!Go
<1>26. ASSUME NEW n \in Cl!Links, Cl!TxEnd(n) PROVE Tidy'
  BY <1>26 DEF Cl!TxEnd, Cl!Go, Cl!Overtakes
<1>27. ASSUME NEW n \in Cl!Links, Cl!RxStops(n) PROVE Tidy'
  BY <1>27 DEF Cl!RxStops, Cl!Go
<1>28. ASSUME NEW n \in Cl!Links, Cl!Receive(n) PROVE Tidy'
  BY <1>28 DEF Cl!Receive
<1>29. ASSUME NEW n \in Cl!Links, Cl!Heartbeat(n) PROVE Tidy'
  BY <1>29 DEF Cl!Heartbeat, Cl!CallConnect, Cl!Go
<1>30. ASSUME NEW n \in Cl!Links, Cl!ConnectionClosed(n) PROVE Tidy'
  BY <1>30 DEF Cl!ConnectionClosed, Cl!Go
<1>31. ASSUME NEW n \in Cl!Links, Cl!RxFails(n) PROVE Tidy'
  BY <1>31 DEF Cl!RxFails, Cl!Go
<1>32. ASSUME NEW n \in Cl!Links, Cl!RxEnd(n) PROVE Tidy'
  BY <1>32 DEF Cl!RxEnd, Cl!Go, Cl!Overtakes
<1>33. ASSUME NEW n \in Cl!Links, Cl!RxClosed(n) PROVE Tidy'
  BY <1>33 DEF Cl!RxClosed, Cl!Go
<1>34. ASSUME NEW n \in Cl!Links, Cl!Reconnect(n) PROVE Tidy'
  BY <1>34 DEF Cl!Reconnect, Cl!CallConnect, Cl!Go
<1>35. ASSUME NEW n \in Cl!Links, Cl!ReconnectFailed(n) PROVE Tidy'
  BY <1>35 DEF Cl!ReconnectFailed, Cl!Go
<1>36. ASSUME NEW n \in Cl!Links, Cl!ReconnectOver(n) PROVE Tidy'
  BY <1>36 DEF Cl!ReconnectOver, Cl!Go
<1>37. ASSUME Cl!Lose PROVE Tidy'
  BY <1>37 DEF Cl!Lose
<1> QED
  BY <1>1, <1>2, <1>3, <1>4, <1>5, <1>6, <1>7, <1>8, <1>9, <1>10, <1>11, <1>12, <1>13, <1>14, <1>15, <1>16, <1>17, <1>18, <1>19, <1>20, <1>21, <1>22, <1>23, <1>24, <1>25, <1>26, <1>27, <1>28, <1>29, <1>30, <1>31, <1>32, <1>33, <1>34, <1>35, <1>36, <1>37
     DEF Cl!Next, Cl!Connecting, Cl!Disconnecting, Cl!TxStep, Cl!RxStep, Cl!RcStep

\* No thread begins to read but the one just started.
LEMMA LoopKept ==
  ASSUME ClTyped, Stacked, Numbered, Starting, Cl!Next, \A t \in Cl!Threads : ~Cl!Start(t) PROVE \A m \in Cl!Links : InLoop(m)' => InLoop(m)
<1> USE DEF ClTyped, InLoop, Cl!env, Stacked, Cl!Calling, Cl!Closing
<1>1. ASSUME NEW u \in Clients, Cl!Request(u) PROVE \A m \in Cl!Links : InLoop(m)' => InLoop(m)
  BY <1>1, ThreadNames DEF Cl!Request, Cl!CallConnect, Cl!Go, Cl!Threads
<1>2. ASSUME NEW u \in Clients, Cl!Disconnect(u) PROVE \A m \in Cl!Links : InLoop(m)' => InLoop(m)
  BY <1>2, ThreadNames DEF Cl!Disconnect, Cl!Go, Cl!Threads
<1>3. ASSUME NEW t \in Cl!Threads, Cl!Lock(t) PROVE \A m \in Cl!Links : InLoop(m)' => InLoop(m)
  <2>1. CASE self.io # Cl!NoLink
    <3>1. Cl!ReturnFromConnect(t, "lock")
      BY <1>3, <2>1 DEF Cl!Lock
    <3> QED
      BY <3>1, ConnectReturns, ThreadNames
  <2>2. CASE self.io = Cl!NoLink
    BY <1>3, <2>2, ThreadNames DEF Cl!Lock, Cl!Go
  <2> QED
    BY <2>1, <2>2
<1>4. ASSUME NEW t \in Cl!Threads, Cl!TryShutdown(t) PROVE \A m \in Cl!Links : InLoop(m)' => InLoop(m)
  <2>1. Cl!ReturnFromConnect(t, "try")
    BY <1>4 DEF Cl!TryShutdown
  <2> QED
    BY <2>1, ConnectReturns, ThreadNames
<1>5. ASSUME NEW t \in Cl!Threads, Cl!Open(t) PROVE \A m \in Cl!Links : InLoop(m)' => InLoop(m)
  BY <1>5, ThreadNames DEF Cl!Open, Cl!Go
<1>6. ASSUME NEW t \in Cl!Threads, Cl!Refused(t) PROVE \A m \in Cl!Links : InLoop(m)' => InLoop(m)
  BY <1>6, ThreadNames DEF Cl!Refused, Cl!Go
<1>7. ASSUME NEW t \in Cl!Threads, Cl!Identified(t) PROVE \A m \in Cl!Links : InLoop(m)' => InLoop(m)
  BY <1>7, ThreadNames DEF Cl!Identified, Cl!Go
<1>8. ASSUME NEW t \in Cl!Threads, Cl!NotIdentified(t) PROVE \A m \in Cl!Links : InLoop(m)' => InLoop(m)
  BY <1>8, ThreadNames DEF Cl!NotIdentified, Cl!Go
<1>9. ASSUME NEW t \in Cl!Threads, Cl!Start(t) PROVE \A m \in Cl!Links : InLoop(m)' => InLoop(m)
  BY <1>9
<1>10. ASSUME NEW t \in Cl!Threads, Cl!Connect(t) PROVE \A m \in Cl!Links : InLoop(m)' => InLoop(m)
  <2>1. Cl!ReturnFromConnect(t, "connected")
    BY <1>10 DEF Cl!Connect
  <2> QED
    BY <2>1, ConnectReturns, ThreadNames
<1>11. ASSUME NEW t \in Cl!Threads, Cl!GiveUp(t) PROVE \A m \in Cl!Links : InLoop(m)' => InLoop(m)
  <2>1. Cl!Raise(t, "except")
    BY <1>11 DEF Cl!GiveUp
  <2> QED
    BY <2>1, CallRaises, ThreadNames
<1>12. ASSUME NEW t \in Cl!Threads, Cl!Retry(t) PROVE \A m \in Cl!Links : InLoop(m)' => InLoop(m)
  BY <1>12, ThreadNames DEF Cl!Retry, Cl!Go
<1>13. ASSUME NEW t \in Cl!Threads, Cl!Put(t) PROVE \A m \in Cl!Links : InLoop(m)' => InLoop(m)
  BY <1>13, ThreadNames DEF Cl!Put, Cl!Go
<1>14. ASSUME NEW t \in Cl!Threads, Cl!GetReply(t) PROVE \A m \in Cl!Links : InLoop(m)' => InLoop(m)
  BY <1>14, ReplyCame, ThreadNames DEF Cl!GetReply, Cl!Go, Cl!Purpose
<1>15. ASSUME NEW t \in Cl!Threads, Cl!NoReply(t) PROVE \A m \in Cl!Links : InLoop(m)' => InLoop(m)
  <2>1. Cl!Raise(t, "wait")
    BY <1>15 DEF Cl!NoReply
  <2> QED
    BY <2>1, CallRaises, ThreadNames
<1>16. ASSUME NEW t \in Cl!Threads, Cl!Stop(t) PROVE \A m \in Cl!Links : InLoop(m)' => InLoop(m)
  BY <1>16, ThreadNames DEF Cl!Stop, Cl!Go, Cl!AfterDisconnect
<1>17. ASSUME NEW t \in Cl!Threads, Cl!Drain(t) PROVE \A m \in Cl!Links : InLoop(m)' => InLoop(m)
  BY <1>17, ThreadNames DEF Cl!Drain, Cl!Go
<1>18. ASSUME NEW t \in Cl!Threads, Cl!TestTxThread(t) PROVE \A m \in Cl!Links : InLoop(m)' => InLoop(m)
  BY <1>18, ThreadNames DEF Cl!TestTxThread, Cl!Go
<1>19. ASSUME NEW t \in Cl!Threads, Cl!TestRxThread(t) PROVE \A m \in Cl!Links : InLoop(m)' => InLoop(m)
  BY <1>19, ThreadNames DEF Cl!TestRxThread, Cl!Go
<1>20. ASSUME NEW t \in Cl!Threads, Cl!JoinFails(t) PROVE \A m \in Cl!Links : InLoop(m)' => InLoop(m)
  BY <1>20, ThreadNames DEF Cl!JoinFails, Cl!Go, Cl!AfterFailure
<1>21. ASSUME NEW t \in Cl!Threads, Cl!Joined(t) PROVE \A m \in Cl!Links : InLoop(m)' => InLoop(m)
  BY <1>21, ThreadNames DEF Cl!Joined, Cl!Go, Cl!Overtakes
<1>22. ASSUME NEW t \in Cl!Threads, Cl!Close(t) PROVE \A m \in Cl!Links : InLoop(m)' => InLoop(m)
  BY <1>22, ThreadNames DEF Cl!Close, Cl!Go, Cl!AfterDisconnect, Cl!Overtakes
<1>23. ASSUME NEW n \in Cl!Links, Cl!TxLoop(n) PROVE \A m \in Cl!Links : InLoop(m)' => InLoop(m)
  BY <1>23, ThreadNames DEF Cl!TxLoop, Cl!Go
<1>24. ASSUME NEW n \in Cl!Links, Cl!TxGet(n) PROVE \A m \in Cl!Links : InLoop(m)' => InLoop(m)
  BY <1>24, ThreadNames DEF Cl!TxGet, Cl!Go
<1>25. ASSUME NEW n \in Cl!Links, Cl!TxSend(n) PROVE \A m \in Cl!Links : InLoop(m)' => InLoop(m)
  BY <1>25, ThreadNames DEF Cl!TxSend, Cl!Go
<1>26. ASSUME NEW n \in Cl!Links, Cl!TxEnd(n) PROVE \A m \in Cl!Links : InLoop(m)' => InLoop(m)
  BY <1>26, ThreadNames DEF Cl!TxEnd, Cl!Go, Cl!Overtakes
<1>27. ASSUME NEW n \in Cl!Links, Cl!RxStops(n) PROVE \A m \in Cl!Links : InLoop(m)' => InLoop(m)
  BY <1>27, ThreadNames DEF Cl!RxStops, Cl!Go
<1>28. ASSUME NEW n \in Cl!Links, Cl!Receive(n) PROVE \A m \in Cl!Links : InLoop(m)' => InLoop(m)
  BY <1>28, ThreadNames DEF Cl!Receive
<1>29. ASSUME NEW n \in Cl!Links, Cl!Heartbeat(n) PROVE \A m \in Cl!Links : InLoop(m)' => InLoop(m)
  BY <1>29, ThreadNames DEF Cl!Heartbeat, Cl!CallConnect, Cl!Go
<1>30. ASSUME NEW n \in Cl!Links, Cl!ConnectionClosed(n) PROVE \A m \in Cl!Links : InLoop(m)' => InLoop(m)
  BY <1>30, ThreadNames DEF Cl!ConnectionClosed, Cl!Go
<1>31. ASSUME NEW n \in Cl!Links, Cl!RxFails(n) PROVE \A m \in Cl!Links : InLoop(m)' => InLoop(m)
  BY <1>31, ThreadNames DEF Cl!RxFails, Cl!Go
<1>32. ASSUME NEW n \in Cl!Links, Cl!RxEnd(n) PROVE \A m \in Cl!Links : InLoop(m)' => InLoop(m)
  BY <1>32, ThreadNames DEF Cl!RxEnd, Cl!Go, Cl!Overtakes
<1>33. ASSUME NEW n \in Cl!Links, Cl!RxClosed(n) PROVE \A m \in Cl!Links : InLoop(m)' => InLoop(m)
  BY <1>33, ThreadNames DEF Cl!RxClosed, Cl!Go
<1>34. ASSUME NEW n \in Cl!Links, Cl!Reconnect(n) PROVE \A m \in Cl!Links : InLoop(m)' => InLoop(m)
  BY <1>34, ThreadNames DEF Cl!Reconnect, Cl!CallConnect, Cl!Go
<1>35. ASSUME NEW n \in Cl!Links, Cl!ReconnectFailed(n) PROVE \A m \in Cl!Links : InLoop(m)' => InLoop(m)
  BY <1>35, ThreadNames DEF Cl!ReconnectFailed, Cl!Go
<1>36. ASSUME NEW n \in Cl!Links, Cl!ReconnectOver(n) PROVE \A m \in Cl!Links : InLoop(m)' => InLoop(m)
  BY <1>36, ThreadNames DEF Cl!ReconnectOver, Cl!Go
<1>37. ASSUME Cl!Lose PROVE \A m \in Cl!Links : InLoop(m)' => InLoop(m)
  BY <1>37 DEF Cl!Lose
<1> QED
  BY <1>1, <1>2, <1>3, <1>4, <1>5, <1>6, <1>7, <1>8, <1>9, <1>10, <1>11, <1>12, <1>13, <1>14, <1>15, <1>16, <1>17, <1>18, <1>19, <1>20, <1>21, <1>22, <1>23, <1>24, <1>25, <1>26, <1>27, <1>28, <1>29, <1>30, <1>31, <1>32, <1>33, <1>34, <1>35, <1>36, <1>37
     DEF Cl!Next, Cl!Connecting, Cl!Disconnecting, Cl!TxStep, Cl!RxStep, Cl!RcStep

\* The threads of a new connection are started when none is reading.
LEMMA ReadingStart ==
  ASSUME ClTyped, Stacked, Numbered, Starting, Reading, Waiting, NEW t \in Cl!Threads, Cl!Start(t)
  PROVE  Reading' /\ Waiting'
<1> DEFINE k == Cl!Made  rx == Cl!Rx(Cl!Made)  tx == Cl!Tx(Cl!Made)
<1>1. /\ k \in Cl!Links /\ at[rx] = "none" /\ at[tx] = "none" /\ at[t] = "identified"
      /\ ~overtaken => self.io = k
  BY DEF Cl!Start, Starting, Numbered
<1>2. {rx, tx} \subseteq Cl!Threads /\ rx # t /\ tx # t
  BY <1>1, ThreadNames
<1>3. /\ at' = [at EXCEPT ![t] = "lock", ![rx] = "read", ![tx] = "loop"]
      /\ stack' = [stack EXCEPT ![t] = Append(@, "describe")]
      /\ self'.io = self.io /\ self'.rxthread = rx
      /\ ref' = ref /\ since' = since /\ overtaken' = overtaken
  BY DEF Cl!Start, ClTyped, Attributes, Cl!env, Cl!history
<1>4. ASSUME NEW m \in Cl!Links, m # k, InLoop(m)' PROVE InLoop(m)
  <2>1. Cl!Rx(m) \notin {rx, tx} /\ Cl!Rx(m) \in Cl!Threads
    BY <1>1, <1>4, ThreadNames
  <2>2. at'[Cl!Rx(m)] = IF Cl!Rx(m) = t THEN "lock" ELSE at[Cl!Rx(m)]
    BY <1>2, <1>3, <2>1 DEF ClTyped
  <2>3. Cl!Rx(m) # t => stack'[Cl!Rx(m)] = stack[Cl!Rx(m)]
    BY <1>3, <2>1 DEF ClTyped
  <2>4. Cl!Rx(m) = t => stack[Cl!Rx(m)] # << >>
    BY <1>1 DEF Stacked, Cl!Calling
  <2> QED
    BY <1>4, <2>2, <2>3, <2>4 DEF InLoop
<1>5. ASSUME ~overtaken, NEW m \in Cl!Links, m # k PROVE ~InLoop(m)
  BY <1>1, <1>5 DEF Reading
<1>6. Reading'
  <2> HIDE DEF k, rx, tx
  <2>1. ASSUME ~overtaken', NEW m \in Cl!Links, InLoop(m)'
        PROVE  self'.io = m /\ self'.rxthread = Cl!Rx(m)
    <3>1. m = k
      BY <1>3, <1>4, <1>5, <2>1
    <3> QED
      BY <1>1, <1>3, <2>1, <3>1 DEF rx, k
  <2> QED
    BY <2>1 DEF Reading
<1>7. ~overtaken => \A u \in Cl!Threads : self.io \notin since[u]
  <2>1. k \notin Cl!Serving
    BY <1>1 DEF Cl!Serving
  <2> QED
    BY <1>1, <2>1 DEF Numbered
<1> HIDE DEF k, rx, tx
<1>8. Waiting'
  BY <1>3, <1>7 DEF Waiting
<1> QED
  BY <1>6, <1>8

\* The connection of a thread which reads is not replaced.
LEMMA ReadingStep ==
  ASSUME ClTyped, Stacked, Starting, Reading, Waiting, Cl!Next, \A m \in Cl!Links : InLoop(m)' => InLoop(m), \A t \in Cl!Threads : ~Cl!Start(t) PROVE Reading'
<1> USE DEF ClTyped, Attributes, Reading, Cl!env, Cl!history
<1>1. ASSUME NEW u \in Clients, Cl!Request(u) PROVE Reading'
  BY <1>1 DEF Cl!Request, Cl!CallConnect, Cl!Go, Cl!Threads
<1>2. ASSUME NEW u \in Clients, Cl!Disconnect(u) PROVE Reading'
  BY <1>2 DEF Cl!Disconnect, Cl!Go, Cl!Threads
<1>3. ASSUME NEW t \in Cl!Threads, Cl!Lock(t) PROVE Reading'
  <2>1. self'.io = self.io /\ self'.rxthread = self.rxthread /\ overtaken' = overtaken
    <3>1. CASE self.io # Cl!NoLink
      BY <1>3, <3>1 DEF Cl!Lock
    <3>2. CASE self.io = Cl!NoLink
      BY <1>3, <3>2 DEF Cl!Lock
    <3> QED
      BY <3>1, <3>2
  <2> QED
    BY <2>1
<1>4. ASSUME NEW t \in Cl!Threads, Cl!TryShutdown(t) PROVE Reading'
  <2>1. self'.io = self.io /\ self'.rxthread = self.rxthread /\ overtaken' = overtaken
    BY <1>4 DEF Cl!TryShutdown
  <2> QED
    BY <2>1
<1>5. ASSUME NEW t \in Cl!Threads, Cl!Open(t) PROVE Reading'
  BY <1>5, LinksAssumption DEF Cl!Open, Cl!Go, Starting, Cl!Links, Cl!NoLink
<1>6. ASSUME NEW t \in Cl!Threads, Cl!Refused(t) PROVE Reading'
  BY <1>6 DEF Cl!Refused, Cl!Go
<1>7. ASSUME NEW t \in Cl!Threads, Cl!Identified(t) PROVE Reading'
  BY <1>7 DEF Cl!Identified, Cl!Go
<1>8. ASSUME NEW t \in Cl!Threads, Cl!NotIdentified(t) PROVE Reading'
  BY <1>8 DEF Cl!NotIdentified, Cl!Go
<1>9. ASSUME NEW t \in Cl!Threads, Cl!Start(t) PROVE Reading'
  BY <1>9
<1>10. ASSUME NEW t \in Cl!Threads, Cl!Connect(t) PROVE Reading'
  <2>1. self'.io = self.io /\ self'.rxthread = self.rxthread /\ overtaken' = overtaken
    BY <1>10 DEF Cl!Connect
  <2> QED
    BY <2>1
<1>11. ASSUME NEW t \in Cl!Threads, Cl!GiveUp(t) PROVE Reading'
  <2>1. self'.io = self.io /\ self'.rxthread = self.rxthread /\ overtaken' = overtaken
    BY <1>11 DEF Cl!GiveUp
  <2> QED
    BY <2>1
<1>12. ASSUME NEW t \in Cl!Threads, Cl!Retry(t) PROVE Reading'
  BY <1>12 DEF Cl!Retry, Cl!Go
<1>13. ASSUME NEW t \in Cl!Threads, Cl!Put(t) PROVE Reading'
  BY <1>13 DEF Cl!Put, Cl!Go
<1>14. ASSUME NEW t \in Cl!Threads, Cl!GetReply(t) PROVE Reading'
  <2>1. self'.io = self.io /\ self'.rxthread = self.rxthread /\ overtaken' = overtaken
    BY <1>14, ReplyCame DEF Cl!GetReply
  <2> QED
    BY <2>1
<1>15. ASSUME NEW t \in Cl!Threads, Cl!NoReply(t) PROVE Reading'
  <2>1. self'.io = self.io /\ self'.rxthread = self.rxthread /\ overtaken' = overtaken
    BY <1>15 DEF Cl!NoReply
  <2> QED
    BY <2>1
<1>16. ASSUME NEW t \in Cl!Threads, Cl!Stop(t) PROVE Reading'
  BY <1>16 DEF Cl!Stop, Cl!Go, Cl!AfterDisconnect
<1>17. ASSUME NEW t \in Cl!Threads, Cl!Drain(t) PROVE Reading'
  BY <1>17 DEF Cl!Drain, Cl!Go
<1>18. ASSUME NEW t \in Cl!Threads, Cl!TestTxThread(t) PROVE Reading'
  BY <1>18 DEF Cl!TestTxThread, Cl!Go
<1>19. ASSUME NEW t \in Cl!Threads, Cl!TestRxThread(t) PROVE Reading'
  BY <1>19 DEF Cl!TestRxThread, Cl!Go
<1>20. ASSUME NEW t \in Cl!Threads, Cl!JoinFails(t) PROVE Reading'
  BY <1>20 DEF Cl!JoinFails, Cl!Go, Cl!AfterFailure
<1>21. ASSUME NEW t \in Cl!Threads, Cl!Joined(t) PROVE Reading'
  <2>1. CASE Cl!Go(t, "join conn", "drain") /\ self' = [self EXCEPT !.connthread = Cl!Nobody] /\ UNCHANGED overtaken
    BY <2>1
  <2>2. CASE Cl!Go(t, "join tx", "rx") /\ self' = [self EXCEPT !.txthread = Cl!Nobody]
               /\ Cl!Overtakes(self.txthread \notin {ref[t], Cl!Nobody})
    BY <2>2 DEF Cl!Overtakes
  <2>3. CASE Cl!Go(t, "join rx", "close") /\ self' = [self EXCEPT !.rxthread = Cl!Nobody]
               /\ Cl!Overtakes(self.rxthread \notin {ref[t], Cl!Nobody})
    <3>1. ASSUME ~overtaken', NEW m \in Cl!Links, InLoop(m) PROVE FALSE
      <4>1. self.rxthread = Cl!Rx(m) /\ self.rxthread \in {ref[t], Cl!Nobody}
        BY <2>3, <3>1 DEF Cl!Overtakes
      <4>2. ref[t] = Cl!Rx(m) /\ Cl!Rx(m) \in Cl!Threads
        BY <4>1, ThreadNames, Nobodies
      <4>3. Cl!Dead(Cl!Rx(m))
        BY <1>21, <4>2 DEF Cl!Joined
      <4> QED
        BY <3>1, <4>2, <4>3 DEF Cl!Dead, InLoop, Stacked, Cl!Calling
    <3> QED
      BY <2>3, <3>1 DEF Cl!Overtakes
  <2> QED
    BY <1>21, <2>1, <2>2, <2>3 DEF Cl!Joined
<1>22. ASSUME NEW t \in Cl!Threads, Cl!Close(t) PROVE Reading'
  <2>1. at[t] = "close" /\ (overtaken' = (overtaken \/ self.io \notin since[t] \cup {Cl!NoLink}))
    BY <1>22 DEF Cl!Close, Cl!Go, Cl!Overtakes
  <2>2. ASSUME ~overtaken', NEW m \in Cl!Links, InLoop(m) PROVE FALSE
    <3>1. self.io = m /\ m # Cl!NoLink
      BY <2>1, <2>2, LinksAssumption DEF Cl!Links, Cl!NoLink
    <3>2. self.io \in since[t]
      BY <2>1, <2>2, <3>1
    <3> QED
      BY <2>1, <2>2, <3>1, <3>2 DEF Waiting
  <2> QED
    BY <2>2
<1>23. ASSUME NEW n \in Cl!Links, Cl!TxLoop(n) PROVE Reading'
  BY <1>23, ThreadNames DEF Cl!TxLoop, Cl!Go
<1>24. ASSUME NEW n \in Cl!Links, Cl!TxGet(n) PROVE Reading'
  BY <1>24, ThreadNames DEF Cl!TxGet, Cl!Go
<1>25. ASSUME NEW n \in Cl!Links, Cl!TxSend(n) PROVE Reading'
  BY <1>25, ThreadNames DEF Cl!TxSend, Cl!Go
<1>26. ASSUME NEW n \in Cl!Links, Cl!TxEnd(n) PROVE Reading'
  BY <1>26, ThreadNames DEF Cl!TxEnd, Cl!Go, Cl!Overtakes
<1>27. ASSUME NEW n \in Cl!Links, Cl!RxStops(n) PROVE Reading'
  BY <1>27, ThreadNames DEF Cl!RxStops, Cl!Go
<1>28. ASSUME NEW n \in Cl!Links, Cl!Receive(n) PROVE Reading'
  BY <1>28, ThreadNames DEF Cl!Receive
<1>29. ASSUME NEW n \in Cl!Links, Cl!Heartbeat(n) PROVE Reading'
  BY <1>29, ThreadNames DEF Cl!Heartbeat, Cl!CallConnect, Cl!Go
<1>30. ASSUME NEW n \in Cl!Links, Cl!ConnectionClosed(n) PROVE Reading'
  BY <1>30, ThreadNames DEF Cl!ConnectionClosed, Cl!Go
<1>31. ASSUME NEW n \in Cl!Links, Cl!RxFails(n) PROVE Reading'
  BY <1>31, ThreadNames DEF Cl!RxFails, Cl!Go
<1>32. ASSUME NEW n \in Cl!Links, Cl!RxEnd(n) PROVE Reading'
  <2>1. /\ InLoop(n) /\ self'.io = self.io /\ ~InLoop(n)' /\ (overtaken => overtaken')
    <3>1. Cl!Rx(n) \in Cl!Threads /\ at[Cl!Rx(n)] \in {"end", "crash"} /\ stack' = stack
      BY <1>32, ThreadNames DEF Cl!RxEnd, Cl!Go, Cl!Overtakes
    <3>2. stack[Cl!Rx(n)] = << >> /\ at'[Cl!Rx(n)] \in {"quit", "stop"}
      BY <1>32, <3>1 DEF Cl!RxEnd, Cl!Go, Cl!Overtakes, Stacked, Cl!Calling
    <3> QED
      BY <1>32, <3>1, <3>2 DEF Cl!RxEnd, Cl!Go, Cl!Overtakes, InLoop
  <2>2. ~overtaken' => \A m \in Cl!Links : InLoop(m) => m = n
    BY <2>1
  <2> QED
    BY <2>1, <2>2
<1>33. ASSUME NEW n \in Cl!Links, Cl!RxClosed(n) PROVE Reading'
  BY <1>33, ThreadNames DEF Cl!RxClosed, Cl!Go
<1>34. ASSUME NEW n \in Cl!Links, Cl!Reconnect(n) PROVE Reading'
  BY <1>34, ThreadNames DEF Cl!Reconnect, Cl!CallConnect, Cl!Go
<1>35. ASSUME NEW n \in Cl!Links, Cl!ReconnectFailed(n) PROVE Reading'
  BY <1>35, ThreadNames DEF Cl!ReconnectFailed, Cl!Go
<1>36. ASSUME NEW n \in Cl!Links, Cl!ReconnectOver(n) PROVE Reading'
  BY <1>36, ThreadNames DEF Cl!ReconnectOver, Cl!Go
<1>37. ASSUME Cl!Lose PROVE Reading'
  BY <1>37 DEF Cl!Lose
<1> QED
  BY <1>1, <1>2, <1>3, <1>4, <1>5, <1>6, <1>7, <1>8, <1>9, <1>10, <1>11, <1>12, <1>13, <1>14, <1>15, <1>16, <1>17, <1>18, <1>19, <1>20, <1>21, <1>22, <1>23, <1>24, <1>25, <1>26, <1>27, <1>28, <1>29, <1>30, <1>31, <1>32, <1>33, <1>34, <1>35, <1>36, <1>37
     DEF Cl!Next, Cl!Connecting, Cl!Disconnecting, Cl!TxStep, Cl!RxStep, Cl!RcStep

\* No connection is not a connection.
LEMMA NoLinkIsNone == Cl!NoLink \notin Cl!Links
BY DEF Cl!Links, Cl!NoLink

\* A connection to be made is not served.
LEMMA NotServed ==
  ASSUME Numbered PROVE Cl!Made + 1 \notin Cl!Serving
<1>1. Cl!Made \in Nat
  BY MadeRange
<1>2. \A m \in Cl!Serving : m \in Nat /\ m <= Cl!Made
  BY DEF Numbered, Cl!Serving, Cl!Links
<1> QED
  BY <1>1, <1>2

\* A disconnect() waits as before.
LEMMA WaitingKept ==
  ASSUME ClTyped, Waiting, \A m \in Cl!Links : InLoop(m)' => InLoop(m), NEW t \in Cl!Threads, NEW y,
         at' = [at EXCEPT ![t] = y], y \notin {"join rx", "close"}, self'.io = self.io,
         \A u \in Cl!Threads \ {t} : ref'[u] = ref[u] /\ since'[u] = since[u],
         self.io \in Cl!Links \cup {Cl!NoLink},
         overtaken => overtaken'
  PROVE  Waiting'
<1>1. self.io \in Cl!Links \/ \A u \in Cl!Threads : self.io \notin since[u]
  BY LinksAssumption DEF ClTyped, Cl!Links, Cl!NoLink
<1>2. \A u \in Cl!Threads : u # t => at'[u] = at[u]
  BY DEF ClTyped
<1>3. at'[t] = y
  BY DEF ClTyped
<1>4. ASSUME NEW u \in Cl!Threads, ~overtaken', self.io \in since'[u], InLoop(self.io)'
      PROVE  (at'[u] = "join rx" => ref'[u] = Cl!Rx(self.io)) /\ at'[u] # "close"
  <2>1. CASE u = t
    BY <1>3, <2>1
  <2>2. CASE u # t
    <3>1. self.io \in since[u] /\ self.io \in Cl!Links /\ at'[u] = at[u] /\ ref'[u] = ref[u]
      BY <1>1, <1>2, <1>4, <2>2
    <3>2. InLoop(self.io)
      BY <1>4, <3>1
    <3> QED
      BY <1>4, <3>1, <3>2 DEF Waiting
  <2> QED
    BY <2>1, <2>2
<1> QED
  BY <1>4 DEF Waiting

\* A disconnect() waits for the thread which reads.
LEMMA WaitingStep ==
  ASSUME ClTyped, Stacked, Numbered, Reading, Waiting, Cl!Next, \A m \in Cl!Links : InLoop(m)' => InLoop(m), \A t \in Cl!Threads : ~Cl!Start(t) PROVE Waiting'
<1> USE DEF ClTyped, Attributes, Waiting, Cl!env, Cl!history
<1>1. ASSUME NEW u \in Clients, Cl!Request(u) PROVE Waiting'
  <2>1. u \in Cl!Threads
    BY ThreadNames DEF Cl!Threads
  <2>2. \E y : y \notin {"join rx", "close"} /\ at' = [at EXCEPT ![u] = y]
    BY <1>1, <2>1 DEF Cl!Request, Cl!CallConnect, Cl!Go
  <2>3. self'.io = self.io /\ (overtaken => overtaken')
    BY <1>1 DEF Cl!Request, Cl!CallConnect, Cl!Go
  <2>4. \A v \in Cl!Threads \ {u} : ref'[v] = ref[v] /\ since'[v] = since[v]
    BY <1>1, <2>1 DEF Cl!Request, Cl!CallConnect, Cl!Go
  <2>5. PICK y : y \notin {"join rx", "close"} /\ at' = [at EXCEPT ![u] = y]
    BY <2>2
  <2>6. self.io \in Cl!Links \cup {Cl!NoLink}
    OBVIOUS
  <2> HIDE DEF ClTyped, Waiting
  <2> QED
    BY <2>1, <2>3, <2>4, <2>5, <2>6, WaitingKept
<1>2. ASSUME NEW u \in Clients, Cl!Disconnect(u) PROVE Waiting'
  <2>1. u \in Cl!Threads
    BY ThreadNames DEF Cl!Threads
  <2>2. \E y : y \notin {"join rx", "close"} /\ at' = [at EXCEPT ![u] = y]
    BY <1>2, <2>1 DEF Cl!Disconnect, Cl!Go
  <2>3. self'.io = self.io /\ (overtaken => overtaken')
    BY <1>2 DEF Cl!Disconnect, Cl!Go
  <2>4. \A v \in Cl!Threads \ {u} : ref'[v] = ref[v] /\ since'[v] = since[v]
    BY <1>2, <2>1 DEF Cl!Disconnect, Cl!Go
  <2>5. PICK y : y \notin {"join rx", "close"} /\ at' = [at EXCEPT ![u] = y]
    BY <2>2
  <2>6. self.io \in Cl!Links \cup {Cl!NoLink}
    OBVIOUS
  <2> HIDE DEF ClTyped, Waiting
  <2> QED
    BY <2>1, <2>3, <2>4, <2>5, <2>6, WaitingKept
<1>3. ASSUME NEW t \in Cl!Threads, Cl!Lock(t) PROVE Waiting'
  <2>1. t \in Cl!Threads
    BY ThreadNames DEF Cl!Threads
  <2>2. \E y : y \notin {"join rx", "close"} /\ at' = [at EXCEPT ![t] = y]
    <3>1. CASE self.io # Cl!NoLink
      <4>1. Cl!ReturnFromConnect(t, "lock")
        BY <1>3, <3>1 DEF Cl!Lock
      <4> QED
        BY <4>1, ConnectReturns
    <3>2. CASE self.io = Cl!NoLink
      BY <1>3, <3>2 DEF Cl!Lock, Cl!Go
    <3> QED
      BY <3>1, <3>2
  <2>3. self'.io = self.io /\ (overtaken => overtaken')
    <3>1. CASE self.io # Cl!NoLink
      BY <1>3, <3>1 DEF Cl!Lock
    <3>2. CASE self.io = Cl!NoLink
      BY <1>3, <3>2 DEF Cl!Lock
    <3> QED
      BY <3>1, <3>2
  <2>4. \A u \in Cl!Threads \ {t} : ref'[u] = ref[u] /\ since'[u] = since[u]
    BY <1>3, <2>1 DEF Cl!Lock, Cl!Go, Cl!ReturnFromConnect, Cl!Released, Cl!Purpose, Cl!Cleared
  <2>5. PICK y : y \notin {"join rx", "close"} /\ at' = [at EXCEPT ![t] = y]
    BY <2>2
  <2>6. self.io \in Cl!Links \cup {Cl!NoLink}
    OBVIOUS
  <2> HIDE DEF ClTyped, Waiting
  <2> QED
    BY <2>1, <2>3, <2>4, <2>5, <2>6, WaitingKept
<1>4. ASSUME NEW t \in Cl!Threads, Cl!TryShutdown(t) PROVE Waiting'
  <2>0. Cl!ReturnFromConnect(t, "try")
    BY <1>4 DEF Cl!TryShutdown
  <2>1. t \in Cl!Threads
    BY ThreadNames DEF Cl!Threads
  <2>2. \E y : y \notin {"join rx", "close"} /\ at' = [at EXCEPT ![t] = y]
    <3> HIDE DEF ClTyped
    <3> QED
      BY <2>0, <2>1, ConnectReturns
  <2>3. self'.io = self.io /\ (overtaken => overtaken')
    BY <1>4 DEF Cl!TryShutdown
  <2>4. \A u \in Cl!Threads \ {t} : ref'[u] = ref[u] /\ since'[u] = since[u]
    BY <1>4, <2>1 DEF Cl!TryShutdown, Cl!ReturnFromConnect, Cl!Released, Cl!Purpose, Cl!Go
  <2>5. PICK y : y \notin {"join rx", "close"} /\ at' = [at EXCEPT ![t] = y]
    BY <2>2
  <2>6. self.io \in Cl!Links \cup {Cl!NoLink}
    OBVIOUS
  <2> HIDE DEF ClTyped, Waiting
  <2> QED
    BY <2>1, <2>3, <2>4, <2>5, <2>6, WaitingKept
<1>5. ASSUME NEW t \in Cl!Threads, Cl!Open(t) PROVE Waiting'
  <2>1. /\ self'.io = Cl!Made + 1 /\ since' = since
    BY <1>5 DEF Cl!Open
  <2>2. \A u \in Cl!Threads : Cl!Made + 1 \notin since[u]
    BY NotServed DEF Numbered
  <2> QED
    BY <2>1, <2>2
<1>6. ASSUME NEW t \in Cl!Threads, Cl!Refused(t) PROVE Waiting'
  <2>1. t \in Cl!Threads
    BY ThreadNames DEF Cl!Threads
  <2>2. \E y : y \notin {"join rx", "close"} /\ at' = [at EXCEPT ![t] = y]
    BY <1>6, <2>1 DEF Cl!Refused, Cl!Go
  <2>3. self'.io = self.io /\ (overtaken => overtaken')
    BY <1>6 DEF Cl!Refused, Cl!Go
  <2>4. \A u \in Cl!Threads \ {t} : ref'[u] = ref[u] /\ since'[u] = since[u]
    BY <1>6, <2>1 DEF Cl!Refused, Cl!Go
  <2>5. PICK y : y \notin {"join rx", "close"} /\ at' = [at EXCEPT ![t] = y]
    BY <2>2
  <2>6. self.io \in Cl!Links \cup {Cl!NoLink}
    OBVIOUS
  <2> HIDE DEF ClTyped, Waiting
  <2> QED
    BY <2>1, <2>3, <2>4, <2>5, <2>6, WaitingKept
<1>7. ASSUME NEW t \in Cl!Threads, Cl!Identified(t) PROVE Waiting'
  <2>1. t \in Cl!Threads
    BY ThreadNames DEF Cl!Threads
  <2>2. \E y : y \notin {"join rx", "close"} /\ at' = [at EXCEPT ![t] = y]
    BY <1>7, <2>1 DEF Cl!Identified, Cl!Go
  <2>3. self'.io = self.io /\ (overtaken => overtaken')
    BY <1>7 DEF Cl!Identified, Cl!Go
  <2>4. \A u \in Cl!Threads \ {t} : ref'[u] = ref[u] /\ since'[u] = since[u]
    BY <1>7, <2>1 DEF Cl!Identified, Cl!Go
  <2>5. PICK y : y \notin {"join rx", "close"} /\ at' = [at EXCEPT ![t] = y]
    BY <2>2
  <2>6. self.io \in Cl!Links \cup {Cl!NoLink}
    OBVIOUS
  <2> HIDE DEF ClTyped, Waiting
  <2> QED
    BY <2>1, <2>3, <2>4, <2>5, <2>6, WaitingKept
<1>8. ASSUME NEW t \in Cl!Threads, Cl!NotIdentified(t) PROVE Waiting'
  <2>1. t \in Cl!Threads
    BY ThreadNames DEF Cl!Threads
  <2>2. \E y : y \notin {"join rx", "close"} /\ at' = [at EXCEPT ![t] = y]
    BY <1>8, <2>1 DEF Cl!NotIdentified, Cl!Go
  <2>3. self'.io = self.io /\ (overtaken => overtaken')
    BY <1>8 DEF Cl!NotIdentified, Cl!Go
  <2>4. \A u \in Cl!Threads \ {t} : ref'[u] = ref[u] /\ since'[u] = since[u]
    BY <1>8, <2>1 DEF Cl!NotIdentified, Cl!Go
  <2>5. PICK y : y \notin {"join rx", "close"} /\ at' = [at EXCEPT ![t] = y]
    BY <2>2
  <2>6. self.io \in Cl!Links \cup {Cl!NoLink}
    OBVIOUS
  <2> HIDE DEF ClTyped, Waiting
  <2> QED
    BY <2>1, <2>3, <2>4, <2>5, <2>6, WaitingKept
<1>9. ASSUME NEW t \in Cl!Threads, Cl!Start(t) PROVE Waiting'
  BY <1>9
<1>10. ASSUME NEW t \in Cl!Threads, Cl!Connect(t) PROVE Waiting'
  <2>0. Cl!ReturnFromConnect(t, "connected")
    BY <1>10 DEF Cl!Connect
  <2>1. t \in Cl!Threads
    BY ThreadNames DEF Cl!Threads
  <2>2. \E y : y \notin {"join rx", "close"} /\ at' = [at EXCEPT ![t] = y]
    <3> HIDE DEF ClTyped
    <3> QED
      BY <2>0, <2>1, ConnectReturns
  <2>3. self'.io = self.io /\ (overtaken => overtaken')
    BY <1>10 DEF Cl!Connect
  <2>4. \A u \in Cl!Threads \ {t} : ref'[u] = ref[u] /\ since'[u] = since[u]
    BY <1>10, <2>1 DEF Cl!Connect, Cl!ReturnFromConnect, Cl!Go, Cl!Purpose, Cl!Released
  <2>5. PICK y : y \notin {"join rx", "close"} /\ at' = [at EXCEPT ![t] = y]
    BY <2>2
  <2>6. self.io \in Cl!Links \cup {Cl!NoLink}
    OBVIOUS
  <2> HIDE DEF ClTyped, Waiting
  <2> QED
    BY <2>1, <2>3, <2>4, <2>5, <2>6, WaitingKept
<1>11. ASSUME NEW t \in Cl!Threads, Cl!GiveUp(t) PROVE Waiting'
  <2>0. Cl!Raise(t, "except")
    BY <1>11 DEF Cl!GiveUp
  <2>1. t \in Cl!Threads
    BY ThreadNames DEF Cl!Threads
  <2>2. \E y : y \notin {"join rx", "close"} /\ at' = [at EXCEPT ![t] = y]
    BY <2>0, <2>1, CallRaises
  <2>3. self'.io = self.io /\ (overtaken => overtaken')
    BY <1>11 DEF Cl!GiveUp
  <2>4. \A u \in Cl!Threads \ {t} : ref'[u] = ref[u] /\ since'[u] = since[u]
    BY <1>11, <2>1 DEF Cl!GiveUp, Cl!Raise, Cl!Go, Cl!Purpose, Cl!Released
  <2>5. PICK y : y \notin {"join rx", "close"} /\ at' = [at EXCEPT ![t] = y]
    BY <2>2
  <2>6. self.io \in Cl!Links \cup {Cl!NoLink}
    OBVIOUS
  <2> HIDE DEF ClTyped, Waiting
  <2> QED
    BY <2>1, <2>3, <2>4, <2>5, <2>6, WaitingKept
<1>12. ASSUME NEW t \in Cl!Threads, Cl!Retry(t) PROVE Waiting'
  <2>1. t \in Cl!Threads
    BY ThreadNames DEF Cl!Threads
  <2>2. \E y : y \notin {"join rx", "close"} /\ at' = [at EXCEPT ![t] = y]
    BY <1>12, <2>1 DEF Cl!Retry, Cl!Go
  <2>3. self'.io = self.io /\ (overtaken => overtaken')
    BY <1>12 DEF Cl!Retry, Cl!Go
  <2>4. \A u \in Cl!Threads \ {t} : ref'[u] = ref[u] /\ since'[u] = since[u]
    BY <1>12, <2>1 DEF Cl!Retry, Cl!Go
  <2>5. PICK y : y \notin {"join rx", "close"} /\ at' = [at EXCEPT ![t] = y]
    BY <2>2
  <2>6. self.io \in Cl!Links \cup {Cl!NoLink}
    OBVIOUS
  <2> HIDE DEF ClTyped, Waiting
  <2> QED
    BY <2>1, <2>3, <2>4, <2>5, <2>6, WaitingKept
<1>13. ASSUME NEW t \in Cl!Threads, Cl!Put(t) PROVE Waiting'
  <2>1. t \in Cl!Threads
    BY ThreadNames DEF Cl!Threads
  <2>2. \E y : y \notin {"join rx", "close"} /\ at' = [at EXCEPT ![t] = y]
    BY <1>13, <2>1 DEF Cl!Put, Cl!Go
  <2>3. self'.io = self.io /\ (overtaken => overtaken')
    BY <1>13 DEF Cl!Put, Cl!Go
  <2>4. \A u \in Cl!Threads \ {t} : ref'[u] = ref[u] /\ since'[u] = since[u]
    BY <1>13, <2>1 DEF Cl!Put, Cl!Go
  <2>5. PICK y : y \notin {"join rx", "close"} /\ at' = [at EXCEPT ![t] = y]
    BY <2>2
  <2>6. self.io \in Cl!Links \cup {Cl!NoLink}
    OBVIOUS
  <2> HIDE DEF ClTyped, Waiting
  <2> QED
    BY <2>1, <2>3, <2>4, <2>5, <2>6, WaitingKept
<1>14. ASSUME NEW t \in Cl!Threads, Cl!GetReply(t) PROVE Waiting'
  <2>1. t \in Cl!Threads
    BY ThreadNames DEF Cl!Threads
  <2>2. \E y : y \notin {"join rx", "close"} /\ at' = [at EXCEPT ![t] = y]
    BY <1>14, <2>1, ReplyCame 
  <2>3. self'.io = self.io /\ (overtaken => overtaken')
    BY <1>14, ReplyCame DEF Cl!GetReply
  <2>4. \A u \in Cl!Threads \ {t} : ref'[u] = ref[u] /\ since'[u] = since[u]
    BY <1>14, <2>1 DEF Cl!GetReply, Cl!Go, Cl!Purpose
  <2>5. PICK y : y \notin {"join rx", "close"} /\ at' = [at EXCEPT ![t] = y]
    BY <2>2
  <2>6. self.io \in Cl!Links \cup {Cl!NoLink}
    OBVIOUS
  <2> HIDE DEF ClTyped, Waiting
  <2> QED
    BY <2>1, <2>3, <2>4, <2>5, <2>6, WaitingKept
<1>15. ASSUME NEW t \in Cl!Threads, Cl!NoReply(t) PROVE Waiting'
  <2>0. Cl!Raise(t, "wait")
    BY <1>15 DEF Cl!NoReply
  <2>1. t \in Cl!Threads
    BY ThreadNames DEF Cl!Threads
  <2>2. \E y : y \notin {"join rx", "close"} /\ at' = [at EXCEPT ![t] = y]
    BY <2>0, <2>1, CallRaises
  <2>3. self'.io = self.io /\ (overtaken => overtaken')
    BY <1>15 DEF Cl!NoReply
  <2>4. \A u \in Cl!Threads \ {t} : ref'[u] = ref[u] /\ since'[u] = since[u]
    BY <1>15, <2>1 DEF Cl!NoReply, Cl!Raise, Cl!Go, Cl!Purpose
  <2>5. PICK y : y \notin {"join rx", "close"} /\ at' = [at EXCEPT ![t] = y]
    BY <2>2
  <2>6. self.io \in Cl!Links \cup {Cl!NoLink}
    OBVIOUS
  <2> HIDE DEF ClTyped, Waiting
  <2> QED
    BY <2>1, <2>3, <2>4, <2>5, <2>6, WaitingKept
<1>16. ASSUME NEW t \in Cl!Threads, Cl!Stop(t) PROVE Waiting'
  <2>1. t \in Cl!Threads
    BY ThreadNames DEF Cl!Threads
  <2>2. \E y : y \notin {"join rx", "close"} /\ at' = [at EXCEPT ![t] = y]
    <3>1. \E y \in {"drain", "join conn", Cl!AfterDisconnect(t)} : at' = [at EXCEPT ![t] = y]
      <4>1. CASE self.connthread = Cl!Nobody
        BY <1>16, <4>1, Nobodies DEF Cl!Stop, Cl!Go
      <4>2. CASE self.connthread # Cl!Nobody /\ self.connthread = t
        BY <1>16, <4>2 DEF Cl!Stop, Cl!Go
      <4>3. CASE self.connthread # Cl!Nobody /\ self.connthread # t
        BY <1>16, <4>3 DEF Cl!Stop, Cl!Go
      <4> QED
        BY <4>1, <4>2, <4>3
    <3>2. Cl!AfterDisconnect(t) \in {"idle", "closed", "dead"}
      BY DEF Cl!AfterDisconnect
    <3> QED
      BY <3>1, <3>2
  <2>3. self'.io = self.io /\ (overtaken => overtaken')
    BY <1>16 DEF Cl!Stop, Cl!Go, Cl!AfterDisconnect
  <2>4. \A u \in Cl!Threads \ {t} : ref'[u] = ref[u] /\ since'[u] = since[u]
    BY <1>16, <2>1 DEF Cl!Stop, Cl!Go, Cl!AfterDisconnect
  <2>5. PICK y : y \notin {"join rx", "close"} /\ at' = [at EXCEPT ![t] = y]
    BY <2>2
  <2>6. self.io \in Cl!Links \cup {Cl!NoLink}
    OBVIOUS
  <2> HIDE DEF ClTyped, Waiting
  <2> QED
    BY <2>1, <2>3, <2>4, <2>5, <2>6, WaitingKept
<1>17. ASSUME NEW t \in Cl!Threads, Cl!Drain(t) PROVE Waiting'
  <2>1. t \in Cl!Threads
    BY ThreadNames DEF Cl!Threads
  <2>2. \E y : y \notin {"join rx", "close"} /\ at' = [at EXCEPT ![t] = y]
    BY <1>17, <2>1 DEF Cl!Drain, Cl!Go
  <2>3. self'.io = self.io /\ (overtaken => overtaken')
    BY <1>17 DEF Cl!Drain, Cl!Go
  <2>4. \A u \in Cl!Threads \ {t} : ref'[u] = ref[u] /\ since'[u] = since[u]
    BY <1>17, <2>1 DEF Cl!Drain, Cl!Go
  <2>5. PICK y : y \notin {"join rx", "close"} /\ at' = [at EXCEPT ![t] = y]
    BY <2>2
  <2>6. self.io \in Cl!Links \cup {Cl!NoLink}
    OBVIOUS
  <2> HIDE DEF ClTyped, Waiting
  <2> QED
    BY <2>1, <2>3, <2>4, <2>5, <2>6, WaitingKept
<1>18. ASSUME NEW t \in Cl!Threads, Cl!TestTxThread(t) PROVE Waiting'
  <2>1. t \in Cl!Threads
    BY ThreadNames DEF Cl!Threads
  <2>2. \E y : y \notin {"join rx", "close"} /\ at' = [at EXCEPT ![t] = y]
    BY <1>18, <2>1 DEF Cl!TestTxThread, Cl!Go
  <2>3. self'.io = self.io /\ (overtaken => overtaken')
    BY <1>18 DEF Cl!TestTxThread, Cl!Go
  <2>4. \A u \in Cl!Threads \ {t} : ref'[u] = ref[u] /\ since'[u] = since[u]
    BY <1>18, <2>1 DEF Cl!TestTxThread, Cl!Go
  <2>5. PICK y : y \notin {"join rx", "close"} /\ at' = [at EXCEPT ![t] = y]
    BY <2>2
  <2>6. self.io \in Cl!Links \cup {Cl!NoLink}
    OBVIOUS
  <2> HIDE DEF ClTyped, Waiting
  <2> QED
    BY <2>1, <2>3, <2>4, <2>5, <2>6, WaitingKept
<1>19. ASSUME NEW t \in Cl!Threads, Cl!TestRxThread(t) PROVE Waiting'
  <2>1. /\ ref' = [ref EXCEPT ![t] = self.rxthread] /\ self' = self /\ since' = since
        /\ overtaken' = overtaken
        /\ \E y : at' = [at EXCEPT ![t] = y] /\ (y = "close" => self.rxthread = Cl!Nobody)
    BY <1>19 DEF Cl!TestRxThread, Cl!Go
  <2>2. PICK y : at' = [at EXCEPT ![t] = y] /\ (y = "close" => self.rxthread = Cl!Nobody)
    BY <2>1
  <2>3. ASSUME NEW u \in Cl!Threads, ~overtaken', self.io \in since[u], InLoop(self.io)'
        PROVE  (at'[u] = "join rx" => ref'[u] = Cl!Rx(self.io)) /\ at'[u] # "close"
    <3>1. self.io \in Cl!Links /\ InLoop(self.io)
      BY <2>1, <2>3 DEF InLoop
    <3>2. self.rxthread = Cl!Rx(self.io) /\ self.rxthread # Cl!Nobody
      BY <2>1, <2>3, <3>1, ThreadNames DEF Reading
    <3>3. CASE u = t
      BY <2>1, <2>2, <3>2, <3>3
    <3>4. CASE u # t
      BY <2>1, <2>2, <2>3, <3>1, <3>4
    <3> QED
      BY <3>3, <3>4
  <2> QED
    BY <2>1, <2>3
<1>20. ASSUME NEW t \in Cl!Threads, Cl!JoinFails(t) PROVE Waiting'
  <2>1. t \in Cl!Threads
    BY ThreadNames DEF Cl!Threads
  <2>2. \E y : y \notin {"join rx", "close"} /\ at' = [at EXCEPT ![t] = y]
    BY <1>20, <2>1 DEF Cl!JoinFails, Cl!Go, Cl!AfterFailure
  <2>3. self'.io = self.io /\ (overtaken => overtaken')
    BY <1>20 DEF Cl!JoinFails, Cl!Go, Cl!AfterFailure
  <2>4. \A u \in Cl!Threads \ {t} : ref'[u] = ref[u] /\ since'[u] = since[u]
    BY <1>20, <2>1 DEF Cl!JoinFails, Cl!Go, Cl!AfterFailure
  <2>5. PICK y : y \notin {"join rx", "close"} /\ at' = [at EXCEPT ![t] = y]
    BY <2>2
  <2>6. self.io \in Cl!Links \cup {Cl!NoLink}
    OBVIOUS
  <2> HIDE DEF ClTyped, Waiting
  <2> QED
    BY <2>1, <2>3, <2>4, <2>5, <2>6, WaitingKept
<1>21. ASSUME NEW t \in Cl!Threads, Cl!Joined(t) PROVE Waiting'
  <2>1. /\ ref' = [ref EXCEPT ![t] = Cl!Nobody] /\ since' = since /\ Cl!Dead(ref[t])
        /\ \/ at[t] # "join rx" /\ Cl!Go(t, "join conn", "drain")
           \/ at[t] # "join rx" /\ Cl!Go(t, "join tx", "rx")
           \/ Cl!Go(t, "join rx", "close")
    BY <1>21 DEF Cl!Joined, Cl!Go
  <2>2. self'.io = self.io
    BY <1>21 DEF Cl!Joined
  <2>3. overtaken => overtaken'
    BY <1>21 DEF Cl!Joined, Cl!Overtakes
  <2>4. PICK y : at' = [at EXCEPT ![t] = y] /\ y # "join rx" /\ (y = "close" => at[t] = "join rx")
    BY <2>1 DEF Cl!Go
  <2>5. ASSUME NEW u \in Cl!Threads, ~overtaken', self.io \in since[u], InLoop(self.io)'
        PROVE  (at'[u] = "join rx" => ref'[u] = Cl!Rx(self.io)) /\ at'[u] # "close"
    <3>1. self.io \in Cl!Links /\ InLoop(self.io) /\ ~overtaken
      BY <2>2, <2>3, <2>5 DEF InLoop
    <3>2. Cl!Rx(self.io) \in Cl!Threads /\ ~Cl!Dead(Cl!Rx(self.io))
      BY <3>1, ThreadNames DEF InLoop, Cl!Dead, Stacked, Cl!Calling
    <3>3. CASE u = t
      BY <2>1, <2>4, <2>5, <3>1, <3>2, <3>3
    <3>4. CASE u # t
      BY <2>1, <2>4, <2>5, <3>1, <3>4
    <3> QED
      BY <3>3, <3>4
  <2> QED
    BY <2>1, <2>2, <2>5
<1>22. ASSUME NEW t \in Cl!Threads, Cl!Close(t) PROVE Waiting'
  <2>1. self'.io = Cl!NoLink /\ \A u \in Cl!Threads : since'[u] \subseteq since[u]
    BY <1>22 DEF Cl!Close
  <2>2. \A u \in Cl!Threads : Cl!NoLink \notin since[u]
    BY NoLinkIsNone
  <2> QED
    BY <2>1, <2>2
<1>23. ASSUME NEW n \in Cl!Links, Cl!TxLoop(n) PROVE Waiting'
  <2>1. Cl!Tx(n) \in Cl!Threads
    BY ThreadNames DEF Cl!Threads
  <2>2. \E y : y \notin {"join rx", "close"} /\ at' = [at EXCEPT ![Cl!Tx(n)] = y]
    BY <1>23, <2>1 DEF Cl!TxLoop, Cl!Go
  <2>3. self'.io = self.io /\ (overtaken => overtaken')
    BY <1>23 DEF Cl!TxLoop, Cl!Go
  <2>4. \A u \in Cl!Threads \ {Cl!Tx(n)} : ref'[u] = ref[u] /\ since'[u] = since[u]
    BY <1>23, <2>1 DEF Cl!TxLoop, Cl!Go
  <2>5. PICK y : y \notin {"join rx", "close"} /\ at' = [at EXCEPT ![Cl!Tx(n)] = y]
    BY <2>2
  <2>6. self.io \in Cl!Links \cup {Cl!NoLink}
    OBVIOUS
  <2> HIDE DEF ClTyped, Waiting
  <2> QED
    BY <2>1, <2>3, <2>4, <2>5, <2>6, WaitingKept
<1>24. ASSUME NEW n \in Cl!Links, Cl!TxGet(n) PROVE Waiting'
  <2>1. Cl!Tx(n) \in Cl!Threads
    BY ThreadNames DEF Cl!Threads
  <2>2. \E y : y \notin {"join rx", "close"} /\ at' = [at EXCEPT ![Cl!Tx(n)] = y]
    BY <1>24, <2>1 DEF Cl!TxGet, Cl!Go
  <2>3. self'.io = self.io /\ (overtaken => overtaken')
    BY <1>24 DEF Cl!TxGet, Cl!Go
  <2>4. \A u \in Cl!Threads \ {Cl!Tx(n)} : ref'[u] = ref[u] /\ since'[u] = since[u]
    BY <1>24, <2>1 DEF Cl!TxGet, Cl!Go
  <2>5. PICK y : y \notin {"join rx", "close"} /\ at' = [at EXCEPT ![Cl!Tx(n)] = y]
    BY <2>2
  <2>6. self.io \in Cl!Links \cup {Cl!NoLink}
    OBVIOUS
  <2> HIDE DEF ClTyped, Waiting
  <2> QED
    BY <2>1, <2>3, <2>4, <2>5, <2>6, WaitingKept
<1>25. ASSUME NEW n \in Cl!Links, Cl!TxSend(n) PROVE Waiting'
  <2>1. Cl!Tx(n) \in Cl!Threads
    BY ThreadNames DEF Cl!Threads
  <2>2. \E y : y \notin {"join rx", "close"} /\ at' = [at EXCEPT ![Cl!Tx(n)] = y]
    BY <1>25, <2>1 DEF Cl!TxSend, Cl!Go
  <2>3. self'.io = self.io /\ (overtaken => overtaken')
    BY <1>25 DEF Cl!TxSend, Cl!Go
  <2>4. \A u \in Cl!Threads \ {Cl!Tx(n)} : ref'[u] = ref[u] /\ since'[u] = since[u]
    BY <1>25, <2>1 DEF Cl!TxSend, Cl!Go
  <2>5. PICK y : y \notin {"join rx", "close"} /\ at' = [at EXCEPT ![Cl!Tx(n)] = y]
    BY <2>2
  <2>6. self.io \in Cl!Links \cup {Cl!NoLink}
    OBVIOUS
  <2> HIDE DEF ClTyped, Waiting
  <2> QED
    BY <2>1, <2>3, <2>4, <2>5, <2>6, WaitingKept
<1>26. ASSUME NEW n \in Cl!Links, Cl!TxEnd(n) PROVE Waiting'
  <2>1. Cl!Tx(n) \in Cl!Threads
    BY ThreadNames DEF Cl!Threads
  <2>2. \E y : y \notin {"join rx", "close"} /\ at' = [at EXCEPT ![Cl!Tx(n)] = y]
    BY <1>26, <2>1 DEF Cl!TxEnd, Cl!Go, Cl!Overtakes
  <2>3. self'.io = self.io /\ (overtaken => overtaken')
    BY <1>26 DEF Cl!TxEnd, Cl!Go, Cl!Overtakes
  <2>4. \A u \in Cl!Threads \ {Cl!Tx(n)} : ref'[u] = ref[u] /\ since'[u] = since[u]
    BY <1>26, <2>1 DEF Cl!TxEnd, Cl!Go, Cl!Overtakes
  <2>5. PICK y : y \notin {"join rx", "close"} /\ at' = [at EXCEPT ![Cl!Tx(n)] = y]
    BY <2>2
  <2>6. self.io \in Cl!Links \cup {Cl!NoLink}
    OBVIOUS
  <2> HIDE DEF ClTyped, Waiting
  <2> QED
    BY <2>1, <2>3, <2>4, <2>5, <2>6, WaitingKept
<1>27. ASSUME NEW n \in Cl!Links, Cl!RxStops(n) PROVE Waiting'
  <2>1. Cl!Rx(n) \in Cl!Threads
    BY ThreadNames DEF Cl!Threads
  <2>2. \E y : y \notin {"join rx", "close"} /\ at' = [at EXCEPT ![Cl!Rx(n)] = y]
    BY <1>27, <2>1 DEF Cl!RxStops, Cl!Go
  <2>3. self'.io = self.io /\ (overtaken => overtaken')
    BY <1>27 DEF Cl!RxStops, Cl!Go
  <2>4. \A u \in Cl!Threads \ {Cl!Rx(n)} : ref'[u] = ref[u] /\ since'[u] = since[u]
    BY <1>27, <2>1 DEF Cl!RxStops, Cl!Go
  <2>5. PICK y : y \notin {"join rx", "close"} /\ at' = [at EXCEPT ![Cl!Rx(n)] = y]
    BY <2>2
  <2>6. self.io \in Cl!Links \cup {Cl!NoLink}
    OBVIOUS
  <2> HIDE DEF ClTyped, Waiting
  <2> QED
    BY <2>1, <2>3, <2>4, <2>5, <2>6, WaitingKept
<1>28. ASSUME NEW n \in Cl!Links, Cl!Receive(n) PROVE Waiting'
  <2>1. self' = self /\ at' = at /\ ref' = ref /\ since' = since /\ overtaken' = overtaken
    BY <1>28 DEF Cl!Receive
  <2> QED
    BY <2>1, LinksAssumption DEF Cl!Links, Cl!NoLink
<1>29. ASSUME NEW n \in Cl!Links, Cl!Heartbeat(n) PROVE Waiting'
  <2>1. Cl!Rx(n) \in Cl!Threads
    BY ThreadNames DEF Cl!Threads
  <2>2. \E y : y \notin {"join rx", "close"} /\ at' = [at EXCEPT ![Cl!Rx(n)] = y]
    BY <1>29, <2>1 DEF Cl!Heartbeat, Cl!CallConnect, Cl!Go
  <2>3. self'.io = self.io /\ (overtaken => overtaken')
    BY <1>29 DEF Cl!Heartbeat, Cl!CallConnect, Cl!Go
  <2>4. \A u \in Cl!Threads \ {Cl!Rx(n)} : ref'[u] = ref[u] /\ since'[u] = since[u]
    BY <1>29, <2>1 DEF Cl!Heartbeat, Cl!CallConnect, Cl!Go
  <2>5. PICK y : y \notin {"join rx", "close"} /\ at' = [at EXCEPT ![Cl!Rx(n)] = y]
    BY <2>2
  <2>6. self.io \in Cl!Links \cup {Cl!NoLink}
    OBVIOUS
  <2> HIDE DEF ClTyped, Waiting
  <2> QED
    BY <2>1, <2>3, <2>4, <2>5, <2>6, WaitingKept
<1>30. ASSUME NEW n \in Cl!Links, Cl!ConnectionClosed(n) PROVE Waiting'
  <2>1. Cl!Rx(n) \in Cl!Threads
    BY ThreadNames DEF Cl!Threads
  <2>2. \E y : y \notin {"join rx", "close"} /\ at' = [at EXCEPT ![Cl!Rx(n)] = y]
    BY <1>30, <2>1 DEF Cl!ConnectionClosed, Cl!Go
  <2>3. self'.io = self.io /\ (overtaken => overtaken')
    BY <1>30 DEF Cl!ConnectionClosed, Cl!Go
  <2>4. \A u \in Cl!Threads \ {Cl!Rx(n)} : ref'[u] = ref[u] /\ since'[u] = since[u]
    BY <1>30, <2>1 DEF Cl!ConnectionClosed, Cl!Go
  <2>5. PICK y : y \notin {"join rx", "close"} /\ at' = [at EXCEPT ![Cl!Rx(n)] = y]
    BY <2>2
  <2>6. self.io \in Cl!Links \cup {Cl!NoLink}
    OBVIOUS
  <2> HIDE DEF ClTyped, Waiting
  <2> QED
    BY <2>1, <2>3, <2>4, <2>5, <2>6, WaitingKept
<1>31. ASSUME NEW n \in Cl!Links, Cl!RxFails(n) PROVE Waiting'
  <2>1. Cl!Rx(n) \in Cl!Threads
    BY ThreadNames DEF Cl!Threads
  <2>2. \E y : y \notin {"join rx", "close"} /\ at' = [at EXCEPT ![Cl!Rx(n)] = y]
    BY <1>31, <2>1 DEF Cl!RxFails, Cl!Go
  <2>3. self'.io = self.io /\ (overtaken => overtaken')
    BY <1>31 DEF Cl!RxFails, Cl!Go
  <2>4. \A u \in Cl!Threads \ {Cl!Rx(n)} : ref'[u] = ref[u] /\ since'[u] = since[u]
    BY <1>31, <2>1 DEF Cl!RxFails, Cl!Go
  <2>5. PICK y : y \notin {"join rx", "close"} /\ at' = [at EXCEPT ![Cl!Rx(n)] = y]
    BY <2>2
  <2>6. self.io \in Cl!Links \cup {Cl!NoLink}
    OBVIOUS
  <2> HIDE DEF ClTyped, Waiting
  <2> QED
    BY <2>1, <2>3, <2>4, <2>5, <2>6, WaitingKept
<1>32. ASSUME NEW n \in Cl!Links, Cl!RxEnd(n) PROVE Waiting'
  <2>1. Cl!Rx(n) \in Cl!Threads
    BY ThreadNames DEF Cl!Threads
  <2>2. \E y : y \notin {"join rx", "close"} /\ at' = [at EXCEPT ![Cl!Rx(n)] = y]
    BY <1>32, <2>1 DEF Cl!RxEnd, Cl!Go, Cl!Overtakes
  <2>3. self'.io = self.io /\ (overtaken => overtaken')
    BY <1>32 DEF Cl!RxEnd, Cl!Go, Cl!Overtakes
  <2>4. \A u \in Cl!Threads \ {Cl!Rx(n)} : ref'[u] = ref[u] /\ since'[u] = since[u]
    BY <1>32, <2>1 DEF Cl!RxEnd, Cl!Go, Cl!Overtakes
  <2>5. PICK y : y \notin {"join rx", "close"} /\ at' = [at EXCEPT ![Cl!Rx(n)] = y]
    BY <2>2
  <2>6. self.io \in Cl!Links \cup {Cl!NoLink}
    OBVIOUS
  <2> HIDE DEF ClTyped, Waiting
  <2> QED
    BY <2>1, <2>3, <2>4, <2>5, <2>6, WaitingKept
<1>33. ASSUME NEW n \in Cl!Links, Cl!RxClosed(n) PROVE Waiting'
  <2>1. self'.io = self.io /\ overtaken' = overtaken /\ ref' = ref /\ since' = since
    <3>1. CASE self.shutdown
      BY <1>33, <3>1 DEF Cl!RxClosed
    <3>2. CASE ~self.shutdown
      BY <1>33, <3>2 DEF Cl!RxClosed
    <3> QED
      BY <3>1, <3>2
  <2>2. \A u \in Cl!Threads : at'[u] = at[u] \/ at'[u] \in {"dead", "again"}
    <3>1. {Cl!Rx(n), Cl!Rc(n)} \subseteq Cl!Threads
      BY ThreadNames
    <3>2. CASE self.shutdown
      BY <1>33, <3>1, <3>2 DEF Cl!RxClosed, Cl!Go
    <3>3. CASE ~self.shutdown
      BY <1>33, <3>1, <3>3 DEF Cl!RxClosed
    <3> QED
      BY <3>2, <3>3
  <2>3. self.io \in Cl!Links \/ \A u \in Cl!Threads : self.io \notin since[u]
    BY LinksAssumption DEF Cl!Links, Cl!NoLink
  <2> HIDE DEF ClTyped
  <2>4. ASSUME NEW u \in Cl!Threads, ~overtaken', self.io \in since[u], InLoop(self.io)'
        PROVE  (at'[u] = "join rx" => ref[u] = Cl!Rx(self.io)) /\ at'[u] # "close"
    <3>1. InLoop(self.io)
      BY <2>1, <2>3, <2>4 DEF InLoop
    <3> QED
      BY <2>1, <2>2, <2>4, <3>1
  <2> QED
    BY <2>1, <2>4
<1>34. ASSUME NEW n \in Cl!Links, Cl!Reconnect(n) PROVE Waiting'
  <2>1. Cl!Rc(n) \in Cl!Threads
    BY ThreadNames DEF Cl!Threads
  <2>2. \E y : y \notin {"join rx", "close"} /\ at' = [at EXCEPT ![Cl!Rc(n)] = y]
    BY <1>34, <2>1 DEF Cl!Reconnect, Cl!CallConnect, Cl!Go
  <2>3. self'.io = self.io /\ (overtaken => overtaken')
    BY <1>34 DEF Cl!Reconnect, Cl!CallConnect, Cl!Go
  <2>4. \A u \in Cl!Threads \ {Cl!Rc(n)} : ref'[u] = ref[u] /\ since'[u] = since[u]
    BY <1>34, <2>1 DEF Cl!Reconnect, Cl!CallConnect, Cl!Go
  <2>5. PICK y : y \notin {"join rx", "close"} /\ at' = [at EXCEPT ![Cl!Rc(n)] = y]
    BY <2>2
  <2>6. self.io \in Cl!Links \cup {Cl!NoLink}
    OBVIOUS
  <2> HIDE DEF ClTyped, Waiting
  <2> QED
    BY <2>1, <2>3, <2>4, <2>5, <2>6, WaitingKept
<1>35. ASSUME NEW n \in Cl!Links, Cl!ReconnectFailed(n) PROVE Waiting'
  <2>1. Cl!Rc(n) \in Cl!Threads
    BY ThreadNames DEF Cl!Threads
  <2>2. \E y : y \notin {"join rx", "close"} /\ at' = [at EXCEPT ![Cl!Rc(n)] = y]
    BY <1>35, <2>1 DEF Cl!ReconnectFailed, Cl!Go
  <2>3. self'.io = self.io /\ (overtaken => overtaken')
    BY <1>35 DEF Cl!ReconnectFailed, Cl!Go
  <2>4. \A u \in Cl!Threads \ {Cl!Rc(n)} : ref'[u] = ref[u] /\ since'[u] = since[u]
    BY <1>35, <2>1 DEF Cl!ReconnectFailed, Cl!Go
  <2>5. PICK y : y \notin {"join rx", "close"} /\ at' = [at EXCEPT ![Cl!Rc(n)] = y]
    BY <2>2
  <2>6. self.io \in Cl!Links \cup {Cl!NoLink}
    OBVIOUS
  <2> HIDE DEF ClTyped, Waiting
  <2> QED
    BY <2>1, <2>3, <2>4, <2>5, <2>6, WaitingKept
<1>36. ASSUME NEW n \in Cl!Links, Cl!ReconnectOver(n) PROVE Waiting'
  <2>1. Cl!Rc(n) \in Cl!Threads
    BY ThreadNames DEF Cl!Threads
  <2>2. \E y : y \notin {"join rx", "close"} /\ at' = [at EXCEPT ![Cl!Rc(n)] = y]
    BY <1>36, <2>1 DEF Cl!ReconnectOver, Cl!Go
  <2>3. self'.io = self.io /\ (overtaken => overtaken')
    BY <1>36 DEF Cl!ReconnectOver, Cl!Go
  <2>4. \A u \in Cl!Threads \ {Cl!Rc(n)} : ref'[u] = ref[u] /\ since'[u] = since[u]
    BY <1>36, <2>1 DEF Cl!ReconnectOver, Cl!Go
  <2>5. PICK y : y \notin {"join rx", "close"} /\ at' = [at EXCEPT ![Cl!Rc(n)] = y]
    BY <2>2
  <2>6. self.io \in Cl!Links \cup {Cl!NoLink}
    OBVIOUS
  <2> HIDE DEF ClTyped, Waiting
  <2> QED
    BY <2>1, <2>3, <2>4, <2>5, <2>6, WaitingKept
<1>37. ASSUME Cl!Lose PROVE Waiting'
  <2>1. self' = self /\ at' = at /\ ref' = ref /\ since' = since /\ overtaken' = overtaken
    BY <1>37 DEF Cl!Lose
  <2> QED
    BY <2>1, LinksAssumption DEF Cl!Links, Cl!NoLink
<1> QED
  BY <1>1, <1>2, <1>3, <1>4, <1>5, <1>6, <1>7, <1>8, <1>9, <1>10, <1>11, <1>12, <1>13, <1>14, <1>15, <1>16, <1>17, <1>18, <1>19, <1>20, <1>21, <1>22, <1>23, <1>24, <1>25, <1>26, <1>27, <1>28, <1>29, <1>30, <1>31, <1>32, <1>33, <1>34, <1>35, <1>36, <1>37
     DEF Cl!Next, Cl!Connecting, Cl!Disconnecting, Cl!TxStep, Cl!RxStep, Cl!RcStep

-----------------------------------------------------------------------------
(* The threads which serve a connection.                                   *)

\* The rx thread of connection n calls connect() only for a heartbeat.
Beating == \A n \in Cl!Links : stack[Cl!Rx(n)] # << >> => stack[Cl!Rx(n)][1] = "heartbeat"

\* A connection which is open has its threads, or is about to get them.
OpenIsServed ==
  Cl!Io = "open" =>
    \/ at[Cl!Rx(self.io)] # "none"
    \/ \E t \in Cl!Threads : at[t] \in {"start", "identified"}

\* Connection n was the last to get its threads, and if one of them has ended so has the
\* other, or will.
Runs(n) ==
  /\ at[Cl!Rx(n)] # "none" /\ \A m \in Cl!Links : m > n => at[Cl!Rx(m)] = "none"
  /\ InLoop(n) \/ at[Cl!Rx(n)] \in {"quit", "stop"}
  /\ at[Cl!Tx(n)] \in {"loop", "get", "send", "end", "quit"} \/ link[n] # "open"

RunsLast == self.running => \E n \in Cl!Links : Runs(n)

\* What a thread was called for first is kept as long as it is called.
LEMMA BeatingKept ==
  ASSUME ClTyped, Beating, NEW t \in Cl!Threads, NEW s, stack' = [stack EXCEPT ![t] = s],
         s = << >> \/ (stack[t] # << >> /\ s[1] = stack[t][1])
  PROVE  Beating'
BY ThreadNames DEF ClTyped, Beating

\* The rx thread calls connect() only for a heartbeat.
LEMMA BeatingStep ==
  ASSUME ClTyped, Stacked, Beating, Cl!Next PROVE Beating'
<1> USE DEF ClTyped, Beating, Cl!env, Cl!history
<1>1. ASSUME NEW u \in Clients, Cl!Request(u) PROVE Beating'
  <2>1. u \in Cl!Threads /\ \A m \in Cl!Links : u # Cl!Rx(m)
    BY ThreadNames DEF Cl!Threads
  <2> QED
    BY <1>1, <2>1 DEF Cl!Request, Cl!CallConnect, Cl!Go
<1>2. ASSUME NEW u \in Clients, Cl!Disconnect(u) PROVE Beating'
  BY <1>2 DEF Cl!Disconnect, Cl!Go
<1>3. ASSUME NEW t \in Cl!Threads, Cl!Lock(t) PROVE Beating'
  <2>1. CASE self.io # Cl!NoLink
    <3>1. Cl!ReturnFromConnect(t, "lock")
      BY <1>3, <2>1 DEF Cl!Lock
    <3> QED
      BY <3>1, ConnectReturns, ThreadNames
  <2>2. CASE self.io = Cl!NoLink
    BY <1>3, <2>2 DEF Cl!Lock
  <2> QED
    BY <2>1, <2>2
<1>4. ASSUME NEW t \in Cl!Threads, Cl!TryShutdown(t) PROVE Beating'
  <2>1. Cl!ReturnFromConnect(t, "try")
    BY <1>4 DEF Cl!TryShutdown
  <2> HIDE DEF ClTyped, Beating
  <2>2. stack' = stack \/ stack' = [stack EXCEPT ![t] = << >>]
    BY <2>1, ConnectReturns
  <2>3. CASE stack' = stack
    BY <2>3 DEF Beating
  <2> QED
    BY <2>2, <2>3, BeatingKept
<1>5. ASSUME NEW t \in Cl!Threads, Cl!Open(t) PROVE Beating'
  BY <1>5 DEF Cl!Open, Cl!Go
<1>6. ASSUME NEW t \in Cl!Threads, Cl!Refused(t) PROVE Beating'
  BY <1>6 DEF Cl!Refused, Cl!Go
<1>7. ASSUME NEW t \in Cl!Threads, Cl!Identified(t) PROVE Beating'
  BY <1>7 DEF Cl!Identified, Cl!Go
<1>8. ASSUME NEW t \in Cl!Threads, Cl!NotIdentified(t) PROVE Beating'
  BY <1>8 DEF Cl!NotIdentified, Cl!Go
<1>9. ASSUME NEW t \in Cl!Threads, Cl!Start(t) PROVE Beating'
  <2>1. stack[t] \in Stacks /\ stack[t] # << >>
    BY <1>9 DEF Cl!Start, Stacked, Cl!Calling
  <2>2. Append(stack[t], "describe")[1] = stack[t][1]
    BY <2>1 DEF Stacks
  <2>3. stack' = [stack EXCEPT ![t] = Append(@, "describe")]
    BY <1>9 DEF Cl!Start
  <2> QED
    BY <2>1, <2>2, <2>3, ThreadNames
<1>10. ASSUME NEW t \in Cl!Threads, Cl!Connect(t) PROVE Beating'
  <2>1. Cl!ReturnFromConnect(t, "connected")
    BY <1>10 DEF Cl!Connect
  <2> HIDE DEF ClTyped, Beating
  <2>2. stack' = stack \/ stack' = [stack EXCEPT ![t] = << >>]
    BY <2>1, ConnectReturns
  <2>3. CASE stack' = stack
    BY <2>3 DEF Beating
  <2> QED
    BY <2>2, <2>3, BeatingKept
<1>11. ASSUME NEW t \in Cl!Threads, Cl!GiveUp(t) PROVE Beating'
  <2>1. Cl!Raise(t, "except")
    BY <1>11 DEF Cl!GiveUp
  <2>2. stack[t] \in Stacks
    OBVIOUS
  <2> HIDE DEF ClTyped, Beating
  <2>3. PICK s : /\ stack' = [stack EXCEPT ![t] = s]
                 /\ s = << >> \/ (stack[t] # << >> /\ s[1] = stack[t][1])
    BY <2>1, <2>2, CallRaises, Bottom
  <2> QED
    BY <2>3, BeatingKept
<1>12. ASSUME NEW t \in Cl!Threads, Cl!Retry(t) PROVE Beating'
  BY <1>12 DEF Cl!Retry, Cl!Go
<1>13. ASSUME NEW t \in Cl!Threads, Cl!Put(t) PROVE Beating'
  BY <1>13 DEF Cl!Put, Cl!Go
<1>14. ASSUME NEW t \in Cl!Threads, Cl!GetReply(t) PROVE Beating'
  <2>1. stack[t] \in Stacks
    OBVIOUS
  <2> HIDE DEF ClTyped, Beating
  <2>3. PICK s : /\ stack' = [stack EXCEPT ![t] = s]
                 /\ s = << >> \/ (stack[t] # << >> /\ s[1] = stack[t][1])
    BY <1>14, <2>1, ReplyCame, Bottom
  <2> QED
    BY <2>3, BeatingKept
<1>15. ASSUME NEW t \in Cl!Threads, Cl!NoReply(t) PROVE Beating'
  <2>1. Cl!Raise(t, "wait")
    BY <1>15 DEF Cl!NoReply
  <2>2. stack[t] \in Stacks
    OBVIOUS
  <2> HIDE DEF ClTyped, Beating
  <2>3. PICK s : /\ stack' = [stack EXCEPT ![t] = s]
                 /\ s = << >> \/ (stack[t] # << >> /\ s[1] = stack[t][1])
    BY <2>1, <2>2, CallRaises, Bottom
  <2> QED
    BY <2>3, BeatingKept
<1>16. ASSUME NEW t \in Cl!Threads, Cl!Stop(t) PROVE Beating'
  BY <1>16 DEF Cl!Stop, Cl!Go, Cl!AfterDisconnect
<1>17. ASSUME NEW t \in Cl!Threads, Cl!Drain(t) PROVE Beating'
  BY <1>17 DEF Cl!Drain, Cl!Go
<1>18. ASSUME NEW t \in Cl!Threads, Cl!TestTxThread(t) PROVE Beating'
  BY <1>18 DEF Cl!TestTxThread, Cl!Go
<1>19. ASSUME NEW t \in Cl!Threads, Cl!TestRxThread(t) PROVE Beating'
  BY <1>19 DEF Cl!TestRxThread, Cl!Go
<1>20. ASSUME NEW t \in Cl!Threads, Cl!JoinFails(t) PROVE Beating'
  BY <1>20 DEF Cl!JoinFails, Cl!Go, Cl!AfterFailure
<1>21. ASSUME NEW t \in Cl!Threads, Cl!Joined(t) PROVE Beating'
  BY <1>21 DEF Cl!Joined, Cl!Go, Cl!Overtakes
<1>22. ASSUME NEW t \in Cl!Threads, Cl!Close(t) PROVE Beating'
  BY <1>22 DEF Cl!Close, Cl!Go, Cl!AfterDisconnect, Cl!Overtakes
<1>23. ASSUME NEW n \in Cl!Links, Cl!TxLoop(n) PROVE Beating'
  BY <1>23, ThreadNames DEF Cl!TxLoop, Cl!Go
<1>24. ASSUME NEW n \in Cl!Links, Cl!TxGet(n) PROVE Beating'
  BY <1>24, ThreadNames DEF Cl!TxGet, Cl!Go
<1>25. ASSUME NEW n \in Cl!Links, Cl!TxSend(n) PROVE Beating'
  BY <1>25, ThreadNames DEF Cl!TxSend, Cl!Go
<1>26. ASSUME NEW n \in Cl!Links, Cl!TxEnd(n) PROVE Beating'
  BY <1>26, ThreadNames DEF Cl!TxEnd, Cl!Go, Cl!Overtakes
<1>27. ASSUME NEW n \in Cl!Links, Cl!RxStops(n) PROVE Beating'
  BY <1>27, ThreadNames DEF Cl!RxStops, Cl!Go
<1>28. ASSUME NEW n \in Cl!Links, Cl!Receive(n) PROVE Beating'
  BY <1>28, ThreadNames DEF Cl!Receive
<1>29. ASSUME NEW n \in Cl!Links, Cl!Heartbeat(n) PROVE Beating'
  <2>1. stack[Cl!Rx(n)] = << >> /\ stack' = [stack EXCEPT ![Cl!Rx(n)] = Append(@, "heartbeat")]
    BY <1>29, ThreadNames DEF Cl!Heartbeat, Cl!CallConnect, Cl!Go, Stacked, Cl!Calling
  <2> QED
    BY <2>1, ThreadNames
<1>30. ASSUME NEW n \in Cl!Links, Cl!ConnectionClosed(n) PROVE Beating'
  BY <1>30, ThreadNames DEF Cl!ConnectionClosed, Cl!Go
<1>31. ASSUME NEW n \in Cl!Links, Cl!RxFails(n) PROVE Beating'
  BY <1>31, ThreadNames DEF Cl!RxFails, Cl!Go
<1>32. ASSUME NEW n \in Cl!Links, Cl!RxEnd(n) PROVE Beating'
  BY <1>32, ThreadNames DEF Cl!RxEnd, Cl!Go, Cl!Overtakes
<1>33. ASSUME NEW n \in Cl!Links, Cl!RxClosed(n) PROVE Beating'
  BY <1>33, ThreadNames DEF Cl!RxClosed, Cl!Go
<1>34. ASSUME NEW n \in Cl!Links, Cl!Reconnect(n) PROVE Beating'
  <2>1. stack' = stack \/ \E s : stack' = [stack EXCEPT ![Cl!Rc(n)] = s]
    BY <1>34 DEF Cl!Reconnect, Cl!CallConnect
  <2> QED
    BY <2>1, ThreadNames
<1>35. ASSUME NEW n \in Cl!Links, Cl!ReconnectFailed(n) PROVE Beating'
  BY <1>35, ThreadNames DEF Cl!ReconnectFailed, Cl!Go
<1>36. ASSUME NEW n \in Cl!Links, Cl!ReconnectOver(n) PROVE Beating'
  BY <1>36, ThreadNames DEF Cl!ReconnectOver, Cl!Go
<1>37. ASSUME Cl!Lose PROVE Beating'
  BY <1>37 DEF Cl!Lose
<1> QED
  BY <1>1, <1>2, <1>3, <1>4, <1>5, <1>6, <1>7, <1>8, <1>9, <1>10, <1>11, <1>12, <1>13, <1>14, <1>15, <1>16, <1>17, <1>18, <1>19, <1>20, <1>21, <1>22, <1>23, <1>24, <1>25, <1>26, <1>27, <1>28, <1>29, <1>30, <1>31, <1>32, <1>33, <1>34, <1>35, <1>36, <1>37
     DEF Cl!Next, Cl!Connecting, Cl!Disconnecting, Cl!TxStep, Cl!RxStep, Cl!RcStep

\* No thread gets ready to serve, or to start serving, and none ceases to.
LEMMA OpenKept ==
  ASSUME ClTyped, OpenIsServed, NEW t \in Cl!Threads, NEW y, at' = [at EXCEPT ![t] = y],
         at[t] # "none" => y # "none", at[t] \notin {"start", "identified"} \/ Cl!Io # "open",
         self'.io = self.io \/ self'.io = Cl!NoLink,
         \A n \in Cl!Links : link'[n] = "open" => link[n] = "open"
  PROVE  OpenIsServed'
<1>1. Cl!Io' = "open" => Cl!Io = "open" /\ self'.io = self.io /\ self.io \in Cl!Links
  BY DEF Cl!Io, ClTyped, Attributes
<1>2. \A u \in Cl!Threads : at[u] # "none" => at'[u] # "none"
  BY DEF ClTyped
<1>3. \A u \in Cl!Threads : Cl!Io = "open" /\ at[u] \in {"start", "identified"} => at'[u] = at[u]
  BY DEF ClTyped
<1> QED
  BY <1>1, <1>2, <1>3, ThreadNames DEF OpenIsServed

\* An open connection has its threads, or will get them.
LEMMA OpenStep ==
  ASSUME ClTyped, Stacked, Numbered, Starting, OpenIsServed, Cl!Next PROVE OpenIsServed'
<1> USE DEF ClTyped, Attributes, Cl!env, Cl!history
<1>1. ASSUME NEW u \in Clients, Cl!Request(u) PROVE OpenIsServed'
  <2>1. u \in Cl!Threads
    BY ThreadNames DEF Cl!Threads
  <2>2. at[u] \notin {"start", "identified"} /\ \E y : y # "none" /\ at' = [at EXCEPT ![u] = y]
    BY <1>1, <2>1 DEF Cl!Request, Cl!CallConnect, Cl!Go
  <2>3. self'.io = self.io /\ link' = link
    BY <1>1 DEF Cl!Request, Cl!CallConnect, Cl!Go
  <2>4. PICK y : y # "none" /\ at' = [at EXCEPT ![u] = y]
    BY <2>2
  <2> HIDE DEF ClTyped
  <2> QED
    BY <2>1, <2>2, <2>3, <2>4, OpenKept
<1>2. ASSUME NEW u \in Clients, Cl!Disconnect(u) PROVE OpenIsServed'
  <2>1. u \in Cl!Threads
    BY ThreadNames DEF Cl!Threads
  <2>2. at[u] \notin {"start", "identified"} /\ \E y : y # "none" /\ at' = [at EXCEPT ![u] = y]
    BY <1>2, <2>1 DEF Cl!Disconnect, Cl!Go
  <2>3. self'.io = self.io /\ link' = link
    BY <1>2 DEF Cl!Disconnect, Cl!Go
  <2>4. PICK y : y # "none" /\ at' = [at EXCEPT ![u] = y]
    BY <2>2
  <2> HIDE DEF ClTyped
  <2> QED
    BY <2>1, <2>2, <2>3, <2>4, OpenKept
<1>3. ASSUME NEW t \in Cl!Threads, Cl!Lock(t) PROVE OpenIsServed'
  <2>1. t \in Cl!Threads
    BY ThreadNames DEF Cl!Threads
  <2>2. at[t] \notin {"start", "identified"} /\ \E y : y # "none" /\ at' = [at EXCEPT ![t] = y]
    <3>1. CASE self.io # Cl!NoLink
      <4>1. Cl!ReturnFromConnect(t, "lock")
        BY <1>3, <3>1 DEF Cl!Lock
      <4> HIDE DEF ClTyped
      <4> QED
        BY <4>1, ConnectReturns
    <3>2. CASE self.io = Cl!NoLink
      BY <1>3, <3>2 DEF Cl!Lock, Cl!Go
    <3> QED
      BY <3>1, <3>2
  <2>3. self'.io = self.io /\ link' = link
    <3>1. CASE self.io # Cl!NoLink
      BY <1>3, <3>1 DEF Cl!Lock
    <3>2. CASE self.io = Cl!NoLink
      BY <1>3, <3>2 DEF Cl!Lock
    <3> QED
      BY <3>1, <3>2
  <2>4. PICK y : y # "none" /\ at' = [at EXCEPT ![t] = y]
    BY <2>2
  <2> HIDE DEF ClTyped
  <2> QED
    BY <2>1, <2>2, <2>3, <2>4, OpenKept
<1>4. ASSUME NEW t \in Cl!Threads, Cl!TryShutdown(t) PROVE OpenIsServed'
  <2>0. Cl!ReturnFromConnect(t, "try")
    BY <1>4 DEF Cl!TryShutdown
  <2>1. t \in Cl!Threads
    BY ThreadNames DEF Cl!Threads
  <2>2. at[t] \notin {"start", "identified"} /\ \E y : y # "none" /\ at' = [at EXCEPT ![t] = y]
    <3> HIDE DEF ClTyped
    <3> QED
      BY <2>0, <2>1, ConnectReturns
  <2>3. self'.io = self.io /\ link' = link
    BY <1>4 DEF Cl!TryShutdown
  <2>4. PICK y : y # "none" /\ at' = [at EXCEPT ![t] = y]
    BY <2>2
  <2> HIDE DEF ClTyped
  <2> QED
    BY <2>1, <2>2, <2>3, <2>4, OpenKept
<1>5. ASSUME NEW t \in Cl!Threads, Cl!Open(t) PROVE OpenIsServed'
  <2>1. at' = [at EXCEPT ![t] = "start"]
    BY <1>5 DEF Cl!Open, Cl!Go
  <2>2. at'[t] = "start"
    BY <2>1
  <2> QED
    BY <2>2 DEF OpenIsServed
<1>6. ASSUME NEW t \in Cl!Threads, Cl!Refused(t) PROVE OpenIsServed'
  <2>1. t \in Cl!Threads
    BY ThreadNames DEF Cl!Threads
  <2>2. at[t] \notin {"start", "identified"} /\ \E y : y # "none" /\ at' = [at EXCEPT ![t] = y]
    BY <1>6, <2>1 DEF Cl!Refused, Cl!Go
  <2>3. self'.io = self.io /\ link' = link
    BY <1>6 DEF Cl!Refused, Cl!Go
  <2>4. PICK y : y # "none" /\ at' = [at EXCEPT ![t] = y]
    BY <2>2
  <2> HIDE DEF ClTyped
  <2> QED
    BY <2>1, <2>2, <2>3, <2>4, OpenKept
<1>7. ASSUME NEW t \in Cl!Threads, Cl!Identified(t) PROVE OpenIsServed'
  <2>1. at' = [at EXCEPT ![t] = "identified"]
    BY <1>7 DEF Cl!Identified, Cl!Go
  <2>2. at'[t] = "identified"
    BY <2>1
  <2> QED
    BY <2>2 DEF OpenIsServed
<1>8. ASSUME NEW t \in Cl!Threads, Cl!NotIdentified(t) PROVE OpenIsServed'
  <2>1. at' = [at EXCEPT ![t] = "except"] /\ Cl!Io # "open" /\ self' = self /\ link' = link
    BY <1>8 DEF Cl!NotIdentified, Cl!Go
  <2> HIDE DEF ClTyped
  <2> QED
    BY <2>1, OpenKept
<1>9. ASSUME NEW t \in Cl!Threads, Cl!Start(t) PROVE OpenIsServed'
  <2>1. /\ self'.io = self.io /\ link' = link /\ Cl!Made \in Cl!Links
        /\ at' = [at EXCEPT ![t] = "lock", ![Cl!Rx(Cl!Made)] = "read", ![Cl!Tx(Cl!Made)] = "loop"]
    BY <1>9 DEF Cl!Start, Starting
  <2>2. Cl!Rx(Cl!Made) \in Cl!Threads /\ Cl!Tx(Cl!Made) # Cl!Rx(Cl!Made)
    BY <2>1, ThreadNames
  <2>3. at'[Cl!Rx(Cl!Made)] = "read"
    BY <2>1, <2>2
  <2>4. Cl!Io' = "open" => self.io = Cl!Made
    BY <2>1 DEF Cl!Io, Numbered
  <2> QED
    BY <2>1, <2>3, <2>4 DEF OpenIsServed
<1>10. ASSUME NEW t \in Cl!Threads, Cl!Connect(t) PROVE OpenIsServed'
  <2>0. Cl!ReturnFromConnect(t, "connected")
    BY <1>10 DEF Cl!Connect
  <2>1. t \in Cl!Threads
    BY ThreadNames DEF Cl!Threads
  <2>2. at[t] \notin {"start", "identified"} /\ \E y : y # "none" /\ at' = [at EXCEPT ![t] = y]
    <3> HIDE DEF ClTyped
    <3> QED
      BY <2>0, <2>1, ConnectReturns
  <2>3. self'.io = self.io /\ link' = link
    BY <1>10 DEF Cl!Connect
  <2>4. PICK y : y # "none" /\ at' = [at EXCEPT ![t] = y]
    BY <2>2
  <2> HIDE DEF ClTyped
  <2> QED
    BY <2>1, <2>2, <2>3, <2>4, OpenKept
<1>11. ASSUME NEW t \in Cl!Threads, Cl!GiveUp(t) PROVE OpenIsServed'
  <2>0. Cl!Raise(t, "except")
    BY <1>11 DEF Cl!GiveUp
  <2>1. t \in Cl!Threads
    BY ThreadNames DEF Cl!Threads
  <2>2. at[t] \notin {"start", "identified"} /\ \E y : y # "none" /\ at' = [at EXCEPT ![t] = y]
    <3> HIDE DEF ClTyped
    <3> QED
      BY <2>0, <2>1, CallRaises
  <2>3. self'.io = self.io /\ link' = link
    BY <1>11 DEF Cl!GiveUp
  <2>4. PICK y : y # "none" /\ at' = [at EXCEPT ![t] = y]
    BY <2>2
  <2> HIDE DEF ClTyped
  <2> QED
    BY <2>1, <2>2, <2>3, <2>4, OpenKept
<1>12. ASSUME NEW t \in Cl!Threads, Cl!Retry(t) PROVE OpenIsServed'
  <2>1. t \in Cl!Threads
    BY ThreadNames DEF Cl!Threads
  <2>2. at[t] \notin {"start", "identified"} /\ \E y : y # "none" /\ at' = [at EXCEPT ![t] = y]
    BY <1>12, <2>1 DEF Cl!Retry, Cl!Go
  <2>3. self'.io = self.io /\ link' = link
    BY <1>12 DEF Cl!Retry, Cl!Go
  <2>4. PICK y : y # "none" /\ at' = [at EXCEPT ![t] = y]
    BY <2>2
  <2> HIDE DEF ClTyped
  <2> QED
    BY <2>1, <2>2, <2>3, <2>4, OpenKept
<1>13. ASSUME NEW t \in Cl!Threads, Cl!Put(t) PROVE OpenIsServed'
  <2>1. t \in Cl!Threads
    BY ThreadNames DEF Cl!Threads
  <2>2. at[t] \notin {"start", "identified"} /\ \E y : y # "none" /\ at' = [at EXCEPT ![t] = y]
    BY <1>13, <2>1 DEF Cl!Put, Cl!Go
  <2>3. self'.io = self.io /\ link' = link
    BY <1>13 DEF Cl!Put, Cl!Go
  <2>4. PICK y : y # "none" /\ at' = [at EXCEPT ![t] = y]
    BY <2>2
  <2> HIDE DEF ClTyped
  <2> QED
    BY <2>1, <2>2, <2>3, <2>4, OpenKept
<1>14. ASSUME NEW t \in Cl!Threads, Cl!GetReply(t) PROVE OpenIsServed'
  <2>1. t \in Cl!Threads
    BY ThreadNames DEF Cl!Threads
  <2>2. at[t] \notin {"start", "identified"} /\ \E y : y # "none" /\ at' = [at EXCEPT ![t] = y]
    <3> HIDE DEF ClTyped
    <3> QED
      BY <1>14, <2>1, ReplyCame
  <2>3. self'.io = self.io /\ link' = link
    BY <1>14, ReplyCame DEF Cl!GetReply
  <2>4. PICK y : y # "none" /\ at' = [at EXCEPT ![t] = y]
    BY <2>2
  <2> HIDE DEF ClTyped
  <2> QED
    BY <2>1, <2>2, <2>3, <2>4, OpenKept
<1>15. ASSUME NEW t \in Cl!Threads, Cl!NoReply(t) PROVE OpenIsServed'
  <2>0. Cl!Raise(t, "wait")
    BY <1>15 DEF Cl!NoReply
  <2>1. t \in Cl!Threads
    BY ThreadNames DEF Cl!Threads
  <2>2. at[t] \notin {"start", "identified"} /\ \E y : y # "none" /\ at' = [at EXCEPT ![t] = y]
    <3> HIDE DEF ClTyped
    <3> QED
      BY <2>0, <2>1, CallRaises
  <2>3. self'.io = self.io /\ link' = link
    BY <1>15 DEF Cl!NoReply
  <2>4. PICK y : y # "none" /\ at' = [at EXCEPT ![t] = y]
    BY <2>2
  <2> HIDE DEF ClTyped
  <2> QED
    BY <2>1, <2>2, <2>3, <2>4, OpenKept
<1>16. ASSUME NEW t \in Cl!Threads, Cl!Stop(t) PROVE OpenIsServed'
  <2>1. t \in Cl!Threads
    BY ThreadNames DEF Cl!Threads
  <2>2. at[t] \notin {"start", "identified"} /\ \E y : y # "none" /\ at' = [at EXCEPT ![t] = y]
    BY <1>16, <2>1 DEF Cl!Stop, Cl!Go, Cl!AfterDisconnect
  <2>3. self'.io = self.io /\ link' = link
    BY <1>16 DEF Cl!Stop, Cl!Go, Cl!AfterDisconnect
  <2>4. PICK y : y # "none" /\ at' = [at EXCEPT ![t] = y]
    BY <2>2
  <2> HIDE DEF ClTyped
  <2> QED
    BY <2>1, <2>2, <2>3, <2>4, OpenKept
<1>17. ASSUME NEW t \in Cl!Threads, Cl!Drain(t) PROVE OpenIsServed'
  <2>1. at[t] \notin {"start", "identified"} /\ \E y : y # "none" /\ at' = [at EXCEPT ![t] = y]
    BY <1>17 DEF Cl!Drain, Cl!Go
  <2>2. self'.io = self.io \/ self'.io = Cl!NoLink
    BY <1>17 DEF Cl!Drain, Cl!Go
  <2>3. \A n \in Cl!Links : link'[n] = "open" => link[n] = "open"
    BY <1>17 DEF Cl!Drain, Cl!Go
  <2>4. PICK y : y # "none" /\ at' = [at EXCEPT ![t] = y]
    BY <2>1
  <2> HIDE DEF ClTyped
  <2> QED
    BY <2>1, <2>2, <2>3, <2>4, OpenKept
<1>18. ASSUME NEW t \in Cl!Threads, Cl!TestTxThread(t) PROVE OpenIsServed'
  <2>1. t \in Cl!Threads
    BY ThreadNames DEF Cl!Threads
  <2>2. at[t] \notin {"start", "identified"} /\ \E y : y # "none" /\ at' = [at EXCEPT ![t] = y]
    BY <1>18, <2>1 DEF Cl!TestTxThread, Cl!Go
  <2>3. self'.io = self.io /\ link' = link
    BY <1>18 DEF Cl!TestTxThread, Cl!Go
  <2>4. PICK y : y # "none" /\ at' = [at EXCEPT ![t] = y]
    BY <2>2
  <2> HIDE DEF ClTyped
  <2> QED
    BY <2>1, <2>2, <2>3, <2>4, OpenKept
<1>19. ASSUME NEW t \in Cl!Threads, Cl!TestRxThread(t) PROVE OpenIsServed'
  <2>1. t \in Cl!Threads
    BY ThreadNames DEF Cl!Threads
  <2>2. at[t] \notin {"start", "identified"} /\ \E y : y # "none" /\ at' = [at EXCEPT ![t] = y]
    BY <1>19, <2>1 DEF Cl!TestRxThread, Cl!Go
  <2>3. self'.io = self.io /\ link' = link
    BY <1>19 DEF Cl!TestRxThread, Cl!Go
  <2>4. PICK y : y # "none" /\ at' = [at EXCEPT ![t] = y]
    BY <2>2
  <2> HIDE DEF ClTyped
  <2> QED
    BY <2>1, <2>2, <2>3, <2>4, OpenKept
<1>20. ASSUME NEW t \in Cl!Threads, Cl!JoinFails(t) PROVE OpenIsServed'
  <2>1. t \in Cl!Threads
    BY ThreadNames DEF Cl!Threads
  <2>2. at[t] \notin {"start", "identified"} /\ \E y : y # "none" /\ at' = [at EXCEPT ![t] = y]
    BY <1>20, <2>1 DEF Cl!JoinFails, Cl!Go, Cl!AfterFailure
  <2>3. self'.io = self.io /\ link' = link
    BY <1>20 DEF Cl!JoinFails, Cl!Go, Cl!AfterFailure
  <2>4. PICK y : y # "none" /\ at' = [at EXCEPT ![t] = y]
    BY <2>2
  <2> HIDE DEF ClTyped
  <2> QED
    BY <2>1, <2>2, <2>3, <2>4, OpenKept
<1>21. ASSUME NEW t \in Cl!Threads, Cl!Joined(t) PROVE OpenIsServed'
  <2>1. t \in Cl!Threads
    BY ThreadNames DEF Cl!Threads
  <2>2. at[t] \notin {"start", "identified"} /\ \E y : y # "none" /\ at' = [at EXCEPT ![t] = y]
    BY <1>21, <2>1 DEF Cl!Joined, Cl!Go, Cl!Overtakes
  <2>3. self'.io = self.io /\ link' = link
    BY <1>21 DEF Cl!Joined, Cl!Go, Cl!Overtakes
  <2>4. PICK y : y # "none" /\ at' = [at EXCEPT ![t] = y]
    BY <2>2
  <2> HIDE DEF ClTyped
  <2> QED
    BY <2>1, <2>2, <2>3, <2>4, OpenKept
<1>22. ASSUME NEW t \in Cl!Threads, Cl!Close(t) PROVE OpenIsServed'
  <2>1. at[t] \notin {"start", "identified"} /\ \E y : y # "none" /\ at' = [at EXCEPT ![t] = y]
    BY <1>22 DEF Cl!Close, Cl!Go, Cl!AfterDisconnect, Cl!Overtakes
  <2>2. self'.io = self.io \/ self'.io = Cl!NoLink
    BY <1>22 DEF Cl!Close, Cl!Go, Cl!AfterDisconnect, Cl!Overtakes
  <2>3. \A n \in Cl!Links : link'[n] = "open" => link[n] = "open"
    BY <1>22 DEF Cl!Close, Cl!Go, Cl!AfterDisconnect, Cl!Overtakes
  <2>4. PICK y : y # "none" /\ at' = [at EXCEPT ![t] = y]
    BY <2>1
  <2> HIDE DEF ClTyped
  <2> QED
    BY <2>1, <2>2, <2>3, <2>4, OpenKept
<1>23. ASSUME NEW n \in Cl!Links, Cl!TxLoop(n) PROVE OpenIsServed'
  <2>1. Cl!Tx(n) \in Cl!Threads
    BY ThreadNames DEF Cl!Threads
  <2>2. at[Cl!Tx(n)] \notin {"start", "identified"} /\ \E y : y # "none" /\ at' = [at EXCEPT ![Cl!Tx(n)] = y]
    BY <1>23, <2>1 DEF Cl!TxLoop, Cl!Go
  <2>3. self'.io = self.io /\ link' = link
    BY <1>23 DEF Cl!TxLoop, Cl!Go
  <2>4. PICK y : y # "none" /\ at' = [at EXCEPT ![Cl!Tx(n)] = y]
    BY <2>2
  <2> HIDE DEF ClTyped
  <2> QED
    BY <2>1, <2>2, <2>3, <2>4, OpenKept
<1>24. ASSUME NEW n \in Cl!Links, Cl!TxGet(n) PROVE OpenIsServed'
  <2>1. Cl!Tx(n) \in Cl!Threads
    BY ThreadNames DEF Cl!Threads
  <2>2. at[Cl!Tx(n)] \notin {"start", "identified"} /\ \E y : y # "none" /\ at' = [at EXCEPT ![Cl!Tx(n)] = y]
    BY <1>24, <2>1 DEF Cl!TxGet, Cl!Go
  <2>3. self'.io = self.io /\ link' = link
    BY <1>24 DEF Cl!TxGet, Cl!Go
  <2>4. PICK y : y # "none" /\ at' = [at EXCEPT ![Cl!Tx(n)] = y]
    BY <2>2
  <2> HIDE DEF ClTyped
  <2> QED
    BY <2>1, <2>2, <2>3, <2>4, OpenKept
<1>25. ASSUME NEW n \in Cl!Links, Cl!TxSend(n) PROVE OpenIsServed'
  <2>1. Cl!Tx(n) \in Cl!Threads
    BY ThreadNames DEF Cl!Threads
  <2>2. at[Cl!Tx(n)] \notin {"start", "identified"} /\ \E y : y # "none" /\ at' = [at EXCEPT ![Cl!Tx(n)] = y]
    BY <1>25, <2>1 DEF Cl!TxSend, Cl!Go
  <2>3. self'.io = self.io /\ link' = link
    BY <1>25 DEF Cl!TxSend, Cl!Go
  <2>4. PICK y : y # "none" /\ at' = [at EXCEPT ![Cl!Tx(n)] = y]
    BY <2>2
  <2> HIDE DEF ClTyped
  <2> QED
    BY <2>1, <2>2, <2>3, <2>4, OpenKept
<1>26. ASSUME NEW n \in Cl!Links, Cl!TxEnd(n) PROVE OpenIsServed'
  <2>1. Cl!Tx(n) \in Cl!Threads
    BY ThreadNames DEF Cl!Threads
  <2>2. at[Cl!Tx(n)] \notin {"start", "identified"} /\ \E y : y # "none" /\ at' = [at EXCEPT ![Cl!Tx(n)] = y]
    BY <1>26, <2>1 DEF Cl!TxEnd, Cl!Go, Cl!Overtakes
  <2>3. self'.io = self.io /\ link' = link
    BY <1>26 DEF Cl!TxEnd, Cl!Go, Cl!Overtakes
  <2>4. PICK y : y # "none" /\ at' = [at EXCEPT ![Cl!Tx(n)] = y]
    BY <2>2
  <2> HIDE DEF ClTyped
  <2> QED
    BY <2>1, <2>2, <2>3, <2>4, OpenKept
<1>27. ASSUME NEW n \in Cl!Links, Cl!RxStops(n) PROVE OpenIsServed'
  <2>1. Cl!Rx(n) \in Cl!Threads
    BY ThreadNames DEF Cl!Threads
  <2>2. at[Cl!Rx(n)] \notin {"start", "identified"} /\ \E y : y # "none" /\ at' = [at EXCEPT ![Cl!Rx(n)] = y]
    BY <1>27, <2>1 DEF Cl!RxStops, Cl!Go
  <2>3. self'.io = self.io /\ link' = link
    BY <1>27 DEF Cl!RxStops, Cl!Go
  <2>4. PICK y : y # "none" /\ at' = [at EXCEPT ![Cl!Rx(n)] = y]
    BY <2>2
  <2> HIDE DEF ClTyped
  <2> QED
    BY <2>1, <2>2, <2>3, <2>4, OpenKept
<1>28. ASSUME NEW n \in Cl!Links, Cl!Receive(n) PROVE OpenIsServed'
  <2>1. self' = self /\ at' = at /\ link' = link
    BY <1>28 DEF Cl!Receive
  <2> QED
    BY <2>1 DEF OpenIsServed, Cl!Io
<1>29. ASSUME NEW n \in Cl!Links, Cl!Heartbeat(n) PROVE OpenIsServed'
  <2>1. Cl!Rx(n) \in Cl!Threads
    BY ThreadNames DEF Cl!Threads
  <2>2. at[Cl!Rx(n)] \notin {"start", "identified"} /\ \E y : y # "none" /\ at' = [at EXCEPT ![Cl!Rx(n)] = y]
    BY <1>29, <2>1 DEF Cl!Heartbeat, Cl!CallConnect, Cl!Go
  <2>3. self'.io = self.io /\ link' = link
    BY <1>29 DEF Cl!Heartbeat, Cl!CallConnect, Cl!Go
  <2>4. PICK y : y # "none" /\ at' = [at EXCEPT ![Cl!Rx(n)] = y]
    BY <2>2
  <2> HIDE DEF ClTyped
  <2> QED
    BY <2>1, <2>2, <2>3, <2>4, OpenKept
<1>30. ASSUME NEW n \in Cl!Links, Cl!ConnectionClosed(n) PROVE OpenIsServed'
  <2>1. Cl!Rx(n) \in Cl!Threads
    BY ThreadNames DEF Cl!Threads
  <2>2. at[Cl!Rx(n)] \notin {"start", "identified"} /\ \E y : y # "none" /\ at' = [at EXCEPT ![Cl!Rx(n)] = y]
    BY <1>30, <2>1 DEF Cl!ConnectionClosed, Cl!Go
  <2>3. self'.io = self.io /\ link' = link
    BY <1>30 DEF Cl!ConnectionClosed, Cl!Go
  <2>4. PICK y : y # "none" /\ at' = [at EXCEPT ![Cl!Rx(n)] = y]
    BY <2>2
  <2> HIDE DEF ClTyped
  <2> QED
    BY <2>1, <2>2, <2>3, <2>4, OpenKept
<1>31. ASSUME NEW n \in Cl!Links, Cl!RxFails(n) PROVE OpenIsServed'
  <2>1. Cl!Rx(n) \in Cl!Threads
    BY ThreadNames DEF Cl!Threads
  <2>2. at[Cl!Rx(n)] \notin {"start", "identified"} /\ \E y : y # "none" /\ at' = [at EXCEPT ![Cl!Rx(n)] = y]
    BY <1>31, <2>1 DEF Cl!RxFails, Cl!Go
  <2>3. self'.io = self.io /\ link' = link
    BY <1>31 DEF Cl!RxFails, Cl!Go
  <2>4. PICK y : y # "none" /\ at' = [at EXCEPT ![Cl!Rx(n)] = y]
    BY <2>2
  <2> HIDE DEF ClTyped
  <2> QED
    BY <2>1, <2>2, <2>3, <2>4, OpenKept
<1>32. ASSUME NEW n \in Cl!Links, Cl!RxEnd(n) PROVE OpenIsServed'
  <2>1. Cl!Rx(n) \in Cl!Threads
    BY ThreadNames DEF Cl!Threads
  <2>2. at[Cl!Rx(n)] \notin {"start", "identified"} /\ \E y : y # "none" /\ at' = [at EXCEPT ![Cl!Rx(n)] = y]
    BY <1>32, <2>1 DEF Cl!RxEnd, Cl!Go, Cl!Overtakes
  <2>3. self'.io = self.io /\ link' = link
    BY <1>32 DEF Cl!RxEnd, Cl!Go, Cl!Overtakes
  <2>4. PICK y : y # "none" /\ at' = [at EXCEPT ![Cl!Rx(n)] = y]
    BY <2>2
  <2> HIDE DEF ClTyped
  <2> QED
    BY <2>1, <2>2, <2>3, <2>4, OpenKept
<1>33. ASSUME NEW n \in Cl!Links, Cl!RxClosed(n) PROVE OpenIsServed'
  <2>1. link' = link /\ self'.io = self.io
    <3>1. CASE self.shutdown
      BY <1>33, <3>1 DEF Cl!RxClosed
    <3>2. CASE ~self.shutdown
      BY <1>33, <3>2 DEF Cl!RxClosed
    <3> QED
      BY <3>1, <3>2
  <2>2. \A u \in Cl!Threads : \/ at'[u] = at[u]
                              \/ at'[u] \in {"dead", "again"} /\ at[u] \notin {"start", "identified"}
    <3>1. {Cl!Rx(n), Cl!Rc(n)} \subseteq Cl!Threads
      BY ThreadNames
    <3>2. CASE self.shutdown
      BY <1>33, <3>1, <3>2 DEF Cl!RxClosed, Cl!Go
    <3>3. CASE ~self.shutdown
      <4>1. at[Cl!Rc(n)] = "none" /\ at[Cl!Rx(n)] = "closed"
        BY <1>33, <3>1 DEF Cl!RxClosed, Numbered
      <4>2. at' = [at EXCEPT ![Cl!Rx(n)] = "dead", ![Cl!Rc(n)] = "again"]
        BY <1>33, <3>3 DEF Cl!RxClosed
      <4> QED
        BY <4>1, <4>2
    <3> QED
      BY <3>2, <3>3
  <2>3. Cl!Io' = Cl!Io /\ (Cl!Io = "open" => Cl!Rx(self.io) \in Cl!Threads)
    BY <2>1, ThreadNames DEF Cl!Io
  <2> QED
    BY <2>1, <2>2, <2>3 DEF OpenIsServed
<1>34. ASSUME NEW n \in Cl!Links, Cl!Reconnect(n) PROVE OpenIsServed'
  <2>1. Cl!Rc(n) \in Cl!Threads
    BY ThreadNames DEF Cl!Threads
  <2>2. at[Cl!Rc(n)] \notin {"start", "identified"} /\ \E y : y # "none" /\ at' = [at EXCEPT ![Cl!Rc(n)] = y]
    BY <1>34, <2>1 DEF Cl!Reconnect, Cl!CallConnect, Cl!Go
  <2>3. self'.io = self.io /\ link' = link
    BY <1>34 DEF Cl!Reconnect, Cl!CallConnect, Cl!Go
  <2>4. PICK y : y # "none" /\ at' = [at EXCEPT ![Cl!Rc(n)] = y]
    BY <2>2
  <2> HIDE DEF ClTyped
  <2> QED
    BY <2>1, <2>2, <2>3, <2>4, OpenKept
<1>35. ASSUME NEW n \in Cl!Links, Cl!ReconnectFailed(n) PROVE OpenIsServed'
  <2>1. Cl!Rc(n) \in Cl!Threads
    BY ThreadNames DEF Cl!Threads
  <2>2. at[Cl!Rc(n)] \notin {"start", "identified"} /\ \E y : y # "none" /\ at' = [at EXCEPT ![Cl!Rc(n)] = y]
    BY <1>35, <2>1 DEF Cl!ReconnectFailed, Cl!Go
  <2>3. self'.io = self.io /\ link' = link
    BY <1>35 DEF Cl!ReconnectFailed, Cl!Go
  <2>4. PICK y : y # "none" /\ at' = [at EXCEPT ![Cl!Rc(n)] = y]
    BY <2>2
  <2> HIDE DEF ClTyped
  <2> QED
    BY <2>1, <2>2, <2>3, <2>4, OpenKept
<1>36. ASSUME NEW n \in Cl!Links, Cl!ReconnectOver(n) PROVE OpenIsServed'
  <2>1. Cl!Rc(n) \in Cl!Threads
    BY ThreadNames DEF Cl!Threads
  <2>2. at[Cl!Rc(n)] \notin {"start", "identified"} /\ \E y : y # "none" /\ at' = [at EXCEPT ![Cl!Rc(n)] = y]
    BY <1>36, <2>1 DEF Cl!ReconnectOver, Cl!Go
  <2>3. self'.io = self.io /\ link' = link
    BY <1>36 DEF Cl!ReconnectOver, Cl!Go
  <2>4. PICK y : y # "none" /\ at' = [at EXCEPT ![Cl!Rc(n)] = y]
    BY <2>2
  <2> HIDE DEF ClTyped
  <2> QED
    BY <2>1, <2>2, <2>3, <2>4, OpenKept
<1>37. ASSUME Cl!Lose PROVE OpenIsServed'
  <2>1. self' = self /\ at' = at /\ \A n \in Cl!Links : link'[n] = "open" => link[n] = "open"
    BY <1>37 DEF Cl!Lose
  <2> QED
    BY <2>1 DEF OpenIsServed, Cl!Io
<1> QED
  BY <1>1, <1>2, <1>3, <1>4, <1>5, <1>6, <1>7, <1>8, <1>9, <1>10, <1>11, <1>12, <1>13, <1>14, <1>15, <1>16, <1>17, <1>18, <1>19, <1>20, <1>21, <1>22, <1>23, <1>24, <1>25, <1>26, <1>27, <1>28, <1>29, <1>30, <1>31, <1>32, <1>33, <1>34, <1>35, <1>36, <1>37
     DEF Cl!Next, Cl!Connecting, Cl!Disconnecting, Cl!TxStep, Cl!RxStep, Cl!RcStep

\* connect(), or a request, raises to a caller outside connect().
LEMMA RaisesOut ==
  ASSUME ClTyped, Stacked, NEW t \in Cl!Threads,
         NEW from \in {"except", "wait"}, Cl!Raise(t, from), Len(stack[t]) = 1
  PROVE  /\ stack' = [stack EXCEPT ![t] = << >>]
         /\ \/ at' = [at EXCEPT ![t] = "crash"]
            \/ stack[t][1] # "heartbeat" /\ at' = [at EXCEPT ![t] = "idle"]
            \/ stack[t][1] # "heartbeat" /\ at' = [at EXCEPT ![t] = "failed"]
<1> DEFINE k == Len(stack[t])
           p == stack[t][1]
<1>1. \/ /\ k = 1 /\ stack' = [stack EXCEPT ![t] = << >>]
         /\ \/ p = "request" /\ at' = [at EXCEPT ![t] = "idle"]
            \/ p = "reconnect" /\ at' = [at EXCEPT ![t] = "failed"]
            \/ p = "heartbeat" /\ at' = [at EXCEPT ![t] = "crash"]
      \/ k > 1
  BY CallRaises
<1>2. k = 1
  OBVIOUS
<1> HIDE DEF k, p
<1>3. ~(k > 1)
  BY <1>2
<1>4. /\ stack' = [stack EXCEPT ![t] = << >>]
      /\ \/ at' = [at EXCEPT ![t] = "crash"]
         \/ p # "heartbeat" /\ at' = [at EXCEPT ![t] = "idle"]
         \/ p # "heartbeat" /\ at' = [at EXCEPT ![t] = "failed"]
  BY <1>1, <1>3
<1> QED
  BY <1>4 DEF p

TxAlive == {"loop", "get", "send", "end", "quit"}

\* A connection keeps running when a thread goes on with its work.
LEMMA RunsKept ==
  ASSUME ClTyped, Stacked, Numbered, NEW t \in Cl!Threads, NEW y, at' = [at EXCEPT ![t] = y],
         at[t] # "none", y # "none",
         \A u \in Cl!Threads \ {t} : stack'[u] = stack[u],
         \A n \in Cl!Links : link[n] \notin {"none", "open"} => link'[n] # "open",
         \A n \in Cl!Links :
           t = Cl!Rx(n) /\ (InLoop(n) \/ at[t] \in {"quit", "stop"}) =>
             y \in {"read", "end", "crash", "quit", "stop"} \/ stack'[t] # << >>,
         \A n \in Cl!Links :
           t = Cl!Tx(n) /\ at[t] \in TxAlive /\ Runs(n) => y \in TxAlive \/ link'[n] # "open"
  PROVE  \A n \in Cl!Links : Runs(n) => Runs(n)'
<1> SUFFICES ASSUME NEW n \in Cl!Links, Runs(n) PROVE Runs(n)'
  OBVIOUS
<1>1. \A u \in Cl!Threads : /\ at'[u] = IF u = t THEN y ELSE at[u]
                            /\ at'[u] = "none" <=> at[u] = "none"
  BY DEF ClTyped
<1>2. {Cl!Rx(n), Cl!Tx(n)} \subseteq Cl!Threads
  BY ThreadNames
<1>3. at'[Cl!Rx(n)] # "none" /\ \A m \in Cl!Links : m > n => at'[Cl!Rx(m)] = "none"
  BY <1>1, <1>2, ThreadNames DEF Runs
<1>4. InLoop(n)' \/ at'[Cl!Rx(n)] \in {"quit", "stop"}
  <2>1. InLoop(n) \/ at[Cl!Rx(n)] \in {"quit", "stop"}
    BY DEF Runs
  <2>2. CASE Cl!Rx(n) = t
    BY <1>1, <1>2, <2>1, <2>2 DEF InLoop
  <2>3. CASE Cl!Rx(n) # t
    BY <1>1, <1>2, <2>1, <2>3 DEF InLoop
  <2> QED
    BY <2>2, <2>3
<1>5. at'[Cl!Tx(n)] \in TxAlive \/ link'[n] # "open"
  <2>1. link[n] # "none"
    BY DEF Numbered, Runs
  <2>2. at[Cl!Tx(n)] \in TxAlive \/ link[n] # "open"
    BY DEF Runs, TxAlive
  <2>3. CASE link[n] # "open"
    BY <2>1, <2>3
  <2>4. CASE at[Cl!Tx(n)] \in TxAlive
    BY <1>1, <1>2, <2>4
  <2> QED
    BY <2>2, <2>3, <2>4
<1> QED
  BY <1>3, <1>4, <1>5 DEF Runs, TxAlive

\* Neither a thread within connect() ...
LEMMA RunsConnecting ==
  ASSUME ClTyped, Stacked, Numbered, NEW t \in Cl!Threads, NEW y, at' = [at EXCEPT ![t] = y],
         at[t] \in Cl!Calling, y # "none",
         \A u \in Cl!Threads \ {t} : stack'[u] = stack[u],
         \A n \in Cl!Links : link[n] \notin {"none", "open"} => link'[n] # "open",
         \A n \in Cl!Links : t = Cl!Rx(n) => y \in {"read", "crash"} \/ stack'[t] # << >>
  PROVE  \A n \in Cl!Links : Runs(n) => Runs(n)'
<1>1. at[t] # "none" /\ at[t] \notin TxAlive
  BY DEF Cl!Calling, TxAlive
<1> QED
  BY <1>1, RunsKept

\* ... nor one on its way through disconnect() ends the service of a running connection.
LEMMA RunsDisconnecting ==
  ASSUME ClTyped, Stacked, Numbered, NEW t \in Cl!Threads, NEW y, at' = [at EXCEPT ![t] = y],
         at[t] \in {"idle", "drain", "tx", "rx", "close", "join conn", "join tx", "join rx"},
         y # "none", stack' = stack,
         \A n \in Cl!Links : link[n] \notin {"none", "open"} => link'[n] # "open"
  PROVE  \A n \in Cl!Links : Runs(n) => Runs(n)'
<1>1. at[t] # "none" /\ at[t] \notin TxAlive /\ at[t] \notin {"quit", "stop"}
  BY DEF TxAlive
<1>2. \A n \in Cl!Links : t = Cl!Rx(n) => ~InLoop(n)
  BY DEF InLoop, Stacked, Cl!Calling
<1> QED
  BY <1>1, <1>2, RunsKept

\* The same for the rx thread and the tx thread of a connection.
LEMMA RunsReading ==
  ASSUME ClTyped, Stacked, Numbered, NEW n \in Cl!Links,
         NEW y \in {"end", "crash", "quit", "stop"}, at' = [at EXCEPT ![Cl!Rx(n)] = y],
         at[Cl!Rx(n)] # "none", stack' = stack, link' = link
  PROVE  \A m \in Cl!Links : Runs(m) => Runs(m)'
<1> DEFINE t == Cl!Rx(n)
<1>1. t \in Cl!Threads /\ \A m \in Cl!Links : t # Cl!Tx(m)
  BY ThreadNames
<1>2. at' = [at EXCEPT ![t] = y] /\ at[t] # "none" /\ y # "none"
  OBVIOUS
<1>4. \A u \in Cl!Threads \ {t} : stack'[u] = stack[u]
  OBVIOUS
<1>5. \A m \in Cl!Links : link[m] \notin {"none", "open"} => link'[m] # "open"
  OBVIOUS
<1>6. \A m \in Cl!Links :
        t = Cl!Tx(m) /\ at[t] \in TxAlive /\ Runs(m) => y \in TxAlive \/ link'[m] # "open"
  BY <1>1
<1>3. \A m \in Cl!Links :
        t = Cl!Rx(m) /\ (InLoop(m) \/ at[t] \in {"quit", "stop"}) =>
          y \in {"read", "end", "crash", "quit", "stop"} \/ stack'[t] # << >>
  OBVIOUS
<1> HIDE DEF t
<1> QED
  BY <1>1, <1>2, <1>3, <1>4, <1>5, <1>6, RunsKept

\* ... and of the tx thread.
LEMMA RunsSending ==
  ASSUME ClTyped, Stacked, Numbered, NEW n \in Cl!Links, NEW y,
         at' = [at EXCEPT ![Cl!Tx(n)] = y], at[Cl!Tx(n)] # "none", y # "none",
         y \in TxAlive \/ link[n] # "open", stack' = stack, link' = link
  PROVE  \A m \in Cl!Links : Runs(m) => Runs(m)'
<1> DEFINE t == Cl!Tx(n)
<1>1. /\ t \in Cl!Threads
      /\ \A m \in Cl!Links : t # Cl!Rx(m) /\ (t = Cl!Tx(m) => m = n)
  BY ThreadNames
<1>2. at' = [at EXCEPT ![t] = y] /\ at[t] # "none" /\ y # "none"
  OBVIOUS
<1>4. \A u \in Cl!Threads \ {t} : stack'[u] = stack[u]
  OBVIOUS
<1>5. \A m \in Cl!Links : link[m] \notin {"none", "open"} => link'[m] # "open"
  OBVIOUS
<1>6. \A m \in Cl!Links :
        t = Cl!Rx(m) /\ (InLoop(m) \/ at[t] \in {"quit", "stop"}) =>
          y \in {"read", "end", "crash", "quit", "stop"} \/ stack'[t] # << >>
  BY <1>1
<1>3. \A m \in Cl!Links :
        t = Cl!Tx(m) /\ at[t] \in TxAlive /\ Runs(m) => y \in TxAlive \/ link'[m] # "open"
  BY <1>1
<1> HIDE DEF t
<1> QED
  BY <1>1, <1>2, <1>3, <1>4, <1>5, <1>6, RunsKept

\* The connection which gets its threads runs.
LEMMA RunsStart ==
  ASSUME ClTyped, Numbered, Starting, NEW t \in Cl!Threads, Cl!Start(t)
  PROVE  RunsLast'
<1>0. PICK k \in Cl!Links : k = Cl!Made
  BY DEF Cl!Start, Starting
<1>1. /\ k \in Cl!Links /\ at[t] = "identified"
      /\ at' = [at EXCEPT ![t] = "lock", ![Cl!Rx(k)] = "read", ![Cl!Tx(k)] = "loop"]
  BY <1>0 DEF Cl!Start, Starting
<1>2. {Cl!Rx(k), Cl!Tx(k)} \subseteq Cl!Threads /\ Cl!Tx(k) # Cl!Rx(k)
  BY <1>1, ThreadNames
<1>3. at'[Cl!Rx(k)] = "read" /\ at'[Cl!Tx(k)] = "loop"
  BY <1>1, <1>2 DEF ClTyped
<1>4. ASSUME NEW m \in Cl!Links, m > k PROVE at'[Cl!Rx(m)] = "none"
  <2>1. at[Cl!Rx(m)] = "none"
    BY <1>0, <1>4, MadeRange DEF Numbered, Cl!Links
  <2>2. Cl!Rx(m) \in Cl!Threads /\ Cl!Rx(m) \notin {Cl!Rx(k), Cl!Tx(k)} /\ Cl!Rx(m) # t
    BY <1>1, <1>4, <2>1, ThreadNames DEF Cl!Links
  <2> QED
    BY <1>1, <2>1, <2>2 DEF ClTyped
<1>5. Runs(k)'
  BY <1>3, <1>4 DEF Runs, InLoop
<1> QED
  BY <1>1, <1>5 DEF RunsLast

\* A connection runs until running is reset.
LEMMA RunsStep ==
  ASSUME ClTyped, Stacked, Numbered, Beating, Tidy, ~MayBlock, Cl!Next, \A t \in Cl!Threads : ~Cl!Start(t) PROVE self'.running => self.running /\ \A m \in Cl!Links : Runs(m) => Runs(m)'
<1> USE DEF ClTyped, Attributes, Cl!env, Cl!history
<1>1. ASSUME NEW u \in Clients, Cl!Request(u) PROVE self'.running => self.running /\ \A m \in Cl!Links : Runs(m) => Runs(m)'
  <2>0. u \in Cl!Threads
    BY DEF Cl!Threads
  <2>1. /\ at[u] \in {"idle", "drain", "tx", "rx", "close", "join conn", "join tx", "join rx"}
        /\ \E y : y # "none" /\ at' = [at EXCEPT ![u] = y]
    BY <1>1, <2>0 DEF Cl!Request, Cl!CallConnect, Cl!Go
  <2>2. (\A v \in Cl!Threads \ {u} : stack'[v] = stack[v]) /\ self'.running = self.running
    BY <1>1 DEF Cl!Request, Cl!CallConnect, Cl!Go
  <2>3. \A m \in Cl!Links : link[m] \notin {"none", "open"} => link'[m] # "open"
    BY <1>1 DEF Cl!Request, Cl!CallConnect, Cl!Go
  <2>4. PICK y : y # "none" /\ at' = [at EXCEPT ![u] = y]
    BY <2>1
  <2>5. \A m \in Cl!Links : u # Cl!Rx(m) /\ u # Cl!Tx(m)
    BY ThreadNames
  <2> HIDE DEF ClTyped
  <2> QED
    BY <2>0, <2>1, <2>2, <2>3, <2>4, <2>5, RunsKept
<1>2. ASSUME NEW u \in Clients, Cl!Disconnect(u) PROVE self'.running => self.running /\ \A m \in Cl!Links : Runs(m) => Runs(m)'
  <2>0. u \in Cl!Threads
    BY DEF Cl!Threads
  <2>1. /\ at[u] \in {"idle", "drain", "tx", "rx", "close", "join conn", "join tx", "join rx"}
        /\ \E y : y # "none" /\ at' = [at EXCEPT ![u] = y]
    BY <1>2, <2>0 DEF Cl!Disconnect, Cl!Go
  <2>2. stack' = stack /\ self'.running = self.running
    BY <1>2 DEF Cl!Disconnect, Cl!Go
  <2>3. \A m \in Cl!Links : link[m] \notin {"none", "open"} => link'[m] # "open"
    BY <1>2 DEF Cl!Disconnect, Cl!Go
  <2>4. PICK y : y # "none" /\ at' = [at EXCEPT ![u] = y]
    BY <2>1
  <2> HIDE DEF ClTyped
  <2> QED
    BY <2>0, <2>1, <2>2, <2>3, <2>4, RunsDisconnecting
<1>3. ASSUME NEW t \in Cl!Threads, Cl!Lock(t) PROVE self'.running => self.running /\ \A m \in Cl!Links : Runs(m) => Runs(m)'
  <2>0. link' = link /\ self'.running = self.running
    <3>1. CASE self.io # Cl!NoLink
      BY <1>3, <3>1 DEF Cl!Lock
    <3>2. CASE self.io = Cl!NoLink
      BY <1>3, <3>2 DEF Cl!Lock
    <3> QED
      BY <3>1, <3>2
  <2>a. CASE self.io # Cl!NoLink
    <3>1. Cl!ReturnFromConnect(t, "lock") /\ link' = link /\ self'.running = self.running
      BY <1>3, <2>a, <2>0 DEF Cl!Lock
    <3> HIDE DEF ClTyped
    <3>2. stack[t] # << >> /\ at[t] \in Cl!Calling
      BY <3>1, ConnectReturns DEF Cl!Calling
    <3>3. PICK y : /\ y # "none" /\ at' = [at EXCEPT ![t] = y]
                   /\ stack' \in {stack, [stack EXCEPT ![t] = << >>]}
                   /\ y = "read" \/ stack[t][1] # "heartbeat" \/ stack' = stack
      BY <3>1, ConnectReturns
    <3>4. \A m \in Cl!Links : t = Cl!Rx(m) => y \in {"read", "crash"} \/ stack'[t] # << >>
      BY <3>2, <3>3 DEF Beating, ClTyped
    <3>5. \A u \in Cl!Threads \ {t} : stack'[u] = stack[u]
      BY <3>3 DEF ClTyped
    <3> QED
      BY <3>1, <3>2, <3>3, <3>4, <3>5, RunsConnecting
  <2>b. CASE self.io = Cl!NoLink
    <3>1. at' = [at EXCEPT ![t] = "try"] /\ at[t] = "lock" /\ stack' = stack
      BY <1>3, <2>b DEF Cl!Lock, Cl!Go
    <3>2. stack[t] # << >> /\ at[t] \in Cl!Calling
      BY <3>1 DEF Stacked, Cl!Calling
    <3> HIDE DEF ClTyped
    <3> QED
      BY <2>0, <3>1, <3>2, RunsConnecting
  <2> QED
    BY <2>a, <2>b
<1>4. ASSUME NEW t \in Cl!Threads, Cl!TryShutdown(t) PROVE self'.running => self.running /\ \A m \in Cl!Links : Runs(m) => Runs(m)'
  <2>1. Cl!ReturnFromConnect(t, "try") /\ link' = link /\ self'.running = self.running
    BY <1>4 DEF Cl!TryShutdown
  <2> HIDE DEF ClTyped
  <2>2. stack[t] # << >> /\ at[t] \in Cl!Calling
    BY <2>1, ConnectReturns DEF Cl!Calling
  <2>3. PICK y : /\ y # "none" /\ at' = [at EXCEPT ![t] = y]
                 /\ stack' \in {stack, [stack EXCEPT ![t] = << >>]}
                 /\ y = "read" \/ stack[t][1] # "heartbeat" \/ stack' = stack
    BY <2>1, ConnectReturns
  <2>4. \A m \in Cl!Links : t = Cl!Rx(m) => y \in {"read", "crash"} \/ stack'[t] # << >>
    BY <2>2, <2>3 DEF Beating, ClTyped
  <2>5. \A u \in Cl!Threads \ {t} : stack'[u] = stack[u]
    BY <2>3 DEF ClTyped
  <2> QED
    BY <2>1, <2>2, <2>3, <2>4, <2>5, RunsConnecting
<1>5. ASSUME NEW t \in Cl!Threads, Cl!Open(t) PROVE self'.running => self.running /\ \A m \in Cl!Links : Runs(m) => Runs(m)'
  <2>1. /\ at[t] = "try" /\ at' = [at EXCEPT ![t] = "start"] /\ stack' = stack
        /\ self'.running = self.running
    BY <1>5 DEF Cl!Open, Cl!Go
  <2>2. \A m \in Cl!Links : link[m] \notin {"none", "open"} => link'[m] # "open"
    <3>1. link' = [link EXCEPT ![Cl!Made + 1] = "open"] /\ Cl!Made < MaxLinks
      BY <1>5 DEF Cl!Open
    <3>2. Cl!Made \in Nat /\ Cl!Made + 1 \in Cl!Links
      BY <3>1, MadeRange
    <3>3. link[Cl!Made + 1] = "none"
      BY <3>2 DEF Numbered
    <3> QED
      BY <3>1, <3>2, <3>3
  <2>3. stack[t] # << >> /\ at[t] \in Cl!Calling
    BY <2>1 DEF Stacked, Cl!Calling
  <2> HIDE DEF ClTyped
  <2> QED
    BY <2>1, <2>2, <2>3, RunsConnecting
<1>6. ASSUME NEW t \in Cl!Threads, Cl!Refused(t) PROVE self'.running => self.running /\ \A m \in Cl!Links : Runs(m) => Runs(m)'
  <2>1. /\ at[t] = "try" /\ at' = [at EXCEPT ![t] = "except"] /\ stack' = stack
        /\ self'.running = self.running
    BY <1>6 DEF Cl!Refused, Cl!Go
  <2>2. \A m \in Cl!Links : link[m] \notin {"none", "open"} => link'[m] # "open"
    BY <1>6 DEF Cl!Refused, Cl!Go
  <2>3. stack[t] # << >> /\ at[t] \in Cl!Calling
    BY <2>1 DEF Stacked, Cl!Calling
  <2> HIDE DEF ClTyped
  <2> QED
    BY <2>1, <2>2, <2>3, RunsConnecting
<1>7. ASSUME NEW t \in Cl!Threads, Cl!Identified(t) PROVE self'.running => self.running /\ \A m \in Cl!Links : Runs(m) => Runs(m)'
  <2>1. /\ at[t] = "start" /\ at' = [at EXCEPT ![t] = "identified"] /\ stack' = stack
        /\ self'.running = self.running
    BY <1>7 DEF Cl!Identified, Cl!Go
  <2>2. \A m \in Cl!Links : link[m] \notin {"none", "open"} => link'[m] # "open"
    BY <1>7 DEF Cl!Identified, Cl!Go
  <2>3. stack[t] # << >> /\ at[t] \in Cl!Calling
    BY <2>1 DEF Stacked, Cl!Calling
  <2> HIDE DEF ClTyped
  <2> QED
    BY <2>1, <2>2, <2>3, RunsConnecting
<1>8. ASSUME NEW t \in Cl!Threads, Cl!NotIdentified(t) PROVE self'.running => self.running /\ \A m \in Cl!Links : Runs(m) => Runs(m)'
  <2>1. /\ at[t] = "start" /\ at' = [at EXCEPT ![t] = "except"] /\ stack' = stack
        /\ self'.running = self.running
    BY <1>8 DEF Cl!NotIdentified, Cl!Go
  <2>2. \A m \in Cl!Links : link[m] \notin {"none", "open"} => link'[m] # "open"
    BY <1>8 DEF Cl!NotIdentified, Cl!Go
  <2>3. stack[t] # << >> /\ at[t] \in Cl!Calling
    BY <2>1 DEF Stacked, Cl!Calling
  <2> HIDE DEF ClTyped
  <2> QED
    BY <2>1, <2>2, <2>3, RunsConnecting
<1>9. ASSUME NEW t \in Cl!Threads, Cl!Start(t) PROVE self'.running => self.running /\ \A m \in Cl!Links : Runs(m) => Runs(m)'
  BY <1>9
<1>10. ASSUME NEW t \in Cl!Threads, Cl!Connect(t) PROVE self'.running => self.running /\ \A m \in Cl!Links : Runs(m) => Runs(m)'
  <2>1. Cl!ReturnFromConnect(t, "connected") /\ link' = link /\ self'.running = self.running
    BY <1>10 DEF Cl!Connect
  <2> HIDE DEF ClTyped
  <2>2. stack[t] # << >> /\ at[t] \in Cl!Calling
    BY <2>1, ConnectReturns DEF Cl!Calling
  <2>3. PICK y : /\ y # "none" /\ at' = [at EXCEPT ![t] = y]
                 /\ stack' \in {stack, [stack EXCEPT ![t] = << >>]}
                 /\ y = "read" \/ stack[t][1] # "heartbeat" \/ stack' = stack
    BY <2>1, ConnectReturns
  <2>4. \A m \in Cl!Links : t = Cl!Rx(m) => y \in {"read", "crash"} \/ stack'[t] # << >>
    BY <2>2, <2>3 DEF Beating, ClTyped
  <2>5. \A u \in Cl!Threads \ {t} : stack'[u] = stack[u]
    BY <2>3 DEF ClTyped
  <2> QED
    BY <2>1, <2>2, <2>3, <2>4, <2>5, RunsConnecting
<1>11. ASSUME NEW t \in Cl!Threads, Cl!GiveUp(t) PROVE self'.running => self.running /\ \A m \in Cl!Links : Runs(m) => Runs(m)'
  <2>1. Cl!Raise(t, "except") /\ link' = link /\ self'.running = self.running
    BY <1>11 DEF Cl!GiveUp
  <2> HIDE DEF ClTyped
  <2>2. stack[t] \in Stacks /\ stack[t] # << >> /\ at[t] \in Cl!Calling
    BY <2>1, CallRaises DEF ClTyped, Cl!Calling
  <2>3. CASE Len(stack[t]) = 1
    <3>0. /\ stack' = [stack EXCEPT ![t] = << >>]
          /\ \/ at' = [at EXCEPT ![t] = "crash"]
             \/ stack[t][1] # "heartbeat" /\ at' = [at EXCEPT ![t] = "idle"]
             \/ stack[t][1] # "heartbeat" /\ at' = [at EXCEPT ![t] = "failed"]
      BY <2>1, <2>3, RaisesOut
    <3>1. /\ stack' = [stack EXCEPT ![t] = << >>]
          /\ \E y : y # "none" /\ at' = [at EXCEPT ![t] = y] /\ (y = "crash" \/ stack[t][1] # "heartbeat")
      BY <3>0
    <3>2. PICK y : y # "none" /\ at' = [at EXCEPT ![t] = y] /\ (y = "crash" \/ stack[t][1] # "heartbeat")
      BY <3>1
    <3>3. \A m \in Cl!Links : t = Cl!Rx(m) => y = "crash"
      BY <2>2, <3>2 DEF Beating
    <3>4. \A u \in Cl!Threads \ {t} : stack'[u] = stack[u]
      BY <3>1 DEF ClTyped
    <3> QED
      BY <2>1, <2>2, <3>2, <3>3, <3>4, RunsConnecting
  <2>4. CASE Len(stack[t]) # 1
    <3>1. \E y, s : y # "none" /\ at' = [at EXCEPT ![t] = y] /\ stack' = [stack EXCEPT ![t] = s] /\ s # << >>
      <4>1. Cl!Pop(stack[t]) # << >> /\ Append(Cl!Pop(stack[t]), "activate") # << >>
        BY <2>2, <2>4, Calls, Bottom
      <4>2. \/ at' = [at EXCEPT ![t] = "except"] /\ stack' = [stack EXCEPT ![t] = Cl!Pop(@)]
            \/ at' = [at EXCEPT ![t] = "connected"] /\ stack' = [stack EXCEPT ![t] = Cl!Pop(@)]
            \/ /\ at' = [at EXCEPT ![t] = "lock"]
               /\ stack' = [stack EXCEPT ![t] = Append(Cl!Pop(@), "activate")]
        BY <2>1, <2>4, CallRaises
      <4> QED
        BY <4>1, <4>2
    <3>2. PICK y, s : y # "none" /\ at' = [at EXCEPT ![t] = y] /\ stack' = [stack EXCEPT ![t] = s] /\ s # << >>
      BY <3>1
    <3>3. stack'[t] # << >> /\ \A u \in Cl!Threads \ {t} : stack'[u] = stack[u]
      BY <3>2 DEF ClTyped
    <3> QED
      BY <2>1, <2>2, <3>2, <3>3, RunsConnecting
  <2> QED
    BY <2>3, <2>4
<1>12. ASSUME NEW t \in Cl!Threads, Cl!Retry(t) PROVE self'.running => self.running /\ \A m \in Cl!Links : Runs(m) => Runs(m)'
  <2>1. /\ at[t] = "except" /\ at' = [at EXCEPT ![t] = "try"] /\ stack' = stack
        /\ self'.running = self.running
    BY <1>12 DEF Cl!Retry, Cl!Go
  <2>2. \A m \in Cl!Links : link[m] \notin {"none", "open"} => link'[m] # "open"
    BY <1>12 DEF Cl!Retry, Cl!Go
  <2>3. stack[t] # << >> /\ at[t] \in Cl!Calling
    BY <2>1 DEF Stacked, Cl!Calling
  <2> HIDE DEF ClTyped
  <2> QED
    BY <2>1, <2>2, <2>3, RunsConnecting
<1>13. ASSUME NEW t \in Cl!Threads, Cl!Put(t) PROVE self'.running => self.running /\ \A m \in Cl!Links : Runs(m) => Runs(m)'
  <2>1. /\ at[t] = "put" /\ at' = [at EXCEPT ![t] = "wait"] /\ stack' = stack
        /\ self'.running = self.running
    BY <1>13 DEF Cl!Put, Cl!Go
  <2>2. \A m \in Cl!Links : link[m] \notin {"none", "open"} => link'[m] # "open"
    BY <1>13 DEF Cl!Put, Cl!Go
  <2>3. stack[t] # << >> /\ at[t] \in Cl!Calling
    BY <2>1 DEF Stacked, Cl!Calling
  <2> HIDE DEF ClTyped
  <2> QED
    BY <2>1, <2>2, <2>3, RunsConnecting
<1>14. ASSUME NEW t \in Cl!Threads, Cl!GetReply(t) PROVE self'.running => self.running /\ \A m \in Cl!Links : Runs(m) => Runs(m)'
  <2>1. Cl!GetReply(t) /\ link' = link /\ self'.running = self.running
    BY <1>14, ReplyCame DEF Cl!GetReply
  <2> HIDE DEF ClTyped
  <2>2. stack[t] \in Stacks /\ stack[t] # << >> /\ at[t] \in Cl!Calling
    BY <1>14, <2>1, ReplyCame DEF ClTyped, Cl!Calling
  <2>3. CASE Len(stack[t]) = 1
    <3>0. /\ stack' = [stack EXCEPT ![t] = << >>]
          /\ \/ at' = [at EXCEPT ![t] = "crash"]
             \/ stack[t][1] # "heartbeat" /\ at' = [at EXCEPT ![t] = "idle"]
             \/ stack[t][1] # "heartbeat" /\ at' = [at EXCEPT ![t] = "failed"]
      BY <2>1, <2>3, ReplyCame DEF Cl!Purpose
    <3>1. /\ stack' = [stack EXCEPT ![t] = << >>]
          /\ \E y : y # "none" /\ at' = [at EXCEPT ![t] = y] /\ (y = "crash" \/ stack[t][1] # "heartbeat")
      BY <3>0
    <3>2. PICK y : y # "none" /\ at' = [at EXCEPT ![t] = y] /\ (y = "crash" \/ stack[t][1] # "heartbeat")
      BY <3>1
    <3>3. \A m \in Cl!Links : t = Cl!Rx(m) => y = "crash"
      BY <2>2, <3>2 DEF Beating
    <3>4. \A u \in Cl!Threads \ {t} : stack'[u] = stack[u]
      BY <3>1 DEF ClTyped
    <3> QED
      BY <2>1, <2>2, <3>2, <3>3, <3>4, RunsConnecting
  <2>4. CASE Len(stack[t]) # 1
    <3>1. \E y, s : y # "none" /\ at' = [at EXCEPT ![t] = y] /\ stack' = [stack EXCEPT ![t] = s] /\ s # << >>
      <4>1. Cl!Pop(stack[t]) # << >> /\ Append(Cl!Pop(stack[t]), "activate") # << >>
        BY <2>2, <2>4, Calls, Bottom
      <4>2. \/ at' = [at EXCEPT ![t] = "except"] /\ stack' = [stack EXCEPT ![t] = Cl!Pop(@)]
            \/ at' = [at EXCEPT ![t] = "connected"] /\ stack' = [stack EXCEPT ![t] = Cl!Pop(@)]
            \/ /\ at' = [at EXCEPT ![t] = "lock"]
               /\ stack' = [stack EXCEPT ![t] = Append(Cl!Pop(@), "activate")]
        BY <2>1, <2>4, ReplyCame
      <4> QED
        BY <4>1, <4>2
    <3>2. PICK y, s : y # "none" /\ at' = [at EXCEPT ![t] = y] /\ stack' = [stack EXCEPT ![t] = s] /\ s # << >>
      BY <3>1
    <3>3. stack'[t] # << >> /\ \A u \in Cl!Threads \ {t} : stack'[u] = stack[u]
      BY <3>2 DEF ClTyped
    <3> QED
      BY <2>1, <2>2, <3>2, <3>3, RunsConnecting
  <2> QED
    BY <2>3, <2>4
<1>15. ASSUME NEW t \in Cl!Threads, Cl!NoReply(t) PROVE self'.running => self.running /\ \A m \in Cl!Links : Runs(m) => Runs(m)'
  <2>1. Cl!Raise(t, "wait") /\ link' = link /\ self'.running = self.running
    BY <1>15 DEF Cl!NoReply
  <2> HIDE DEF ClTyped
  <2>2. stack[t] \in Stacks /\ stack[t] # << >> /\ at[t] \in Cl!Calling
    BY <2>1, CallRaises DEF ClTyped, Cl!Calling
  <2>3. CASE Len(stack[t]) = 1
    <3>0. /\ stack' = [stack EXCEPT ![t] = << >>]
          /\ \/ at' = [at EXCEPT ![t] = "crash"]
             \/ stack[t][1] # "heartbeat" /\ at' = [at EXCEPT ![t] = "idle"]
             \/ stack[t][1] # "heartbeat" /\ at' = [at EXCEPT ![t] = "failed"]
      BY <2>1, <2>3, RaisesOut
    <3>1. /\ stack' = [stack EXCEPT ![t] = << >>]
          /\ \E y : y # "none" /\ at' = [at EXCEPT ![t] = y] /\ (y = "crash" \/ stack[t][1] # "heartbeat")
      BY <3>0
    <3>2. PICK y : y # "none" /\ at' = [at EXCEPT ![t] = y] /\ (y = "crash" \/ stack[t][1] # "heartbeat")
      BY <3>1
    <3>3. \A m \in Cl!Links : t = Cl!Rx(m) => y = "crash"
      BY <2>2, <3>2 DEF Beating
    <3>4. \A u \in Cl!Threads \ {t} : stack'[u] = stack[u]
      BY <3>1 DEF ClTyped
    <3> QED
      BY <2>1, <2>2, <3>2, <3>3, <3>4, RunsConnecting
  <2>4. CASE Len(stack[t]) # 1
    <3>1. \E y, s : y # "none" /\ at' = [at EXCEPT ![t] = y] /\ stack' = [stack EXCEPT ![t] = s] /\ s # << >>
      <4>1. Cl!Pop(stack[t]) # << >> /\ Append(Cl!Pop(stack[t]), "activate") # << >>
        BY <2>2, <2>4, Calls, Bottom
      <4>2. \/ at' = [at EXCEPT ![t] = "except"] /\ stack' = [stack EXCEPT ![t] = Cl!Pop(@)]
            \/ at' = [at EXCEPT ![t] = "connected"] /\ stack' = [stack EXCEPT ![t] = Cl!Pop(@)]
            \/ /\ at' = [at EXCEPT ![t] = "lock"]
               /\ stack' = [stack EXCEPT ![t] = Append(Cl!Pop(@), "activate")]
        BY <2>1, <2>4, CallRaises
      <4> QED
        BY <4>1, <4>2
    <3>2. PICK y, s : y # "none" /\ at' = [at EXCEPT ![t] = y] /\ stack' = [stack EXCEPT ![t] = s] /\ s # << >>
      BY <3>1
    <3>3. stack'[t] # << >> /\ \A u \in Cl!Threads \ {t} : stack'[u] = stack[u]
      BY <3>2 DEF ClTyped
    <3> QED
      BY <2>1, <2>2, <3>2, <3>3, RunsConnecting
  <2> QED
    BY <2>3, <2>4
<1>16. ASSUME NEW t \in Cl!Threads, Cl!Stop(t) PROVE self'.running => self.running /\ \A m \in Cl!Links : Runs(m) => Runs(m)'
  <2>1. self'.running = FALSE
    BY <1>16 DEF Cl!Stop
  <2> QED
    BY <2>1
<1>17. ASSUME NEW t \in Cl!Threads, Cl!Drain(t) PROVE self'.running => self.running /\ \A m \in Cl!Links : Runs(m) => Runs(m)'
  <2>a. CASE at[t] = "quit"
    <3>1. self' = [self EXCEPT !.running = FALSE]
      BY <1>17, <2>a DEF Cl!Drain, Cl!Go
    <3> QED
      BY <3>1
  <2>b. CASE at[t] # "quit"
    <3>0. t \in Cl!Threads
      BY DEF Cl!Threads
    <3>1. /\ at[t] \in {"idle", "drain", "tx", "rx", "close", "join conn", "join tx", "join rx"}
          /\ \E y : y # "none" /\ at' = [at EXCEPT ![t] = y]
      BY <1>17, <3>0, <2>b DEF Cl!Drain, Cl!Go
    <3>2. stack' = stack /\ self'.running = self.running
      BY <1>17, <2>b DEF Cl!Drain, Cl!Go
    <3>3. \A m \in Cl!Links : link[m] \notin {"none", "open"} => link'[m] # "open"
      BY <1>17, <2>b DEF Cl!Drain, Cl!Go
    <3>4. PICK y : y # "none" /\ at' = [at EXCEPT ![t] = y]
      BY <3>1
    <3> HIDE DEF ClTyped
    <3> QED
      BY <3>0, <3>1, <3>2, <3>3, <3>4, RunsDisconnecting
  <2> QED
    BY <2>a, <2>b
<1>18. ASSUME NEW t \in Cl!Threads, Cl!TestTxThread(t) PROVE self'.running => self.running /\ \A m \in Cl!Links : Runs(m) => Runs(m)'
  <2>0. t \in Cl!Threads
    BY DEF Cl!Threads
  <2>1. /\ at[t] \in {"idle", "drain", "tx", "rx", "close", "join conn", "join tx", "join rx"}
        /\ \E y : y # "none" /\ at' = [at EXCEPT ![t] = y]
    BY <1>18, <2>0 DEF Cl!TestTxThread, Cl!Go
  <2>2. stack' = stack /\ self'.running = self.running
    BY <1>18 DEF Cl!TestTxThread, Cl!Go
  <2>3. \A m \in Cl!Links : link[m] \notin {"none", "open"} => link'[m] # "open"
    BY <1>18 DEF Cl!TestTxThread, Cl!Go
  <2>4. PICK y : y # "none" /\ at' = [at EXCEPT ![t] = y]
    BY <2>1
  <2> HIDE DEF ClTyped
  <2> QED
    BY <2>0, <2>1, <2>2, <2>3, <2>4, RunsDisconnecting
<1>19. ASSUME NEW t \in Cl!Threads, Cl!TestRxThread(t) PROVE self'.running => self.running /\ \A m \in Cl!Links : Runs(m) => Runs(m)'
  <2>0. t \in Cl!Threads
    BY DEF Cl!Threads
  <2>1. /\ at[t] \in {"idle", "drain", "tx", "rx", "close", "join conn", "join tx", "join rx"}
        /\ \E y : y # "none" /\ at' = [at EXCEPT ![t] = y]
    BY <1>19, <2>0 DEF Cl!TestRxThread, Cl!Go
  <2>2. stack' = stack /\ self'.running = self.running
    BY <1>19 DEF Cl!TestRxThread, Cl!Go
  <2>3. \A m \in Cl!Links : link[m] \notin {"none", "open"} => link'[m] # "open"
    BY <1>19 DEF Cl!TestRxThread, Cl!Go
  <2>4. PICK y : y # "none" /\ at' = [at EXCEPT ![t] = y]
    BY <2>1
  <2> HIDE DEF ClTyped
  <2> QED
    BY <2>0, <2>1, <2>2, <2>3, <2>4, RunsDisconnecting
<1>20. ASSUME NEW t \in Cl!Threads, Cl!JoinFails(t) PROVE self'.running => self.running /\ \A m \in Cl!Links : Runs(m) => Runs(m)'
  <2>0. t \in Cl!Threads
    BY DEF Cl!Threads
  <2>1. /\ at[t] \in {"idle", "drain", "tx", "rx", "close", "join conn", "join tx", "join rx"}
        /\ \E y : y # "none" /\ at' = [at EXCEPT ![t] = y]
    BY <1>20, <2>0 DEF Cl!JoinFails, Cl!Go, Cl!AfterFailure
  <2>2. stack' = stack /\ self'.running = self.running
    BY <1>20 DEF Cl!JoinFails, Cl!Go, Cl!AfterFailure
  <2>3. \A m \in Cl!Links : link[m] \notin {"none", "open"} => link'[m] # "open"
    BY <1>20 DEF Cl!JoinFails, Cl!Go, Cl!AfterFailure
  <2>4. PICK y : y # "none" /\ at' = [at EXCEPT ![t] = y]
    BY <2>1
  <2> HIDE DEF ClTyped
  <2> QED
    BY <2>0, <2>1, <2>2, <2>3, <2>4, RunsDisconnecting
<1>21. ASSUME NEW t \in Cl!Threads, Cl!Joined(t) PROVE self'.running => self.running /\ \A m \in Cl!Links : Runs(m) => Runs(m)'
  <2>0. t \in Cl!Threads
    BY DEF Cl!Threads
  <2>1. /\ at[t] \in {"idle", "drain", "tx", "rx", "close", "join conn", "join tx", "join rx"}
        /\ \E y : y # "none" /\ at' = [at EXCEPT ![t] = y]
    BY <1>21, <2>0 DEF Cl!Joined, Cl!Go, Cl!Overtakes
  <2>2. stack' = stack /\ self'.running = self.running
    BY <1>21 DEF Cl!Joined, Cl!Go, Cl!Overtakes
  <2>3. \A m \in Cl!Links : link[m] \notin {"none", "open"} => link'[m] # "open"
    BY <1>21 DEF Cl!Joined, Cl!Go, Cl!Overtakes
  <2>4. PICK y : y # "none" /\ at' = [at EXCEPT ![t] = y]
    BY <2>1
  <2> HIDE DEF ClTyped
  <2> QED
    BY <2>0, <2>1, <2>2, <2>3, <2>4, RunsDisconnecting
<1>22. ASSUME NEW t \in Cl!Threads, Cl!Close(t) PROVE self'.running => self.running /\ \A m \in Cl!Links : Runs(m) => Runs(m)'
  <2>0. t \in Cl!Threads
    BY DEF Cl!Threads
  <2>1. /\ at[t] \in {"idle", "drain", "tx", "rx", "close", "join conn", "join tx", "join rx"}
        /\ \E y : y # "none" /\ at' = [at EXCEPT ![t] = y]
    BY <1>22, <2>0 DEF Cl!Close, Cl!Go, Cl!AfterDisconnect, Cl!Overtakes
  <2>2. stack' = stack /\ self'.running = self.running
    BY <1>22 DEF Cl!Close, Cl!Go, Cl!AfterDisconnect, Cl!Overtakes
  <2>3. \A m \in Cl!Links : link[m] \notin {"none", "open"} => link'[m] # "open"
    BY <1>22 DEF Cl!Close, Cl!Go, Cl!AfterDisconnect, Cl!Overtakes
  <2>4. PICK y : y # "none" /\ at' = [at EXCEPT ![t] = y]
    BY <2>1
  <2> HIDE DEF ClTyped
  <2> QED
    BY <2>0, <2>1, <2>2, <2>3, <2>4, RunsDisconnecting
<1>23. ASSUME NEW n \in Cl!Links, Cl!TxLoop(n) PROVE self'.running => self.running /\ \A m \in Cl!Links : Runs(m) => Runs(m)'
  <2>1. at[Cl!Tx(n)] # "none" /\ \E y \in TxAlive : at' = [at EXCEPT ![Cl!Tx(n)] = y]
    BY <1>23 DEF Cl!TxLoop, Cl!Go, TxAlive
  <2>2. stack' = stack /\ link' = link /\ self'.running = self.running
    BY <1>23 DEF Cl!TxLoop, Cl!Go
  <2>3. PICK y \in TxAlive : at' = [at EXCEPT ![Cl!Tx(n)] = y]
    BY <2>1
  <2>4. y # "none"
    BY DEF TxAlive
  <2> HIDE DEF ClTyped
  <2> QED
    BY <2>1, <2>2, <2>3, <2>4, RunsSending
<1>24. ASSUME NEW n \in Cl!Links, Cl!TxGet(n) PROVE self'.running => self.running /\ \A m \in Cl!Links : Runs(m) => Runs(m)'
  <2>1. at[Cl!Tx(n)] # "none" /\ \E y \in TxAlive : at' = [at EXCEPT ![Cl!Tx(n)] = y]
    BY <1>24 DEF Cl!TxGet, Cl!Go, TxAlive
  <2>2. stack' = stack /\ link' = link /\ self'.running = self.running
    BY <1>24 DEF Cl!TxGet, Cl!Go
  <2>3. PICK y \in TxAlive : at' = [at EXCEPT ![Cl!Tx(n)] = y]
    BY <2>1
  <2>4. y # "none"
    BY DEF TxAlive
  <2> HIDE DEF ClTyped
  <2> QED
    BY <2>1, <2>2, <2>3, <2>4, RunsSending
<1>25. ASSUME NEW n \in Cl!Links, Cl!TxSend(n) PROVE self'.running => self.running /\ \A m \in Cl!Links : Runs(m) => Runs(m)'
  <2>2. /\ stack' = stack /\ link' = link /\ self' = self /\ at[Cl!Tx(n)] = "send"
        /\ \/ at' = [at EXCEPT ![Cl!Tx(n)] = "loop"]
           \/ Cl!Io # "open" /\ at' = [at EXCEPT ![Cl!Tx(n)] = "dead"]
    BY <1>25 DEF Cl!TxSend, Cl!Go
  <2>3. PICK y \in {"loop", "dead"} : at' = [at EXCEPT ![Cl!Tx(n)] = y] /\ (y = "dead" => Cl!Io # "open")
    BY <2>2
  <2>4. y = "dead" => link[n] # "open"
    BY <2>3, NoLinkIsNone DEF Tidy, Cl!NoLeak, Cl!Io
  <2> HIDE DEF ClTyped
  <2> QED
    BY <2>2, <2>3, <2>4, RunsSending DEF TxAlive
<1>26. ASSUME NEW n \in Cl!Links, Cl!TxEnd(n) PROVE self'.running => self.running /\ \A m \in Cl!Links : Runs(m) => Runs(m)'
  <2>1. at[Cl!Tx(n)] # "none" /\ \E y \in TxAlive : at' = [at EXCEPT ![Cl!Tx(n)] = y]
    BY <1>26 DEF Cl!TxEnd, Cl!Go, Cl!Overtakes, TxAlive
  <2>2. stack' = stack /\ link' = link /\ self'.running = self.running
    BY <1>26 DEF Cl!TxEnd, Cl!Go, Cl!Overtakes
  <2>3. PICK y \in TxAlive : at' = [at EXCEPT ![Cl!Tx(n)] = y]
    BY <2>1
  <2>4. y # "none"
    BY DEF TxAlive
  <2> HIDE DEF ClTyped
  <2> QED
    BY <2>1, <2>2, <2>3, <2>4, RunsSending
<1>27. ASSUME NEW n \in Cl!Links, Cl!RxStops(n) PROVE self'.running => self.running /\ \A m \in Cl!Links : Runs(m) => Runs(m)'
  <2>1. \E y \in {"end"} : at' = [at EXCEPT ![Cl!Rx(n)] = y]
    BY <1>27 DEF Cl!RxStops, Cl!Go
  <2>2. stack' = stack /\ link' = link /\ self'.running = self.running /\ at[Cl!Rx(n)] # "none"
    BY <1>27 DEF Cl!RxStops, Cl!Go
  <2>3. PICK y \in {"end"} : at' = [at EXCEPT ![Cl!Rx(n)] = y]
    BY <2>1
  <2> HIDE DEF ClTyped
  <2> QED
    BY <2>2, <2>3, RunsReading
<1>28. ASSUME NEW n \in Cl!Links, Cl!Receive(n) PROVE self'.running => self.running /\ \A m \in Cl!Links : Runs(m) => Runs(m)'
  <2>1. self' = self /\ at' = at /\ link' = link /\ stack' = stack
    BY <1>28 DEF Cl!Receive
  <2> QED
    BY <2>1 DEF Runs, InLoop
<1>29. ASSUME NEW n \in Cl!Links, Cl!Heartbeat(n) PROVE self'.running => self.running /\ \A m \in Cl!Links : Runs(m) => Runs(m)'
  <2>1. Cl!Rx(n) \in Cl!Threads /\ \A m \in Cl!Links : Cl!Rx(n) # Cl!Tx(m)
    BY ThreadNames
  <2>2. /\ at' = [at EXCEPT ![Cl!Rx(n)] = "lock"] /\ at[Cl!Rx(n)] = "read"
        /\ stack' = [stack EXCEPT ![Cl!Rx(n)] = Append(@, "heartbeat")]
        /\ link' = link /\ self' = self
    BY <1>29 DEF Cl!Heartbeat, Cl!CallConnect, Cl!Go
  <2>3. stack[Cl!Rx(n)] \in Stacks /\ Append(stack[Cl!Rx(n)], "heartbeat") # << >>
    <3>1. stack[Cl!Rx(n)] \in Stacks
      BY <2>1
    <3> HIDE DEF ClTyped
    <3> QED
      BY <3>1 DEF Stacks
  <2>4. stack'[Cl!Rx(n)] # << >> /\ \A u \in Cl!Threads \ {Cl!Rx(n)} : stack'[u] = stack[u]
    BY <2>1, <2>2, <2>3
  <2>5. link' = link /\ self'.running = self.running
    BY <2>2
  <2> DEFINE t == Cl!Rx(n)
  <2>6. /\ t \in Cl!Threads /\ \A m \in Cl!Links : t # Cl!Tx(m)
        /\ at' = [at EXCEPT ![t] = "lock"] /\ at[t] # "none" /\ stack'[t] # << >>
        /\ \A u \in Cl!Threads \ {t} : stack'[u] = stack[u]
    BY <2>1, <2>2, <2>4
  <2> HIDE DEF ClTyped, t
  <2> QED
    BY <2>5, <2>6, RunsKept
<1>30. ASSUME NEW n \in Cl!Links, Cl!ConnectionClosed(n) PROVE self'.running => self.running /\ \A m \in Cl!Links : Runs(m) => Runs(m)'
  <2>1. \E y \in {"end"} : at' = [at EXCEPT ![Cl!Rx(n)] = y]
    BY <1>30 DEF Cl!ConnectionClosed, Cl!Go
  <2>2. stack' = stack /\ link' = link /\ self'.running = self.running /\ at[Cl!Rx(n)] # "none"
    BY <1>30 DEF Cl!ConnectionClosed, Cl!Go
  <2>3. PICK y \in {"end"} : at' = [at EXCEPT ![Cl!Rx(n)] = y]
    BY <2>1
  <2> HIDE DEF ClTyped
  <2> QED
    BY <2>2, <2>3, RunsReading
<1>31. ASSUME NEW n \in Cl!Links, Cl!RxFails(n) PROVE self'.running => self.running /\ \A m \in Cl!Links : Runs(m) => Runs(m)'
  <2>1. \E y \in {"crash"} : at' = [at EXCEPT ![Cl!Rx(n)] = y]
    BY <1>31 DEF Cl!RxFails, Cl!Go
  <2>2. stack' = stack /\ link' = link /\ self'.running = self.running /\ at[Cl!Rx(n)] # "none"
    BY <1>31 DEF Cl!RxFails, Cl!Go
  <2>3. PICK y \in {"crash"} : at' = [at EXCEPT ![Cl!Rx(n)] = y]
    BY <2>1
  <2> HIDE DEF ClTyped
  <2> QED
    BY <2>2, <2>3, RunsReading
<1>32. ASSUME NEW n \in Cl!Links, Cl!RxEnd(n) PROVE self'.running => self.running /\ \A m \in Cl!Links : Runs(m) => Runs(m)'
  <2>1. \E y \in {"quit", "stop"} : at' = [at EXCEPT ![Cl!Rx(n)] = y]
    BY <1>32 DEF Cl!RxEnd, Cl!Go, Cl!Overtakes
  <2>2. stack' = stack /\ link' = link /\ self'.running = self.running /\ at[Cl!Rx(n)] # "none"
    BY <1>32 DEF Cl!RxEnd, Cl!Go, Cl!Overtakes
  <2>3. PICK y \in {"quit", "stop"} : at' = [at EXCEPT ![Cl!Rx(n)] = y]
    BY <2>1
  <2> HIDE DEF ClTyped
  <2> QED
    BY <2>2, <2>3, RunsReading
<1>33. ASSUME NEW n \in Cl!Links, Cl!RxClosed(n) PROVE self'.running => self.running /\ \A m \in Cl!Links : Runs(m) => Runs(m)'
  <2>0. stack' = stack /\ link' = link /\ self'.running = self.running
    <3>1. CASE self.shutdown
      BY <1>33, <3>1 DEF Cl!RxClosed
    <3>2. CASE ~self.shutdown
      BY <1>33, <3>2 DEF Cl!RxClosed
    <3> QED
      BY <3>1, <3>2
  <2>1. at[Cl!Rx(n)] = "closed"
    BY <1>33 DEF Cl!RxClosed
  <2>2. ~InLoop(n)
    BY <2>1, ThreadNames DEF InLoop, Stacked, Cl!Calling
  <2>3. ~Runs(n)
    BY <2>1, <2>2 DEF Runs
  <2>4. \/ at' = [at EXCEPT ![Cl!Rx(n)] = "dead"]
        \/ at' = [at EXCEPT ![Cl!Rx(n)] = "dead", ![Cl!Rc(n)] = "again"]
    <3>1. CASE self.shutdown
      BY <1>33, <3>1 DEF Cl!RxClosed, Cl!Go
    <3>2. CASE ~self.shutdown
      BY <1>33, <3>2 DEF Cl!RxClosed
    <3> QED
      BY <3>1, <3>2
  <2>5. at \in [Cl!Threads -> Cl!Places]
    OBVIOUS
  <2> HIDE DEF ClTyped
  <2>6. at'[Cl!Rx(n)] = "dead"
    BY <2>4, <2>5, ThreadNames
  <2>7. ASSUME NEW m \in Cl!Links PROVE at'[Cl!Tx(m)] = at[Cl!Tx(m)]
    BY <2>4, <2>5, ThreadNames
  <2>8. ASSUME NEW m \in Cl!Links, m # n PROVE at'[Cl!Rx(m)] = at[Cl!Rx(m)]
    BY <2>4, <2>5, <2>8, ThreadNames
  <2>9. ASSUME NEW m \in Cl!Links, m # n, Runs(m) PROVE Runs(m)'
    <3>1. \A k \in Cl!Links : k > m => at'[Cl!Rx(k)] = "none"
      <4>1. ~(n > m)
        BY <2>1, <2>9 DEF Runs
      <4> QED
        BY <2>8, <2>9, <4>1 DEF Runs
    <3> QED
      BY <2>0, <2>7, <2>8, <2>9, <3>1 DEF Runs, InLoop
  <2> QED
    BY <2>0, <2>3, <2>9
<1>34. ASSUME NEW n \in Cl!Links, Cl!Reconnect(n) PROVE self'.running => self.running /\ \A m \in Cl!Links : Runs(m) => Runs(m)'
  <2>1. /\ Cl!Rc(n) \in Cl!Threads
        /\ \A m \in Cl!Links : Cl!Rc(n) # Cl!Rx(m) /\ Cl!Rc(n) # Cl!Tx(m)
    BY ThreadNames
  <2>2. at[Cl!Rc(n)] # "none" /\ \E y : y # "none" /\ at' = [at EXCEPT ![Cl!Rc(n)] = y]
    BY <1>34 DEF Cl!Reconnect, Cl!CallConnect, Cl!Go
  <2>3. link' = link /\ self'.running = self.running
    BY <1>34 DEF Cl!Reconnect, Cl!CallConnect, Cl!Go
  <2>4. \A u \in Cl!Threads \ {Cl!Rc(n)} : stack'[u] = stack[u]
    BY <1>34 DEF Cl!Reconnect, Cl!CallConnect, Cl!Go
  <2>5. PICK y : y # "none" /\ at' = [at EXCEPT ![Cl!Rc(n)] = y]
    BY <2>2
  <2> DEFINE t == Cl!Rc(n)
  <2>6. /\ t \in Cl!Threads /\ \A m \in Cl!Links : t # Cl!Rx(m) /\ t # Cl!Tx(m)
        /\ at' = [at EXCEPT ![t] = y] /\ at[t] # "none" /\ y # "none"
        /\ \A u \in Cl!Threads \ {t} : stack'[u] = stack[u]
    BY <2>1, <2>2, <2>4, <2>5
  <2> HIDE DEF ClTyped, t
  <2> QED
    BY <2>3, <2>6, RunsKept
<1>35. ASSUME NEW n \in Cl!Links, Cl!ReconnectFailed(n) PROVE self'.running => self.running /\ \A m \in Cl!Links : Runs(m) => Runs(m)'
  <2>1. /\ Cl!Rc(n) \in Cl!Threads
        /\ \A m \in Cl!Links : Cl!Rc(n) # Cl!Rx(m) /\ Cl!Rc(n) # Cl!Tx(m)
    BY ThreadNames
  <2>2. at[Cl!Rc(n)] # "none" /\ \E y : y # "none" /\ at' = [at EXCEPT ![Cl!Rc(n)] = y]
    BY <1>35 DEF Cl!ReconnectFailed, Cl!Go
  <2>3. link' = link /\ self'.running = self.running
    BY <1>35 DEF Cl!ReconnectFailed, Cl!Go
  <2>4. \A u \in Cl!Threads \ {Cl!Rc(n)} : stack'[u] = stack[u]
    BY <1>35 DEF Cl!ReconnectFailed, Cl!Go
  <2>5. PICK y : y # "none" /\ at' = [at EXCEPT ![Cl!Rc(n)] = y]
    BY <2>2
  <2> DEFINE t == Cl!Rc(n)
  <2>6. /\ t \in Cl!Threads /\ \A m \in Cl!Links : t # Cl!Rx(m) /\ t # Cl!Tx(m)
        /\ at' = [at EXCEPT ![t] = y] /\ at[t] # "none" /\ y # "none"
        /\ \A u \in Cl!Threads \ {t} : stack'[u] = stack[u]
    BY <2>1, <2>2, <2>4, <2>5
  <2> HIDE DEF ClTyped, t
  <2> QED
    BY <2>3, <2>6, RunsKept
<1>36. ASSUME NEW n \in Cl!Links, Cl!ReconnectOver(n) PROVE self'.running => self.running /\ \A m \in Cl!Links : Runs(m) => Runs(m)'
  <2>1. /\ Cl!Rc(n) \in Cl!Threads
        /\ \A m \in Cl!Links : Cl!Rc(n) # Cl!Rx(m) /\ Cl!Rc(n) # Cl!Tx(m)
    BY ThreadNames
  <2>2. at[Cl!Rc(n)] # "none" /\ \E y : y # "none" /\ at' = [at EXCEPT ![Cl!Rc(n)] = y]
    BY <1>36 DEF Cl!ReconnectOver, Cl!Go
  <2>3. link' = link /\ self'.running = self.running
    BY <1>36 DEF Cl!ReconnectOver, Cl!Go
  <2>4. \A u \in Cl!Threads \ {Cl!Rc(n)} : stack'[u] = stack[u]
    BY <1>36 DEF Cl!ReconnectOver, Cl!Go
  <2>5. PICK y : y # "none" /\ at' = [at EXCEPT ![Cl!Rc(n)] = y]
    BY <2>2
  <2> DEFINE t == Cl!Rc(n)
  <2>6. /\ t \in Cl!Threads /\ \A m \in Cl!Links : t # Cl!Rx(m) /\ t # Cl!Tx(m)
        /\ at' = [at EXCEPT ![t] = y] /\ at[t] # "none" /\ y # "none"
        /\ \A u \in Cl!Threads \ {t} : stack'[u] = stack[u]
    BY <2>1, <2>2, <2>4, <2>5
  <2> HIDE DEF ClTyped, t
  <2> QED
    BY <2>3, <2>6, RunsKept
<1>37. ASSUME Cl!Lose PROVE self'.running => self.running /\ \A m \in Cl!Links : Runs(m) => Runs(m)'
  <2>1. self' = self /\ at' = at /\ stack' = stack
        /\ \A m \in Cl!Links : link[m] # "open" => link'[m] # "open"
    BY <1>37 DEF Cl!Lose
  <2> QED
    BY <2>1 DEF Runs, InLoop
<1> QED
  BY <1>1, <1>2, <1>3, <1>4, <1>5, <1>6, <1>7, <1>8, <1>9, <1>10, <1>11, <1>12, <1>13, <1>14, <1>15, <1>16, <1>17, <1>18, <1>19, <1>20, <1>21, <1>22, <1>23, <1>24, <1>25, <1>26, <1>27, <1>28, <1>29, <1>30, <1>31, <1>32, <1>33, <1>34, <1>35, <1>36, <1>37
     DEF Cl!Next, Cl!Connecting, Cl!Disconnecting, Cl!TxStep, Cl!RxStep, Cl!RcStep

-----------------------------------------------------------------------------
(* The client as a whole.                                                  *)

ServedInv == Beating /\ OpenIsServed /\ RunsLast

\* Nothing is connected in the beginning.
LEMMA ClientBegins ==
  ASSUME Cl!Init PROVE ClInv /\ ServedInv
<1>1. << >> \in Stacks /\ ~(Len(<< >>) > 1)
  <2>1. << >> \in Seq(Cl!Purposes) /\ Len(<< >>) = 0
    OBVIOUS
  <2> QED
    BY <2>1 DEF Stacks
<1>2. /\ self.io = Cl!NoLink /\ ~self.running /\ ~overtaken
      /\ self.lock = Cl!Nobody
  BY DEF Cl!Init
<1>3. \A t \in Cl!Threads : at[t] \in {"idle", "none"} /\ stack[t] = << >> /\ since[t] = {}
  BY DEF Cl!Init
<1>4. \A n \in Cl!Links : at[Cl!Rx(n)] = "none" /\ at[Cl!Tx(n)] = "none" /\ at[Cl!Rc(n)] = "none"
  BY ThreadNames DEF Cl!Init
<1>5. \A n \in Cl!Links : link[n] = "none"
  BY DEF Cl!Init
<1>6. Cl!Made = 0
  <2>1. {n \in Cl!Links : link[n] # "none"} = {}
    BY <1>5
  <2> QED
    BY <2>1, MadeRange, FS_EmptySet
<1>7. ClTyped
  <2>1. self \in Attributes
    <3>1. 0 \in Cl!Queues
      BY LinksAssumption DEF Cl!Queues
    <3>2. self = [io |-> Cl!NoLink, running |-> FALSE, shutdown |-> FALSE, lock |-> Cl!Nobody,
                  txthread |-> Cl!Nobody, rxthread |-> Cl!Nobody, connthread |-> Cl!Nobody,
                  queue |-> 0, online |-> FALSE, state |-> ""]
      BY DEF Cl!Init
    <3> QED
      BY <3>1, <3>2 DEF Attributes, Cl!States
  <2>2. at \in [Cl!Threads -> Cl!Places] /\ DOMAIN ref = Cl!Threads
    BY DEF Cl!Init, Cl!Places, Cl!Calling, Cl!Closing
  <2>3. stack \in [Cl!Threads -> Stacks]
    BY <1>1 DEF Cl!Init
  <2>4. request \in [Cl!Threads -> Cl!Requests] /\ link \in [Cl!Links -> LinkStates]
    BY DEF Cl!Init, Cl!Requests, LinkStates
  <2>5. since \in [Cl!Threads -> SUBSET Cl!Links] /\ overtaken \in BOOLEAN
    BY DEF Cl!Init
  <2> QED
    BY <2>1, <2>2, <2>3, <2>4, <2>5 DEF ClTyped
<1>8. Stacked
  BY <1>3 DEF Stacked, Cl!Calling
<1>9. Numbered
  BY <1>2, <1>3, <1>4, <1>5, <1>6 DEF Numbered, Cl!Links, Cl!NoLink
<1>10. Attempting
  BY <1>1, <1>3 DEF Attempting, Locking, Starting, InLock
<1>11. Tidy
  BY <1>5 DEF Tidy, Cl!NoLeak
<1>12. \A n \in Cl!Links : ~InLoop(n) /\ stack[Cl!Rx(n)] = << >>
  BY <1>3, <1>4, ThreadNames DEF InLoop
<1>13. Reading /\ Waiting
  BY <1>3, <1>12 DEF Reading, Waiting
<1>14. ServedInv
  BY <1>2, <1>12 DEF ServedInv, Beating, OpenIsServed, RunsLast, Cl!Io
<1> QED
  BY <1>7, <1>8, <1>9, <1>10, <1>11, <1>13, <1>14 DEF ClInv

\* A step of the client.
LEMMA ClientKeeps ==
  ASSUME ClInv, ~TryAgain, Cl!Next PROVE ClInv'
<1>0. ClTyped /\ Stacked /\ Numbered /\ Attempting /\ Locking /\ Starting /\ Tidy /\ Reading /\ Waiting
  BY DEF ClInv, Attempting
<1>1. ClTyped' /\ Stacked' /\ Numbered' /\ Locking' /\ Starting' /\ Tidy'
  BY <1>0, ClTypeStep, StackedStep, NumberedStep, LockingStep, StartingStep, TidyStep
<1>2. Reading' /\ Waiting'
  <2>1. CASE \E t \in Cl!Threads : Cl!Start(t)
    BY <1>0, <2>1, ReadingStart
  <2>2. CASE \A t \in Cl!Threads : ~Cl!Start(t)
    <3>1. \A m \in Cl!Links : InLoop(m)' => InLoop(m)
      BY <1>0, <2>2, LoopKept
    <3>2. Reading'
      BY <1>0, <2>2, <3>1, ReadingStep
    <3>3. Waiting'
      BY <1>0, <2>2, <3>1, WaitingStep
    <3> QED
      BY <3>2, <3>3
  <2> QED
    BY <2>1, <2>2
<1> QED
  BY <1>1, <1>2 DEF ClInv, Attempting

\* A step of a client for which sending does not fail on an open connection.
LEMMA ServedKeeps ==
  ASSUME ClInv, ServedInv, ~MayBlock, Cl!Next PROVE ServedInv'
<1>0. ClTyped /\ Stacked /\ Numbered /\ Starting /\ Tidy /\ Beating /\ OpenIsServed /\ RunsLast
  BY DEF ClInv, Attempting, ServedInv
<1>1. Beating' /\ OpenIsServed'
  BY <1>0, BeatingStep, OpenStep
<1>2. RunsLast'
  <2>1. CASE \E t \in Cl!Threads : Cl!Start(t)
    BY <1>0, <2>1, RunsStart
  <2>2. CASE \A t \in Cl!Threads : ~Cl!Start(t)
    <3>1. self'.running => self.running /\ \A m \in Cl!Links : Runs(m) => Runs(m)'
      BY <1>0, <2>2, RunsStep
    <3> QED
      BY <1>0, <3>1 DEF RunsLast
  <2> QED
    BY <2>1, <2>2
<1> QED
  BY <1>1, <1>2 DEF ServedInv

\* The client has one connection, read by one thread.
LEMMA OneLinkFollows ==
  ASSUME ClInv PROVE Cl!OneLink
<1>1. Cl!NoLeak
  BY DEF ClInv, Tidy
<1>2. ASSUME ~overtaken, NEW n \in Cl!Links, NEW m \in Cl!Links,
             at[Cl!Rx(n)] = "read", at[Cl!Rx(m)] = "read"
      PROVE  n = m
  <2>1. InLoop(n) /\ InLoop(m)
    BY <1>2 DEF InLoop
  <2> QED
    BY <1>2, <2>1 DEF ClInv, Reading
<1> QED
  BY <1>1, <1>2 DEF Cl!OneLink, Cl!OneReader

\* At rest, a running client is served.
LEMMA ServedFollows ==
  ASSUME ClInv, ServedInv PROVE Cl!Served
<1> SUFFICES ASSUME Cl!Quiet, self.running
             PROVE  Cl!Io = "open" /\ at[Cl!Rx(self.io)] = "read" /\ at[Cl!Tx(self.io)] = "get"
  BY DEF Cl!Served
<1>1. PICK n \in Cl!Links : Runs(n)
  BY DEF ServedInv, RunsLast
<1>2. {Cl!Rx(n), Cl!Tx(n)} \subseteq Cl!Threads
  BY ThreadNames
<1>3. at[Cl!Rx(n)] = "read" /\ Cl!Io = "open"
  <2>1. at[Cl!Rx(n)] \in {"read", "end", "crash", "quit", "stop"} \/ at[Cl!Rx(n)] \in Cl!Calling
    BY <1>1, <1>2 DEF Runs, InLoop, ClInv, Stacked
  <2>2. at[Cl!Rx(n)] \notin {"none", "idle", "dead", "get"}
    BY <2>1 DEF Cl!Calling
  <2>3. Cl!AtRest(Cl!Rx(n))
    BY <1>2 DEF Cl!Quiet
  <2> QED
    BY <2>2, <2>3 DEF Cl!AtRest, Cl!Dead
<1>4. self.io \in Cl!Links /\ self.io = Cl!Made /\ link[self.io] = "open"
  BY <1>3 DEF Cl!Io, ClInv, ClTyped, Attributes, Numbered
<1>5. at[Cl!Rx(self.io)] # "none"
  <2>1. \A t \in Cl!Threads : at[t] \notin {"start", "identified"}
    BY DEF Cl!Quiet, Cl!AtRest, Cl!Dead
  <2> QED
    BY <1>3, <2>1 DEF ServedInv, OpenIsServed
<1>6. n = self.io
  <2>1. n <= self.io
    BY <1>1, <1>4 DEF ClInv, Numbered, Runs
  <2>2. ~(self.io > n)
    BY <1>1, <1>4, <1>5 DEF Runs
  <2> QED
    BY <1>4, <2>1, <2>2 DEF Cl!Links
<1>7. at[Cl!Tx(n)] = "get"
  <2>1. at[Cl!Tx(n)] \in {"loop", "get", "send", "end", "quit"}
    BY <1>1, <1>4, <1>6 DEF Runs
  <2>2. Cl!AtRest(Cl!Tx(n))
    BY <1>2 DEF Cl!Quiet
  <2> QED
    BY <2>1, <2>2 DEF Cl!AtRest, Cl!Dead
<1> QED
  BY <1>3, <1>6, <1>7

\* Nothing happens to the client.
LEMMA ClientStays ==
  ASSUME ClInv, UNCHANGED clientVars PROVE ClInv' /\ (ServedInv => ServedInv')
<1>0. /\ self' = self /\ at' = at /\ stack' = stack /\ ref' = ref /\ request' = request
      /\ link' = link /\ since' = since /\ overtaken' = overtaken
  BY DEF clientVars
<1>1. ClTyped' /\ Stacked'
  BY <1>0 DEF ClInv, ClTyped, Stacked, Cl!Purpose
<1>2. Cl!Made' = Cl!Made /\ Cl!Serving' = Cl!Serving /\ Cl!Io' = Cl!Io
      /\ \A n \in Cl!Links : InLoop(n)' <=> InLoop(n)
  BY <1>0 DEF Cl!Made, Cl!Serving, Cl!Io, InLoop
<1>3. Numbered'
  BY <1>0, <1>2 DEF ClInv, Numbered
<1>4. Attempting' /\ Tidy'
  BY <1>0, <1>2 DEF ClInv, Attempting, Locking, Starting, Tidy, Cl!NoLeak
<1>5. Reading' /\ Waiting'
  BY <1>0 DEF ClInv, Reading, Waiting, InLoop
<1>6. ASSUME ServedInv PROVE ServedInv'
  BY <1>0, <1>2, <1>6 DEF ServedInv, Beating, OpenIsServed, RunsLast, Runs, InLoop
<1> QED
  BY <1>1, <1>3, <1>4, <1>5, <1>6 DEF ClInv

\* A client has one connection, and one thread reads from it, however often it connects
\* again and however connect() and the disconnect() of several threads overlap, as long as
\* none of these closes a connection made after it began (client/__init__.py, connect and
\* disconnect); for a client which does not try again on a connection it has made.
THEOREM ClientKeepsOne ==
  ASSUME ~TryAgain PROVE ClientSpec => []ClientHasOne
<1>1. Cl!Init => ClInv
  BY ClientBegins
<1>2. ClInv /\ [Cl!Next]_clientVars => ClInv'
  BY ClientKeeps, ClientStays
<1>3. ClInv => ClientHasOne
  BY OneLinkFollows DEF ClientHasOne
<1> QED
  BY <1>1, <1>2, <1>3, PTL DEF ClientSpec

\* A client which is running when no thread has anything left to do has an open connection,
\* and both threads of this connection serve it (client/__init__.py, __txthread, __rxthread
\* and disconnect); for a client which does not try again on a connection it has made, and
\* when sending does not fail on an open connection.
THEOREM RunningClientIsServed ==
  ASSUME ~TryAgain, ~MayBlock PROVE ClientSpec => []RunningIsServed
<1> DEFINE I == ClInv /\ ServedInv
<1>1. Cl!Init => I
  BY ClientBegins
<1>2. I /\ [Cl!Next]_clientVars => I'
  BY ClientKeeps, ServedKeeps, ClientStays
<1>3. I => RunningIsServed
  BY ServedFollows DEF RunningIsServed
<1> HIDE DEF I
<1> QED
  BY <1>1, <1>2, <1>3, PTL DEF ClientSpec
=============================================================================
