------------------------ MODULE ClientRequestsProofs ------------------------
(***************************************************************************)
(* Proofs about ClientRequests, for any number of callers, keys and        *)
(* requests and for queues of any size.                                    *)
(***************************************************************************)
EXTENDS ClientRequests, FiniteSetTheorems, TLAPS

-----------------------------------------------------------------------------
(* Sequences in which no element occurs twice.                             *)

In(s, e) == \E i \in 1 .. Len(s) : s[i] = e
Distinct(s) == \A i, j \in 1 .. Len(s) : s[i] = s[j] => i = j

\* The same for the replies among messages.
Answers(s, e) == \E i \in 1 .. Len(s) : ~s[i].event /\ s[i].id = e
EachOnce(s) ==
  \A i, j \in 1 .. Len(s) :
    ~s[i].event /\ ~s[j].event /\ s[i].id = s[j].id => i = j

-----------------------------------------------------------------------------
(* The inductive invariant.                                                *)

\* The places of an entry.
InHand(e) == tx.id = e /\ tx.at # "send"
Activated(e) == \E k \in AllKeys : active_requests[k] = e
Received(e) == rx.id = e /\ rx.at \in {"reply", "put"}
Returning(e) == rx.id = e /\ rx.at = "put"

\* The request of an entry has been sent, or is about to be sent, and its reply
\* has not been read.
Answering(e) == Answers(in, e)
Sending(e) == tx.id = e /\ tx.at = "send"
Flying(e) == Sending(e) \/ In(out, e) \/ Answering(e)

\* The request of an entry will be sent.
Waiting(e) == In(txq, e) \/ In(pending, e) \/ InHand(e) \/ Returning(e)

\* A request with the same key has been given up.
Confused(e) == \E x \in expired : Key(e) \in {Key(x), NoKey}

\* The requests made so far have a key of their own, the heartbeat and those not
\* yet made have the one of the heartbeat.
Keyed ==
  /\ \A e \in 1 .. made : Key(e) \in Keys \cup {NoKey}
  /\ Key(Ping) = PingKey
  /\ \A k \in AllKeys : active_requests[k] # Absent => Key(active_requests[k]) = k

\* Requests are given up by their callers, and only those are cleaned up.
GivenUp ==
  /\ expired \subseteq 1 .. made
  /\ \A c \in Callers : caller[c].at # "idle" => caller[c].id \in 1 .. made
  /\ \A c \in Callers : caller[c].at \in {"put", "wait"} => caller[c].id \notin expired
  /\ \A c \in Callers : caller[c].at = "late" => caller[c].id \in expired
  /\ \A c, d \in Callers :
       caller[c].at \in {"put", "wait"} /\ caller[d].at \in {"put", "wait"}
         /\ caller[c].id = caller[d].id => c = d
  /\ \A i \in 1 .. Len(cleanup) : cleanup[i] \in expired
  /\ rx.at = "search" => rx.id \in expired

\* No place has an entry twice.
NoneTwice ==
  Distinct(txq) /\ Distinct(pending) /\ Distinct(out) /\ EachOnce(in)

\* An entry is in one place only, and is sent once.
OnePlace ==
  \A e \in Entries :
    /\ In(txq, e) => ~In(pending, e) /\ ~InHand(e) /\ ~Activated(e) /\ ~Received(e)
    /\ In(pending, e) => ~InHand(e) /\ ~Activated(e) /\ ~Received(e)
    /\ InHand(e) => ~Activated(e) /\ ~Received(e)
    /\ Activated(e) => ~Received(e)
    /\ Waiting(e) => ~Flying(e)
    /\ Sending(e) => ~In(out, e) /\ ~Answering(e)
    /\ In(out, e) => ~Answering(e)

\* A request not yet queued is nowhere.
Coming(e) == e > made \/ \E c \in Callers : caller[c] = [at |-> "put", id |-> e]
Somewhere(e) == In(txq, e) \/ In(pending, e) \/ InHand(e) \/ Activated(e) \/ Received(e)

NotYet == \A e \in Ids : Coming(e) => ~Somewhere(e) /\ ~Flying(e)

\* The tx thread replaces nothing in active_requests.
FreeKey ==
  \A e \in Entries :
    tx = [at |-> "activate", id |-> e] => active_requests[Key(e)] = Absent

\* The reply to come is one to the active entry, unless requests have been
\* given up.
Matched == \A e \in Entries : Flying(e) => active_requests[Key(e)] = e \/ Confused(e)

\* The entry of a waiting caller is somewhere until its event is set.
NoneLost ==
  \A c \in Callers, e \in Ids :
    caller[c] = [at |-> "wait", id |-> e] /\ ~entry[e].event => Somewhere(e)

Places == NoneTwice /\ OnePlace /\ NotYet /\ NoneLost

Inv == TypeOK /\ Keyed /\ GivenUp /\ Places /\ FreeKey /\ Matched /\ OwnReply
-----------------------------------------------------------------------------
(* Facts about queues.                                                     *)

LEMMA Appended ==
  ASSUME NEW S, NEW s \in Seq(S), NEW x \in S
  PROVE  /\ Append(s, x) \in Seq(S) /\ Len(Append(s, x)) = Len(s) + 1
         /\ \A e : In(Append(s, x), e) <=> In(s, e) \/ e = x
         /\ Distinct(s) /\ ~In(s, x) => Distinct(Append(s, x))
<1>1. /\ Append(s, x) \in Seq(S) /\ Len(s) \in Nat /\ Len(Append(s, x)) = Len(s) + 1
      /\ \A i \in 1 .. Len(s) : Append(s, x)[i] = s[i]
      /\ Append(s, x)[Len(s) + 1] = x
  OBVIOUS
<1>2. \A i \in 1 .. Len(s) + 1 : i \in 1 .. Len(s) \/ i = Len(s) + 1
  BY <1>1
<1>3. ASSUME NEW e PROVE In(Append(s, x), e) <=> In(s, e) \/ e = x
  <2>1. In(s, e) => In(Append(s, x), e)
    BY <1>1 DEF In
  <2>2. e = x => In(Append(s, x), e)
    BY <1>1 DEF In
  <2>3. In(Append(s, x), e) => In(s, e) \/ e = x
    BY <1>1, <1>2 DEF In
  <2> QED
    BY <2>1, <2>2, <2>3
<1>4. Distinct(s) /\ ~In(s, x) => Distinct(Append(s, x))
  BY <1>1, <1>2 DEF In, Distinct
<1> QED
  BY <1>1, <1>3, <1>4

LEMMA Removed ==
  ASSUME NEW S, NEW s \in Seq(S), s # <<>>, Distinct(s)
  PROVE  /\ Tail(s) \in Seq(S) /\ Len(Tail(s)) = Len(s) - 1 /\ Head(s) \in S
         /\ In(s, Head(s))
         /\ \A e : In(Tail(s), e) <=> In(s, e) /\ e # Head(s)
         /\ Distinct(Tail(s))
<1>1. /\ Tail(s) \in Seq(S) /\ Len(s) \in Nat \ {0} /\ Len(Tail(s)) = Len(s) - 1
      /\ Head(s) \in S /\ Head(s) = s[1]
      /\ \A i \in 1 .. Len(s) - 1 : Tail(s)[i] = s[i + 1]
  OBVIOUS
<1>2. \A i \in 1 .. Len(s) : i = 1 \/ (i - 1 \in 1 .. Len(s) - 1 /\ Tail(s)[i - 1] = s[i])
  BY <1>1
<1>3. \A i \in 1 .. Len(s) - 1 : i + 1 \in 1 .. Len(s) /\ i + 1 # 1
  BY <1>1
<1>4. In(s, Head(s))
  BY <1>1 DEF In
<1>5. ASSUME NEW e PROVE In(Tail(s), e) <=> In(s, e) /\ e # Head(s)
  <2>1. In(Tail(s), e) => In(s, e) /\ e # Head(s)
    <3> SUFFICES ASSUME NEW i \in 1 .. Len(s) - 1, Tail(s)[i] = e
                 PROVE  In(s, e) /\ e # Head(s)
      BY <1>1 DEF In
    <3> QED
      BY <1>1, <1>3 DEF In, Distinct
  <2>2. In(s, e) /\ e # Head(s) => In(Tail(s), e)
    BY <1>1, <1>2 DEF In
  <2> QED
    BY <2>1, <2>2
<1>6. Distinct(Tail(s))
  <2> SUFFICES ASSUME NEW i \in 1 .. Len(s) - 1, NEW j \in 1 .. Len(s) - 1,
                      Tail(s)[i] = Tail(s)[j]
               PROVE  i = j
    BY <1>1 DEF Distinct
  <2> QED
    BY <1>1, <1>3 DEF Distinct
<1> QED
  BY <1>1, <1>4, <1>5, <1>6
LEMMA ReplyAppended ==
  ASSUME NEW S, NEW s \in Seq(S), NEW m \in S, ~m.event
  PROVE  /\ \A e : Answers(Append(s, m), e) <=> Answers(s, e) \/ e = m.id
         /\ EachOnce(s) /\ ~Answers(s, m.id) => EachOnce(Append(s, m))
<1>1. /\ Len(s) \in Nat /\ Len(Append(s, m)) = Len(s) + 1
      /\ \A i \in 1 .. Len(s) : Append(s, m)[i] = s[i]
      /\ Append(s, m)[Len(s) + 1] = m
  OBVIOUS
<1>2. \A i \in 1 .. Len(s) + 1 : i \in 1 .. Len(s) \/ i = Len(s) + 1
  BY <1>1
<1>3. ASSUME NEW e PROVE Answers(Append(s, m), e) <=> Answers(s, e) \/ e = m.id
  <2>1. Answers(s, e) => Answers(Append(s, m), e)
    BY <1>1 DEF Answers
  <2>2. e = m.id => Answers(Append(s, m), e)
    BY <1>1 DEF Answers
  <2>3. Answers(Append(s, m), e) => Answers(s, e) \/ e = m.id
    BY <1>1, <1>2 DEF Answers
  <2> QED
    BY <2>1, <2>2, <2>3
<1>4. EachOnce(s) /\ ~Answers(s, m.id) => EachOnce(Append(s, m))
  BY <1>1, <1>2 DEF Answers, EachOnce
<1> QED
  BY <1>3, <1>4

LEMMA EventAppended ==
  ASSUME NEW S, NEW s \in Seq(S), NEW m \in S, m.event
  PROVE  /\ \A e : Answers(Append(s, m), e) <=> Answers(s, e)
         /\ EachOnce(s) => EachOnce(Append(s, m))
<1>1. /\ Len(s) \in Nat /\ Len(Append(s, m)) = Len(s) + 1
      /\ \A i \in 1 .. Len(s) : Append(s, m)[i] = s[i]
      /\ Append(s, m)[Len(s) + 1] = m
  OBVIOUS
<1>2. \A i \in 1 .. Len(s) + 1 : i \in 1 .. Len(s) \/ i = Len(s) + 1
  BY <1>1
<1>3. ASSUME NEW e PROVE Answers(Append(s, m), e) <=> Answers(s, e)
  BY <1>1, <1>2 DEF Answers
<1>4. EachOnce(s) => EachOnce(Append(s, m))
  BY <1>1, <1>2 DEF EachOnce
<1> QED
  BY <1>3, <1>4

LEMMA MessageRemoved ==
  ASSUME NEW S, NEW s \in Seq(S), s # <<>>, EachOnce(s)
  PROVE  /\ EachOnce(Tail(s))
         /\ Head(s).event => \A e : Answers(Tail(s), e) <=> Answers(s, e)
         /\ ~Head(s).event => /\ Answers(s, Head(s).id)
                              /\ \A e : Answers(Tail(s), e) <=>
                                          Answers(s, e) /\ e # Head(s).id
<1>1. /\ Len(s) \in Nat \ {0} /\ Len(Tail(s)) = Len(s) - 1 /\ Head(s) = s[1]
      /\ \A i \in 1 .. Len(s) - 1 : Tail(s)[i] = s[i + 1]
  OBVIOUS
<1>2. \A i \in 1 .. Len(s) : i = 1 \/ (i - 1 \in 1 .. Len(s) - 1 /\ Tail(s)[i - 1] = s[i])
  BY <1>1
<1>3. \A i \in 1 .. Len(s) - 1 : i + 1 \in 1 .. Len(s) /\ i + 1 # 1
  BY <1>1
<1>4. EachOnce(Tail(s))
  <2> SUFFICES ASSUME NEW i \in 1 .. Len(s) - 1, NEW j \in 1 .. Len(s) - 1,
                      ~Tail(s)[i].event, ~Tail(s)[j].event, Tail(s)[i].id = Tail(s)[j].id
               PROVE  i = j
    BY <1>1 DEF EachOnce
  <2> QED
    BY <1>1, <1>3 DEF EachOnce
<1>5. ASSUME NEW e, Answers(Tail(s), e)
      PROVE  Answers(s, e) /\ (~Head(s).event => e # Head(s).id)
  <2>1. PICK i \in 1 .. Len(s) - 1 : ~Tail(s)[i].event /\ Tail(s)[i].id = e
    BY <1>1, <1>5 DEF Answers
  <2> QED
    BY <1>1, <1>3, <2>1 DEF Answers, EachOnce
<1>6. ASSUME NEW e, Answers(s, e), Head(s).event \/ e # Head(s).id
      PROVE  Answers(Tail(s), e)
  BY <1>1, <1>2, <1>6 DEF Answers
<1>7. ~Head(s).event => Answers(s, Head(s).id)
  BY <1>1 DEF Answers
<1> QED
  BY <1>4, <1>5, <1>6, <1>7

-----------------------------------------------------------------------------
(* Types.                                                                  *)

\* What a thread holds at the places where it holds an entry.
LEMMA Held ==
  ASSUME TypeOK
  PROVE  /\ \A c \in Callers : caller[c] \in CallerPlaces
         /\ \A c \in Callers : caller[c].at # "idle" => caller[c].id \in Ids
         /\ Ids \subseteq Entries /\ Ping \in Entries /\ Absent \notin Entries
         /\ tx.at # "get" => tx.id \in Entries
         /\ rx.at \in {"search", "reply", "put"} => rx.id \in Entries
         /\ rx.at \notin {"search", "reply", "put"} => rx.id = Absent
         /\ \A e \in Entries : entry[e] \in EntryRecords /\ Key(e) \in AllKeys
<1> USE BoundsAssumption
<1>1. \A c \in Callers : caller[c] \in CallerPlaces
  BY DEF TypeOK
<1>2. \A c \in Callers : caller[c].at # "idle" => caller[c].id \in Ids
  BY <1>1 DEF CallerPlaces
<1>3. Ids \subseteq Entries /\ Ping \in Entries /\ Absent \notin Entries
  BY DEF Ids, Entries, Ping, Absent
<1>4. tx.at # "get" => tx.id \in Entries
  BY DEF TypeOK, TxPlaces
<1>5. rx.at \in {"search", "reply", "put"} => rx.id \in Entries
  BY DEF TypeOK, RxPlaces
<1>6. rx.at \notin {"search", "reply", "put"} => rx.id = Absent
  BY DEF TypeOK, RxPlaces
<1>7. \A e \in Entries : entry[e] \in EntryRecords /\ Key(e) \in AllKeys
  BY DEF TypeOK, EntryRecords, Key
<1> QED
  BY <1>1, <1>2, <1>3, <1>4, <1>5, <1>6, <1>7

\* A reply is given to an entry with the key of the message, or to the one of
\* an unknown request.
LEMMA MatchingKey ==
  ASSUME TypeOK, NEW m \in Messages, ~m.event
  PROVE  /\ m.id \in Entries /\ Key(m.id) \in AllKeys
         /\ Matching(m) \in {Key(m.id), NoKey} /\ Matching(m) \in AllKeys
         /\ active_requests[Key(m.id)] # Absent => Matching(m) = Key(m.id)
<1>1. m.id \in Entries
  <2>1. CASE m = Event
    BY <2>1 DEF Event
  <2>2. CASE m \in [event : {FALSE}, id : Entries, error : BOOLEAN]
    BY <2>2
  <2> QED
    BY <2>1, <2>2 DEF Messages
<1>2. Key(m.id) \in AllKeys /\ NoKey \in AllKeys
  BY <1>1, Held DEF AllKeys
<1>3. CASE Key(m.id) \in Active
  BY <1>1, <1>2, <1>3 DEF Matching
<1>4. CASE Key(m.id) \notin Active
  <2>1. active_requests[Key(m.id)] = Absent
    BY <1>2, <1>4 DEF Active
  <2> QED
    BY <1>1, <1>2, <1>4, <2>1 DEF Matching
<1> QED
  BY <1>3, <1>4

\* Only finitely many keys are active, as there are finitely many requests.
LEMMA ActiveFinite ==
  ASSUME TypeOK, Keyed PROVE IsFiniteSet(Active) /\ Cardinality(Active) \in Nat
<1> DEFINE f == [k \in Active |-> active_requests[k]]
<1>1. Ping \in Int /\ 1 \in Int
  BY BoundsAssumption DEF Ping
<1>2. IsFiniteSet(Entries)
  BY <1>1, FS_Interval DEF Entries
<1>3. \A k \in Active : active_requests[k] \in Entries /\ Key(active_requests[k]) = k
  BY DEF Active, TypeOK, Keyed
<1>4. f \in Injection(Active, Entries)
  BY <1>3 DEF Injection, IsInjective
<1> QED
  BY <1>2, <1>4, FS_Injection, FS_CardinalityType

LEMMA TypeStep == Inv /\ [Next]_vars => TypeOK'
<1> SUFFICES ASSUME Inv, [Next]_vars PROVE TypeOK'
  OBVIOUS
<1> USE BoundsAssumption
<1>0. TypeOK /\ Keyed
  BY DEF Inv
<1>1. ASSUME NEW c \in Callers, NEW key \in Keys \cup {NoKey}, Request(c, key) PROVE TypeOK'
  BY <1>0, <1>1, Held DEF Request, TypeOK, CallerPlaces, EntryRecords, AllKeys, Ids,
     Entries, Ping, Absent
<1>2. ASSUME NEW c \in Callers, QueueRequest(c) PROVE TypeOK'
  <2>1. caller[c].id \in Ids /\ caller[c].id \in Entries
    BY <1>0, <1>2, Held DEF QueueRequest
  <2>2. CASE Len(txq) < QueueSize
    <3>1. caller' \in [Callers -> CallerPlaces]
      <4>1. caller' = [caller EXCEPT ![c].at = "wait"] /\ caller[c].at = "put"
        BY <1>2, <2>2 DEF QueueRequest
      <4> QED
        BY <1>0, <2>1, <4>1, Held DEF TypeOK, CallerPlaces
    <3>2. txq' = Append(txq, caller[c].id)
      BY <1>2, <2>2 DEF QueueRequest
    <3>3. txq' \in Seq(Entries) /\ Len(txq') <= QueueSize
      BY <1>0, <2>1, <2>2, <3>2 DEF TypeOK
    <3> QED
      BY <1>0, <1>2, <2>2, <3>1, <3>3 DEF QueueRequest, TypeOK
  <2>3. CASE ~(Len(txq) < QueueSize)
    <3>1. caller' \in [Callers -> CallerPlaces]
      <4>1. caller' = [caller EXCEPT ![c] = [at |-> "idle", id |-> Absent]]
        BY <1>2, <2>3 DEF QueueRequest
      <4> QED
        BY <1>0, <4>1 DEF TypeOK, CallerPlaces
    <3> QED
      BY <1>0, <1>2, <2>1, <2>3, <3>1 DEF QueueRequest, TypeOK
  <2> QED
    BY <2>2, <2>3
<1>3. ASSUME NEW c \in Callers, GetReply(c) PROVE TypeOK'
  BY <1>0, <1>3, Held DEF GetReply, TypeOK, CallerPlaces
<1>4. ASSUME NEW c \in Callers, RaiseTimeout(c) PROVE TypeOK'
  BY <1>0, <1>4, Held DEF RaiseTimeout, TypeOK, CallerPlaces
<1>5. ASSUME NEW c \in Callers, NoReply(c) PROVE TypeOK'
  BY <1>0, <1>5, Held DEF NoReply, TypeOK, CallerPlaces
<1>6. ASSUME TxGet PROVE TypeOK'
  BY <1>0, <1>6, Held DEF TxGet, TypeOK, TxPlaces
<1>7. ASSUME TxCheck PROVE TypeOK'
  BY <1>0, <1>7, Held DEF TxCheck, TypeOK, TxPlaces
<1>8. ASSUME TxPending PROVE TypeOK'
  BY <1>0, <1>8, Held DEF TxPending, TypeOK, TxPlaces
<1>9. ASSUME TxActivate PROVE TypeOK'
  BY <1>0, <1>9, Held DEF TxActivate, TypeOK, TxPlaces
<1>10. ASSUME TxSend PROVE TypeOK'
  BY <1>0, <1>10, Held DEF TxSend, TypeOK, TxPlaces
<1>11. ASSUME RxCleanup PROVE TypeOK'
  <2>1. /\ cleanup' \in Seq(Ids) /\ cleanup[Len(cleanup)] \in Ids
    BY <1>0, <1>11 DEF RxCleanup, TypeOK
  <2>2. Cardinality(Active) \in Nat
    BY <1>0, ActiveFinite
  <2>3. rx' \in RxPlaces
    BY <1>0, <1>11, <2>1, <2>2, Held DEF RxCleanup, RxPlaces
  <2> QED
    BY <1>0, <1>11, <2>1, <2>3 DEF RxCleanup, TypeOK
<1>12. ASSUME RxForget PROVE TypeOK'
  BY <1>0, <1>12, Held DEF RxForget, TypeOK, RxPlaces
<1>13. ASSUME RxFails PROVE TypeOK'
  BY <1>0, <1>13, Held DEF RxFails, TypeOK, RxPlaces
<1>14. ASSUME RxStartRead PROVE TypeOK'
  BY <1>0, <1>14, Held DEF RxStartRead, TypeOK, RxPlaces
<1>15. ASSUME RxEvent PROVE TypeOK'
  BY <1>0, <1>15, Held DEF RxEvent, TypeOK, RxPlaces
<1>16. ASSUME RxHeartbeat PROVE TypeOK'
  BY <1>0, <1>16, Held DEF RxHeartbeat, TypeOK, RxPlaces
<1>17. ASSUME RxNothing PROVE TypeOK'
  BY <1>0, <1>17, Held DEF RxNothing, TypeOK, RxPlaces
<1>18. ASSUME RxReply PROVE TypeOK'
  <2> DEFINE m == Head(in)
             found == active_requests[Matching(m)]
  <2>1. m \in Messages /\ ~m.event /\ in' \in Seq(Messages)
    BY <1>0, <1>18 DEF RxReply, TypeOK
  <2>2. /\ m.id \in Entries /\ Matching(m) \in AllKeys
    BY <1>0, <2>1, MatchingKey
  <2>3. found \in Entries \cup {Absent}
    BY <1>0, <2>2 DEF TypeOK
  <2>4. active_requests' \in [AllKeys -> Entries \cup {Absent}]
    BY <1>0, <1>18 DEF RxReply, TypeOK
  <2>5. rx' \in RxPlaces
    BY <1>0, <1>18, <2>3 DEF RxReply, TypeOK, RxPlaces
  <2>6. entry' \in [Entries -> EntryRecords]
    <3>1. CASE found = Absent
      BY <1>0, <1>18, <3>1 DEF RxReply, TypeOK
    <3>2. CASE found # Absent
      <4>1. [entry[found] EXCEPT !.reply = m.id] \in EntryRecords
        BY <1>0, <2>2, <2>3, <3>2, Held DEF EntryRecords
      <4> QED
        BY <1>0, <1>18, <2>3, <3>2, <4>1 DEF RxReply, TypeOK
    <3> QED
      BY <3>1, <3>2
  <2> QED
    BY <1>0, <1>18, <2>1, <2>4, <2>5, <2>6 DEF RxReply, TypeOK
<1>19. ASSUME RxSetEvent PROVE TypeOK'
  BY <1>0, <1>19, Held DEF RxSetEvent, TypeOK, EntryRecords, NoEntry, AllKeys,
     RxPlaces
<1>20. ASSUME RxTakePending PROVE TypeOK'
  <2>1. Head(pending) \in Entries /\ pending' \in Seq(Entries) /\ Len(pending') <= QueueSize
    BY <1>0, <1>20 DEF RxTakePending, TypeOK
  <2>2. rx' \in RxPlaces
    BY <1>0, <1>20, <2>1 DEF RxTakePending, TypeOK, RxPlaces
  <2> QED
    BY <1>0, <1>20, <2>1, <2>2 DEF RxTakePending, TypeOK
<1>21. ASSUME RxRequeue PROVE TypeOK'
  <2>1. rx.id \in Entries
    BY <1>0, <1>21, Held DEF RxRequeue
  <2>2. txq' \in Seq(Entries) /\ Len(txq') <= QueueSize
    BY <1>0, <1>21, <2>1 DEF RxRequeue, TypeOK
  <2>3. rx' \in RxPlaces
    BY <1>0, <1>21 DEF RxRequeue, TypeOK, RxPlaces
  <2> QED
    BY <1>0, <1>21, <2>2, <2>3 DEF RxRequeue, TypeOK
<1>22. ASSUME RxNoPending PROVE TypeOK'
  BY <1>0, <1>22, Held DEF RxNoPending, TypeOK, RxPlaces
<1>23. ASSUME NEW error \in BOOLEAN, Serve(error) PROVE TypeOK'
  BY <1>0, <1>23, Held DEF Serve, TypeOK, Message, Messages
<1>24. ASSUME SendEvent PROVE TypeOK'
  BY <1>0, <1>24, Held DEF SendEvent, TypeOK, Messages
<1>25. CASE UNCHANGED vars
  BY <1>0, <1>25 DEF vars, TypeOK
<1> QED
  BY <1>1, <1>2, <1>3, <1>4, <1>5, <1>6, <1>7, <1>8, <1>9, <1>10, <1>11, <1>12,
     <1>13, <1>14, <1>15, <1>16, <1>17, <1>18, <1>19, <1>20, <1>21, <1>22, <1>23,
     <1>24, <1>25 DEF Next, CallerStep, Tx, Rx
-----------------------------------------------------------------------------
(* Who holds an entry, and under which key.                                *)

\* What the invariant says of each place.
LEMMA Known ==
  ASSUME Inv
  PROVE  /\ TypeOK /\ Keyed /\ GivenUp /\ NoneTwice /\ OnePlace /\ NotYet
         /\ entry \in [Entries -> EntryRecords] /\ made \in Nat /\ made <= MaxRequests
         /\ txq \in Seq(Entries) /\ pending \in Seq(Entries) /\ out \in Seq(Entries)
         /\ cleanup \in Seq(Ids) /\ in \in Seq(Messages)
         /\ active_requests \in [AllKeys -> Entries \cup {Absent}]
         /\ expired \subseteq Ids /\ 1 .. made \subseteq Ids /\ Ids \subseteq Entries
         /\ \A e \in 1 .. made : e # made + 1
         /\ Ping \in Entries /\ Ping \notin Ids /\ Absent \notin Entries
<1>1. TypeOK /\ Keyed /\ GivenUp /\ NoneTwice /\ OnePlace /\ NotYet
  BY DEF Inv, Places
<1>2. made \in Nat /\ made <= MaxRequests /\ expired \subseteq Ids
  BY <1>1, BoundsAssumption DEF TypeOK
<1>3. /\ 1 .. made \subseteq Ids /\ Ids \subseteq Entries /\ Ping \in Entries
      /\ Ping \notin Ids /\ Absent \notin Entries /\ \A e \in 1 .. made : e # made + 1
  BY <1>2, BoundsAssumption DEF Ids, Entries, Ping, Absent
<1> QED
  BY <1>1, <1>2, <1>3 DEF TypeOK

\* The key of an entry is given when the request is made.
LEMMA KeysStay ==
  ASSUME Inv, [Next]_vars
  PROVE  \A e \in Entries : Key(e)' = Key(e) \/ (e = made + 1 /\ made' = made + 1)
<1> DEFINE Goal == \A e \in Entries : Key(e)' = Key(e) \/ (e = made + 1 /\ made' = made + 1)
<1> SUFFICES Goal
  OBVIOUS
<1>0. TypeOK /\ Keyed /\ entry \in [Entries -> EntryRecords] /\ Ping \in Entries
  BY Known
<1>1. ASSUME NEW c \in Callers, NEW key \in Keys \cup {NoKey}, Request(c, key) PROVE Goal
  BY <1>0, <1>1 DEF Request, Key
<1>2. ASSUME RxReply PROVE Goal
  <2> DEFINE found == active_requests[Matching(Head(in))]
  <2>1. Matching(Head(in)) \in AllKeys
    BY <1>0, <1>2, MatchingKey, Known DEF RxReply, TypeOK
  <2>2. CASE found = Absent
    BY <1>2, <2>2 DEF RxReply, Key
  <2>3. CASE found # Absent
    <3>1. found \in Entries /\ entry[found] \in EntryRecords
      BY <1>0, <2>1, <2>3, Known
    <3> QED
      BY <1>0, <1>2, <2>3, <3>1 DEF RxReply, Key, EntryRecords
  <2> QED
    BY <2>2, <2>3
<1>3. ASSUME RxSetEvent PROVE Goal
  <2>1. CASE rx.id = Ping
    BY <1>0, <1>3, <2>1 DEF RxSetEvent, Key, Keyed, NoEntry
  <2>2. CASE rx.id # Ping
    BY <1>0, <1>3, <2>2, Held DEF RxSetEvent, Key, EntryRecords
  <2> QED
    BY <2>1, <2>2
<1>4. CASE UNCHANGED <<entry, made>>
  BY <1>0, <1>4 DEF Key
<1> QED
  BY <1>1, <1>2, <1>3, <1>4 DEF Next, CallerStep, Tx, Rx, QueueRequest, GetReply,
     RaiseTimeout, NoReply, TxGet, TxCheck, TxPending, TxActivate, TxSend, RxCleanup,
     RxForget, RxFails, RxStartRead, RxEvent, RxHeartbeat, RxNothing, RxTakePending,
     RxRequeue, RxNoPending, Serve, SendEvent, vars

\* Keys stay, and entries are activated under their key.
LEMMA KeyedStep == Inv /\ [Next]_vars => Keyed'
<1> SUFFICES ASSUME Inv, [Next]_vars PROVE Keyed'
  OBVIOUS
<1>0. /\ Keyed /\ entry \in [Entries -> EntryRecords] /\ Ping \in Entries /\ made \in Nat
      /\ active_requests \in [AllKeys -> Entries \cup {Absent}] /\ Ids \subseteq Entries
      /\ 1 .. made \subseteq Ids /\ Ping \notin Ids /\ Absent \notin Entries
  BY Known
<1>1. ASSUME NEW c \in Callers, NEW key \in Keys \cup {NoKey}, Request(c, key) PROVE Keyed'
  <2>1. \A k \in AllKeys : active_requests[k] # made + 1
    <3> SUFFICES ASSUME made + 1 \in Ids, Activated(made + 1) PROVE FALSE
      BY <1>0, <1>1, BoundsAssumption DEF Activated, Request, Ids
    <3>1. Coming(made + 1)
      BY <1>0 DEF Coming
    <3> QED
      BY <3>1, Known DEF NotYet, Somewhere
  <2>2. made + 1 \in Ids /\ made + 1 # Ping
    BY <1>0, <1>1, BoundsAssumption DEF Request, Ids, Ping
  <2>3. \A e \in 1 .. made' : e \in 1 .. made \/ e = made + 1
    BY <1>0, <1>1 DEF Request
  <2>4. \A e \in Entries : e # made + 1 => Key(e)' = Key(e)
    BY <1>0, <1>1 DEF Request, Key
  <2>5. \A e \in Entries : e = made + 1 => Key(e)' = key
    BY <1>0, <1>1, <2>2 DEF Request, Key
  <2>6. active_requests' = active_requests /\ \A e \in 1 .. made : e # made + 1
    BY <1>0, <1>1 DEF Request
  <2> QED
    BY <1>0, <2>1, <2>2, <2>3, <2>4, <2>5, <2>6 DEF Keyed
<1>2. ASSUME TxActivate PROVE Keyed'
  BY <1>0, <1>2, Held DEF TxActivate, Keyed, Key
<1>3. ASSUME RxForget PROVE Keyed'
  BY <1>0, <1>3 DEF RxForget, Keyed, Key
<1>4. ASSUME RxReply PROVE Keyed'
  <2>1. made' = made /\ Matching(Head(in)) \in AllKeys
    BY <1>0, <1>4, MatchingKey, Known DEF RxReply, TypeOK
  <2>2. \A e \in Entries : Key(e)' = Key(e)
    BY <1>0, <2>1, KeysStay
  <2>3. \A k \in AllKeys : active_requests'[k] \in {active_requests[k], Absent}
    BY <1>0, <1>4, <2>1 DEF RxReply
  <2> QED
    BY <1>0, <2>1, <2>2, <2>3 DEF Keyed
<1>5. ASSUME RxSetEvent PROVE Keyed'
  <2>1. made' = made /\ active_requests' = active_requests
    BY <1>5 DEF RxSetEvent
  <2>2. \A e \in Entries : Key(e)' = Key(e)
    BY <1>0, <2>1, KeysStay
  <2> QED
    BY <1>0, <2>1, <2>2 DEF Keyed
<1>6. CASE UNCHANGED <<entry, made, active_requests>>
  BY <1>0, <1>6 DEF Keyed, Key
<1> QED
  BY <1>1, <1>2, <1>3, <1>4, <1>5, <1>6 DEF Next, CallerStep, Tx, Rx, QueueRequest,
     GetReply, RaiseTimeout, NoReply, TxGet, TxCheck, TxPending, TxSend, RxCleanup,
     RxFails, RxStartRead, RxEvent, RxHeartbeat, RxNothing, RxTakePending, RxRequeue,
     RxNoPending, Serve, SendEvent, vars

\* Only entries given up are cleaned up.
LEMMA GivenUpStep == Inv /\ [Next]_vars => GivenUp'
<1> SUFFICES ASSUME Inv, [Next]_vars PROVE GivenUp'
  OBVIOUS
<1>0. /\ TypeOK /\ GivenUp /\ made \in Nat /\ cleanup \in Seq(Ids) /\ 1 .. made \subseteq Ids
      /\ Absent \notin Ids /\ caller \in [Callers -> CallerPlaces]
      /\ \A e \in 1 .. made : e # made + 1 /\ e \in 1 .. made + 1
  BY Known DEF TypeOK, Ids, Absent
<1>1. ASSUME NEW c \in Callers, NEW key \in Keys \cup {NoKey}, Request(c, key) PROVE GivenUp'
  BY <1>0, <1>1 DEF Request, GivenUp
<1>2. ASSUME NEW c \in Callers, QueueRequest(c) PROVE GivenUp'
  <2>1. CASE Len(txq) < QueueSize
    <3>1. /\ caller[c].at = "put" /\ UNCHANGED <<made, expired, cleanup, rx>>
          /\ \A d \in Callers :
               /\ caller'[d].id = caller[d].id
               /\ caller'[d].at = caller[d].at \/ (d = c /\ caller'[d].at = "wait")
      BY <1>0, <1>2, <2>1 DEF QueueRequest, CallerPlaces
    <3> QED
      BY <1>0, <3>1 DEF GivenUp
  <2>2. CASE ~(Len(txq) < QueueSize)
    <3>1. /\ caller[c].at = "put" /\ UNCHANGED <<made, cleanup, rx>>
          /\ expired' = expired \cup {caller[c].id} /\ caller'[c].at = "idle"
          /\ \A d \in Callers : d # c => caller'[d] = caller[d]
      BY <1>0, <1>2, <2>2 DEF QueueRequest, CallerPlaces
    <3> QED
      BY <1>0, <3>1 DEF GivenUp
  <2> QED
    BY <2>1, <2>2
<1>3. ASSUME NEW c \in Callers, GetReply(c) PROVE GivenUp'
  BY <1>0, <1>3 DEF GetReply, GivenUp
<1>4. ASSUME NEW c \in Callers, RaiseTimeout(c) PROVE GivenUp'
  BY <1>0, <1>4 DEF RaiseTimeout, GivenUp
<1>5. ASSUME NEW c \in Callers, NoReply(c) PROVE GivenUp'
  BY <1>0, <1>5, Held DEF NoReply, GivenUp
<1>6. ASSUME RxCleanup PROVE GivenUp'
  BY <1>0, <1>6 DEF RxCleanup, GivenUp
<1>7. CASE /\ UNCHANGED <<made, caller, expired, cleanup>> /\ (rx'.at = "search" => rx' = rx)
  BY <1>0, <1>7 DEF GivenUp
<1>8. ASSUME RxReply PROVE GivenUp'
  <2>1. rx'.at # "search"
    BY <1>0, <1>8 DEF RxReply, TypeOK, RxPlaces
  <2> QED
    BY <1>7, <1>8, <2>1 DEF RxReply
<1>9. ASSUME Rx PROVE GivenUp'
  <2> USE <1>0, <1>7 DEF TypeOK, RxPlaces
  <2>1. CASE RxForget
    BY <2>1 DEF RxForget
  <2>2. CASE RxFails
    BY <2>2 DEF RxFails
  <2>3. CASE RxStartRead
    BY <2>3 DEF RxStartRead
  <2>4. CASE RxEvent
    BY <2>4 DEF RxEvent
  <2>5. CASE RxHeartbeat
    BY <2>5 DEF RxHeartbeat
  <2>6. CASE RxNothing
    BY <2>6 DEF RxNothing
  <2>7. CASE RxSetEvent
    BY <2>7 DEF RxSetEvent
  <2>8. CASE RxTakePending
    BY <2>8 DEF RxTakePending
  <2>9. CASE RxRequeue
    BY <2>9 DEF RxRequeue
  <2>10. CASE RxNoPending
    BY <2>10 DEF RxNoPending
  <2> QED
    BY <1>6, <1>8, <1>9, <2>1, <2>2, <2>3, <2>4, <2>5, <2>6, <2>7, <2>8, <2>9,
       <2>10 DEF Rx
<1>10. ASSUME Tx PROVE GivenUp'
  BY <1>7, <1>10 DEF Tx, TxGet, TxCheck, TxPending, TxActivate, TxSend
<1> QED
  BY <1>1, <1>2, <1>3, <1>4, <1>5, <1>7, <1>9, <1>10 DEF Next, CallerStep, Serve,
     SendEvent, vars

\* While the heartbeat is under way, the rx thread sends no other one: a
\* heartbeat sent stays active until it is answered.
LEMMA HeartbeatUnderway ==
  ASSUME Inv, ~Underway(Ping), rx.at = "read" PROVE ~Somewhere(Ping) /\ ~Flying(Ping)
<1>1. /\ Ping \in Entries /\ txq \in Seq(Entries) /\ pending \in Seq(Entries)
      /\ PingKey \in AllKeys /\ Key(Ping) = PingKey
  BY Known DEF Keyed, AllKeys
<1>2. ~In(txq, Ping) /\ ~In(pending, Ping)
  BY <1>1 DEF In, Underway
<1>3. ~InHand(Ping) /\ ~Activated(Ping) /\ ~Received(Ping) /\ ~Sending(Ping)
  BY DEF Underway, InHand, Activated, Received, Sending
<1>4. \A x \in expired : Key(x) # PingKey
  BY Known, KeysAssumption DEF Keyed, GivenUp
<1>5. ~Confused(Ping)
  BY <1>1, <1>4, KeysAssumption DEF Confused
<1>6. active_requests[PingKey] # Ping
  BY <1>1, <1>3 DEF Activated
<1>7. ~Flying(Ping)
  BY <1>1, <1>5, <1>6 DEF Inv, Matched
<1> QED
  BY <1>2, <1>3, <1>7 DEF Somewhere


\* A step which moves no entry.
LEMMA NothingMoved ==
  ASSUME Inv, UNCHANGED <<txq, pending, active_requests, out>>, EachOnce(in'),
         \A e \in Entries : /\ Answers(in', e) <=> Answers(in, e)
                            /\ InHand(e)' <=> InHand(e)
                            /\ Sending(e)' <=> Sending(e)
                            /\ Received(e)' <=> Received(e)
                            /\ Returning(e)' <=> Returning(e),
         made' = made, \A e \in Ids : entry'[e].event = entry[e].event,
         \A c \in Callers : caller'[c] = caller[c] \/ caller'[c].at \notin {"put", "wait"}
  PROVE  Places'
<1>0. NoneTwice /\ OnePlace /\ NotYet /\ NoneLost /\ Ids \subseteq Entries
  BY Known DEF Inv, Places
<1>1. \A e \in Entries : /\ Activated(e)' <=> Activated(e)
                         /\ Answering(e)' <=> Answering(e)
  BY DEF Activated, Answering
<1>2. NoneTwice'
  BY <1>0 DEF NoneTwice
<1>3. OnePlace'
  BY <1>0, <1>1 DEF OnePlace, Waiting, Flying
<1>4. \A e \in Ids : Coming(e)' => Coming(e)
  BY DEF Coming
<1>5. NotYet'
  BY <1>0, <1>1, <1>4 DEF NotYet, Somewhere, Flying
<1>6. NoneLost'
  BY <1>0, <1>1 DEF NoneLost, Somewhere
<1> QED
  BY <1>2, <1>3, <1>5, <1>6 DEF Places

\* Entries move from one place to the next, and none gets lost.
LEMMA PlacesStep == Inv /\ [Next]_vars => Places'
<1> SUFFICES ASSUME Inv, [Next]_vars PROVE Places'
  OBVIOUS
<1>0. /\ TypeOK /\ GivenUp /\ NoneTwice /\ OnePlace /\ NotYet /\ NoneLost /\ FreeKey
      /\ txq \in Seq(Entries) /\ pending \in Seq(Entries) /\ out \in Seq(Entries)
      /\ in \in Seq(Messages) /\ made \in Nat /\ 1 .. made \subseteq Ids
      /\ Ids \subseteq Entries /\ Ping \in Entries \ Ids /\ Absent \notin Entries
      /\ tx \in TxPlaces /\ rx \in RxPlaces /\ caller \in [Callers -> CallerPlaces]
      /\ entry \in [Entries -> EntryRecords]
      /\ active_requests \in [AllKeys -> Entries \cup {Absent}]
  BY Known DEF Inv, Places, TypeOK
<1>a. \A e : /\ (Returning(e) => Received(e)) /\ (Returning(e)' => Received(e)')
           /\ (InHand(e) => ~Sending(e))
  BY DEF Returning, Received, InHand, Sending
<1>1. ASSUME NEW c \in Callers, NEW key \in Keys \cup {NoKey}, Request(c, key) PROVE Places'
  <2>1. \A e \in Entries :
        /\ In(txq, e)' <=> In(txq, e)
        /\ In(pending, e)' <=> In(pending, e)
        /\ InHand(e)' <=> InHand(e)
        /\ Activated(e)' <=> Activated(e)
        /\ Received(e)' <=> Received(e)
        /\ Returning(e)' <=> Returning(e)
        /\ Sending(e)' <=> Sending(e)
        /\ In(out, e)' <=> In(out, e)
        /\ Answering(e)' <=> Answering(e)
    BY <1>0, <1>1 DEF Request, InHand, Activated, Received, Returning, Sending,
       Answering
  <2>2. /\ \A e \in Ids : Coming(e)' => Coming(e)
        /\ \A e \in Ids, d \in Callers :
             caller'[d] = [at |-> "wait", id |-> e] =>
               caller[d] = [at |-> "wait", id |-> e] /\ e # made + 1
        /\ \A e \in Ids : e # made + 1 => entry'[e].event = entry[e].event
    <3>1. /\ made' = made + 1 /\ made + 1 \in Ids /\ entry' = [entry EXCEPT ![made + 1] =
                  [caller |-> c, key |-> key, event |-> FALSE, reply |-> Absent]]
          /\ caller' = [caller EXCEPT ![c] = [at |-> "put", id |-> made + 1]]
      BY <1>0, <1>1, BoundsAssumption DEF Request, Ids
    <3>2. \A e \in Ids : Coming(e)' => Coming(e)
      BY <1>0, <3>1 DEF Coming, Ids
    <3>3. \A e \in Ids, d \in Callers :
             caller'[d] = [at |-> "wait", id |-> e] =>
               caller[d] = [at |-> "wait", id |-> e] /\ e # made + 1
      <4> SUFFICES ASSUME NEW e \in Ids, NEW d \in Callers,
                          caller'[d] = [at |-> "wait", id |-> e]
                   PROVE  caller[d] = [at |-> "wait", id |-> e] /\ e # made + 1
        OBVIOUS
      <4>1. caller[d] = [at |-> "wait", id |-> e]
        BY <1>0, <3>1
      <4>2. e \in 1 .. made
        BY <1>0, <4>1 DEF GivenUp
      <4> QED
        BY <1>0, <4>1, <4>2
    <3>4. \A e \in Ids : e # made + 1 => entry'[e].event = entry[e].event
      BY <1>0, <3>1
    <3> QED
      BY <3>2, <3>3, <3>4
  <2>3. NoneTwice'
    BY <1>0, <1>1, <2>1 DEF Request, NoneTwice
  <2>4. OnePlace'
    BY <1>0, <1>a, <2>1 DEF OnePlace, Waiting, Flying
  <2>5. NotYet'
    BY <1>0, <2>1, <2>2 DEF NotYet, Somewhere, Flying
  <2>6. \A e \in Entries : Somewhere(e) => Somewhere(e)'
    BY <2>1 DEF Somewhere
  <2>7. NoneLost'
    BY <1>0, <2>2, <2>6 DEF NoneLost
  <2> QED
    BY <2>3, <2>4, <2>5, <2>7 DEF Places
<1>2. ASSUME NEW c \in Callers, QueueRequest(c) PROVE Places'
  <2> DEFINE x == caller[c].id
  <2>0. /\ UNCHANGED <<entry, made, pending, active_requests, tx, rx, out, in>>
        /\ caller[c] = [at |-> "put", id |-> x] /\ x \in Ids /\ x \in 1 .. made
        /\ caller[c].at = "put"
    BY <1>0, <1>2, Held DEF QueueRequest, CallerPlaces, GivenUp
  <2>1. \A e \in Entries :
        /\ In(pending, e)' <=> In(pending, e)
        /\ InHand(e)' <=> InHand(e)
        /\ Activated(e)' <=> Activated(e)
        /\ Received(e)' <=> Received(e)
        /\ Returning(e)' <=> Returning(e)
        /\ Sending(e)' <=> Sending(e)
        /\ In(out, e)' <=> In(out, e)
        /\ Answering(e)' <=> Answering(e)
    BY <2>0 DEF InHand, Activated, Received, Returning, Sending, Answering
  <2>2. CASE Len(txq) < QueueSize
    <3>1. txq' = Append(txq, x) /\ caller' = [caller EXCEPT ![c] = [at |-> "wait", id |-> x]]
      BY <1>0, <1>2, <2>0, <2>2 DEF QueueRequest, CallerPlaces
    <3>2. Coming(x) /\ ~Somewhere(x) /\ ~Flying(x)
      BY <1>0, <2>0 DEF Coming, NotYet
    <3>3. /\ Distinct(txq')
          /\ \A e : In(txq', e) <=> In(txq, e) \/ e = x
      BY <1>0, <2>0, <3>1, <3>2, Appended DEF NoneTwice, Somewhere
    <3>4. \A d \in Callers : caller[d] = [at |-> "put", id |-> x] => d = c
      BY <1>0, <2>0 DEF GivenUp
    <3>5. \A e \in Ids : Coming(e)' => Coming(e) /\ e # x
      BY <1>0, <2>0, <3>1, <3>4 DEF Coming
    <3>6. \A e \in Ids, d \in Callers :
            caller'[d] = [at |-> "wait", id |-> e] =>
              caller[d] = [at |-> "wait", id |-> e] \/ e = x
      BY <1>0, <3>1
    <3>7. NoneTwice'
      BY <1>0, <2>0, <3>3 DEF NoneTwice
    <3>8. OnePlace'
      BY <1>0, <1>a, <2>1, <3>2, <3>3 DEF OnePlace, Waiting, Flying, Somewhere
    <3>9. NotYet'
      BY <1>0, <2>1, <3>3, <3>5 DEF NotYet, Somewhere, Flying
    <3>10. NoneLost'
      BY <1>0, <2>0, <2>1, <3>3, <3>6 DEF NoneLost, Somewhere
    <3> QED
      BY <3>7, <3>8, <3>9, <3>10 DEF Places
  <2>3. CASE ~(Len(txq) < QueueSize)
    <3>1. txq' = txq /\ caller' = [caller EXCEPT ![c] = [at |-> "idle", id |-> Absent]]
      BY <1>2, <2>3 DEF QueueRequest
    <3>2. NoneTwice'
      BY <1>0, <2>0, <3>1 DEF NoneTwice
    <3>3. OnePlace'
      BY <1>0, <1>a, <2>1, <3>1 DEF OnePlace, Waiting, Flying
    <3>4. \A e \in Ids : Coming(e)' => Coming(e)
      BY <1>0, <2>0, <3>1 DEF Coming
    <3>5. NotYet'
      BY <1>0, <2>1, <3>1, <3>4 DEF NotYet, Somewhere, Flying
    <3>6. \A e \in Ids, d \in Callers :
            caller'[d] = [at |-> "wait", id |-> e] => caller[d] = [at |-> "wait", id |-> e]
      BY <1>0, <3>1
    <3>7. NoneLost'
      BY <1>0, <2>0, <2>1, <3>1, <3>6 DEF NoneLost, Somewhere
    <3> QED
      BY <3>2, <3>3, <3>5, <3>7 DEF Places
  <2> QED
    BY <2>2, <2>3
<1>3. ASSUME NEW c \in Callers, GetReply(c) PROVE Places'
  BY <1>0, <1>3, NothingMoved DEF GetReply, NoneTwice, InHand, Sending, Received,
     Returning
<1>4. ASSUME NEW c \in Callers, RaiseTimeout(c) PROVE Places'
  BY <1>0, <1>4, NothingMoved DEF RaiseTimeout, NoneTwice, InHand, Sending, Received,
     Returning
<1>5. ASSUME NEW c \in Callers, NoReply(c) PROVE Places'
  BY <1>0, <1>5, NothingMoved DEF NoReply, NoneTwice, InHand, Sending, Received,
     Returning, CallerPlaces
<1>6. ASSUME TxGet PROVE Places'
  <2>1. tx' = [at |-> "check", id |-> Head(txq)] /\ Head(txq) \in Entries /\ tx.id = Absent
    BY <1>0, <1>6, Held DEF TxGet, TxPlaces
  <2>2. /\ In(txq, Head(txq)) /\ Distinct(txq')
        /\ \A e : In(txq', e) <=> In(txq, e) /\ e # Head(txq)
    BY <1>0, <1>6, Removed DEF TxGet, NoneTwice
  <2>3. \A e \in Entries :
        /\ In(txq, e)' <=> In(txq, e) /\ e # Head(txq)
        /\ In(pending, e)' <=> In(pending, e)
        /\ InHand(e)' <=> e = Head(txq)
        /\ Activated(e)' <=> Activated(e)
        /\ Received(e)' <=> Received(e)
        /\ Returning(e)' <=> Returning(e)
        /\ Sending(e)' <=> Sending(e)
        /\ In(out, e)' <=> In(out, e)
        /\ Answering(e)' <=> Answering(e)
        /\ ~InHand(e)
    BY <1>0, <1>6, <2>1, <2>2 DEF TxGet, InHand, Activated, Received, Returning,
       Sending, Answering, TxPlaces
  <2>4. /\ \A e \in Ids : Coming(e)' <=> Coming(e)
        /\ UNCHANGED caller
        /\ \A e \in Ids : entry'[e].event = entry[e].event
    BY <1>0, <1>6 DEF TxGet, Coming
  <2>5. NoneTwice'
    BY <1>0, <1>6, <2>1, <2>2, <2>3 DEF TxGet, NoneTwice
  <2>6. OnePlace'
    BY <1>0, <1>a, <2>1, <2>2, <2>3 DEF OnePlace, Waiting, Flying
  <2>7. NotYet'
    BY <1>0, <2>1, <2>2, <2>3, <2>4 DEF NotYet, Somewhere, Flying
  <2>8. \A e \in Entries : Somewhere(e) => Somewhere(e)'
    BY <2>1, <2>2, <2>3 DEF Somewhere
  <2>9. NoneLost'
    BY <1>0, <2>4, <2>8 DEF NoneLost
  <2> QED
    BY <2>5, <2>6, <2>7, <2>9 DEF Places
<1>7. ASSUME TxCheck PROVE Places'
  BY <1>0, <1>7, NothingMoved DEF TxCheck, NoneTwice, InHand, Sending, Received,
     Returning, TxPlaces
<1>8. ASSUME TxPending PROVE Places'
  <2>1. tx.id \in Entries /\ InHand(tx.id) /\ ~Sending(tx.id) /\ ~In(pending, tx.id)
    BY <1>0, <1>8, Held DEF TxPending, InHand, Sending, OnePlace
  <2>2. /\ Distinct(pending')
        /\ \A e : In(pending', e) <=> In(pending, e) \/ e = tx.id
    BY <1>0, <1>8, <2>1, Appended DEF TxPending, NoneTwice
  <2>3. \A e \in Entries :
        /\ In(txq, e)' <=> In(txq, e)
        /\ In(pending, e)' <=> In(pending, e) \/ e = tx.id
        /\ InHand(e)' <=> FALSE
        /\ Activated(e)' <=> Activated(e)
        /\ Received(e)' <=> Received(e)
        /\ Returning(e)' <=> Returning(e)
        /\ Sending(e)' <=> Sending(e)
        /\ In(out, e)' <=> In(out, e)
        /\ Answering(e)' <=> Answering(e)
        /\ (InHand(e) => e = tx.id)
    BY <1>0, <1>8, <2>1, <2>2 DEF TxPending, InHand, Activated, Received, Returning,
       Sending, Answering
  <2>4. /\ \A e \in Ids : Coming(e)' <=> Coming(e)
        /\ UNCHANGED caller
        /\ \A e \in Ids : entry'[e].event = entry[e].event
    BY <1>0, <1>8 DEF TxPending, Coming
  <2>5. NoneTwice'
    BY <1>0, <1>8, <2>1, <2>2, <2>3 DEF TxPending, NoneTwice
  <2>6. OnePlace'
    BY <1>0, <1>a, <2>1, <2>2, <2>3 DEF OnePlace, Waiting, Flying
  <2>7. NotYet'
    BY <1>0, <2>1, <2>2, <2>3, <2>4 DEF NotYet, Somewhere, Flying
  <2>8. \A e \in Entries : Somewhere(e) => Somewhere(e)'
    BY <2>1, <2>2, <2>3 DEF Somewhere
  <2>9. NoneLost'
    BY <1>0, <2>4, <2>8 DEF NoneLost
  <2> QED
    BY <2>5, <2>6, <2>7, <2>9 DEF Places
<1>9. ASSUME TxActivate PROVE Places'
  <2>1. /\ tx.id \in Entries /\ Key(tx.id) \in AllKeys /\ InHand(tx.id)
        /\ active_requests[Key(tx.id)] = Absent /\ tx'.at = "send" /\ tx'.id = tx.id
    BY <1>0, <1>9, Held DEF TxActivate, InHand, FreeKey, TxPlaces
  <2>2. \A e \in Entries : Activated(e)' <=> Activated(e) \/ e = tx.id
    BY <1>0, <1>9, <2>1 DEF TxActivate, Activated
  <2>3. \A e \in Entries :
        /\ In(txq, e)' <=> In(txq, e)
        /\ In(pending, e)' <=> In(pending, e)
        /\ InHand(e)' <=> FALSE
        /\ Activated(e)' <=> Activated(e) \/ e = tx.id
        /\ Received(e)' <=> Received(e)
        /\ Returning(e)' <=> Returning(e)
        /\ Sending(e)' <=> e = tx.id
        /\ In(out, e)' <=> In(out, e)
        /\ Answering(e)' <=> Answering(e)
        /\ (InHand(e) => e = tx.id)
    BY <1>0, <1>9, <2>1, <2>2 DEF TxActivate, InHand, Activated, Received, Returning,
       Sending, Answering
  <2>4. /\ \A e \in Ids : Coming(e)' <=> Coming(e)
        /\ UNCHANGED caller
        /\ \A e \in Ids : entry'[e].event = entry[e].event
    BY <1>0, <1>9 DEF TxActivate, Coming
  <2>5. NoneTwice'
    BY <1>0, <1>9, <2>1, <2>2, <2>3 DEF TxActivate, NoneTwice
  <2>6. OnePlace'
    BY <1>0, <1>a, <2>1, <2>2, <2>3 DEF OnePlace, Waiting, Flying
  <2>7. NotYet'
    BY <1>0, <2>1, <2>2, <2>3, <2>4 DEF NotYet, Somewhere, Flying
  <2>8. \A e \in Entries : Somewhere(e) => Somewhere(e)'
    BY <2>1, <2>2, <2>3 DEF Somewhere
  <2>9. NoneLost'
    BY <1>0, <2>4, <2>8 DEF NoneLost
  <2> QED
    BY <2>5, <2>6, <2>7, <2>9 DEF Places
<1>10. ASSUME TxSend PROVE Places'
  <2>1. /\ tx.id \in Entries /\ Sending(tx.id) /\ ~In(out, tx.id)
    BY <1>0, <1>10, Held DEF TxSend, Sending, OnePlace
  <2>2. /\ Distinct(out')
        /\ \A e : In(out', e) <=> In(out, e) \/ e = tx.id
    BY <1>0, <1>10, <2>1, Appended DEF TxSend, NoneTwice
  <2>3. \A e \in Entries :
        /\ In(txq, e)' <=> In(txq, e)
        /\ In(pending, e)' <=> In(pending, e)
        /\ InHand(e)' <=> InHand(e)
        /\ Activated(e)' <=> Activated(e)
        /\ Received(e)' <=> Received(e)
        /\ Returning(e)' <=> Returning(e)
        /\ Sending(e)' <=> FALSE
        /\ In(out, e)' <=> In(out, e) \/ e = tx.id
        /\ Answering(e)' <=> Answering(e)
    BY <1>0, <1>10, <2>1, <2>2 DEF TxSend, InHand, Activated, Received, Returning,
       Sending, Answering
  <2>4. /\ \A e \in Ids : Coming(e)' <=> Coming(e)
        /\ UNCHANGED caller
        /\ \A e \in Ids : entry'[e].event = entry[e].event
    BY <1>0, <1>10 DEF TxSend, Coming
  <2>5. NoneTwice'
    BY <1>0, <1>10, <2>1, <2>2, <2>3 DEF TxSend, NoneTwice
  <2>6. OnePlace'
    BY <1>0, <1>a, <2>1, <2>2, <2>3 DEF OnePlace, Waiting, Flying
  <2>7. NotYet'
    BY <1>0, <2>1, <2>2, <2>3, <2>4 DEF NotYet, Somewhere, Flying
  <2>8. \A e \in Entries : Somewhere(e) => Somewhere(e)'
    BY <2>1, <2>2, <2>3 DEF Somewhere
  <2>9. NoneLost'
    BY <1>0, <2>4, <2>8 DEF NoneLost
  <2> QED
    BY <2>5, <2>6, <2>7, <2>9 DEF Places
<1>11. ASSUME RxCleanup PROVE Places'
  BY <1>0, <1>11, NothingMoved DEF RxCleanup, NoneTwice, InHand, Sending, Received,
     Returning, RxPlaces
<1>12. ASSUME RxForget PROVE Places'
  <2>1. rx.id \in Entries /\ Key(rx.id) \in AllKeys /\ rx.id \in expired
    BY <1>0, <1>12, Held, Known DEF RxForget, GivenUp
  <2>2. \A e \in Entries : Activated(e)' => Activated(e)
    BY <1>0, <1>12, <2>1 DEF RxForget, Activated
  <2>3. \A e \in Entries : e # rx.id => (Activated(e)' <=> Activated(e))
    BY <1>0, <1>12, <2>1 DEF RxForget, Activated
  <2>4. \A e \in Entries :
        /\ In(txq, e)' <=> In(txq, e)
        /\ In(pending, e)' <=> In(pending, e)
        /\ InHand(e)' <=> InHand(e)
        /\ Activated(e)' <=> Activated(e)'
        /\ Received(e)' <=> Received(e)
        /\ Returning(e)' <=> Returning(e)
        /\ Sending(e)' <=> Sending(e)
        /\ In(out, e)' <=> In(out, e)
        /\ Answering(e)' <=> Answering(e)
    BY <1>0, <1>12, <2>1, <2>2, <2>3 DEF RxForget, InHand, Activated, Received,
       Returning, Sending, Answering
  <2>5. /\ \A e \in Ids : Coming(e)' <=> Coming(e)
        /\ UNCHANGED caller
        /\ \A e \in Ids : entry'[e].event = entry[e].event
    BY <1>0, <1>12 DEF RxForget, Coming
  <2>6. NoneTwice'
    BY <1>0, <1>12, <2>1, <2>2, <2>3, <2>4 DEF RxForget, NoneTwice
  <2>7. OnePlace'
    BY <1>0, <1>a, <2>1, <2>2, <2>3, <2>4 DEF OnePlace, Waiting, Flying
  <2>8. NotYet'
    BY <1>0, <2>1, <2>2, <2>3, <2>4, <2>5 DEF NotYet, Somewhere, Flying
  <2>9. \A e \in Entries : Somewhere(e) => Somewhere(e)' \/ e = rx.id
    BY <2>1, <2>2, <2>3, <2>4 DEF Somewhere
  <2>10. NoneLost'
    BY <1>0, <2>1, <2>5, <2>9 DEF NoneLost, GivenUp
  <2> QED
    BY <2>6, <2>7, <2>8, <2>10 DEF Places
<1>13. ASSUME RxFails PROVE Places'
  BY <1>0, <1>13, NothingMoved DEF RxFails, NoneTwice, InHand, Sending, Received,
     Returning, RxPlaces
<1>14. ASSUME RxEvent PROVE Places'
  <2>1. EachOnce(in') /\ \A e : Answers(in', e) <=> Answers(in, e)
    BY <1>0, <1>14, MessageRemoved DEF RxEvent, NoneTwice
  <2> QED
    BY <1>0, <1>14, <2>1, NothingMoved DEF RxEvent, InHand, Sending, Received,
       Returning, RxPlaces
<1>15. ASSUME RxHeartbeat PROVE Places'
  <2>1. ~Somewhere(Ping) /\ ~Flying(Ping)
    BY <1>0, <1>15, HeartbeatUnderway DEF RxHeartbeat
  <2>2. /\ Distinct(txq')
        /\ \A e : In(txq', e) <=> In(txq, e) \/ e = Ping
    BY <1>0, <1>15, <2>1, Appended DEF RxHeartbeat, NoneTwice, Somewhere
  <2>3. rx'.id = rx.id /\ rx.at = "read" /\ rx'.at = "loop"
    BY <1>0, <1>15 DEF RxHeartbeat, RxPlaces
  <2>4. \A e \in Entries :
        /\ In(txq, e)' <=> In(txq, e) \/ e = Ping
        /\ In(pending, e)' <=> In(pending, e)
        /\ InHand(e)' <=> InHand(e)
        /\ Activated(e)' <=> Activated(e)
        /\ Received(e)' <=> Received(e)
        /\ Returning(e)' <=> Returning(e)
        /\ Sending(e)' <=> Sending(e)
        /\ In(out, e)' <=> In(out, e)
        /\ Answering(e)' <=> Answering(e)
    BY <1>0, <1>15, <2>1, <2>2, <2>3 DEF RxHeartbeat, InHand, Activated, Received,
       Returning, Sending, Answering
  <2>5. /\ \A e \in Ids : Coming(e)' <=> Coming(e)
        /\ UNCHANGED caller
        /\ \A e \in Ids : entry'[e].event = entry[e].event
    BY <1>0, <1>15 DEF RxHeartbeat, Coming
  <2>6. NoneTwice'
    BY <1>0, <1>15, <2>1, <2>2, <2>3, <2>4 DEF RxHeartbeat, NoneTwice
  <2>7. OnePlace'
    BY <1>0, <1>a, <2>1, <2>2, <2>3, <2>4 DEF OnePlace, Waiting, Flying, Somewhere
  <2>8. NotYet'
    BY <1>0, <2>1, <2>2, <2>3, <2>4, <2>5 DEF NotYet, Somewhere, Flying
  <2>9. \A e \in Entries : Somewhere(e) => Somewhere(e)'
    BY <2>1, <2>2, <2>3, <2>4 DEF Somewhere
  <2>10. NoneLost'
    BY <1>0, <2>5, <2>9 DEF NoneLost
  <2> QED
    BY <2>6, <2>7, <2>8, <2>10 DEF Places
<1>16. ASSUME RxReply PROVE Places'
  <2> DEFINE m == Head(in)
             found == active_requests[Matching(m)]
  <2>1. m \in Messages /\ ~m.event /\ Matching(m) \in AllKeys
    BY <1>0, <1>16, MatchingKey DEF RxReply
  <2>2. found = Absent \/ (found \in Entries /\ Activated(found))
    BY <1>0, <2>1 DEF Activated
  <2>3. \A k \in AllKeys : active_requests[k] = found /\ found # Absent => k = Matching(m)
    BY <1>0, <2>1, Known DEF Keyed
  <2>4. /\ EachOnce(in') /\ Answering(m.id)
        /\ \A e : Answers(in', e) <=> Answers(in, e) /\ e # m.id
    BY <1>0, <1>16, MessageRemoved DEF RxReply, NoneTwice, Answering
  <2>5. \A e \in Entries : Activated(e)' <=> Activated(e) /\ e # found
    BY <1>0, <1>16, <2>1, <2>2, <2>3 DEF RxReply, Activated
  <2>6. rx.id = Absent /\ (\A e \in Entries : Received(e)' <=> e = found) /\ rx'.at # "put"
    BY <1>0, <1>16, <2>2 DEF RxReply, Received, RxPlaces
  <2>7. \A e \in Entries :
        /\ In(txq, e)' <=> In(txq, e)
        /\ In(pending, e)' <=> In(pending, e)
        /\ InHand(e)' <=> InHand(e)
        /\ ~Returning(e) /\ ~Returning(e)'
        /\ ~Received(e)
        /\ Sending(e)' <=> Sending(e)
        /\ In(out, e)' <=> In(out, e)
        /\ Answering(e)' <=> Answering(e) /\ e # m.id
    BY <1>0, <1>16, <2>4, <2>6 DEF RxReply, InHand, Returning, Received, Sending,
       Answering
  <2>8. /\ UNCHANGED <<made, caller, txq, pending, out>>
        /\ \A e \in Ids : entry'[e].event = entry[e].event
    <3>1. CASE found = Absent
      BY <1>16, <3>1 DEF RxReply
    <3>2. CASE found # Absent
      <4>1. entry' = [entry EXCEPT ![found].reply = m.id] /\ entry[found] \in EntryRecords
        BY <1>0, <1>16, <2>2, <3>2 DEF RxReply
      <4> QED
        BY <1>0, <1>16, <2>2, <3>2, <4>1 DEF RxReply, EntryRecords
    <3> QED
      BY <3>1, <3>2
  <2>9. NoneTwice'
    BY <1>0, <2>4, <2>8 DEF NoneTwice
  <2>10. OnePlace'
    BY <1>0, <1>a, <2>2, <2>5, <2>6, <2>7 DEF OnePlace, Waiting, Flying
  <2>11. NotYet'
    <3>1. \A e \in Ids : Coming(e)' <=> Coming(e)
      BY <2>8 DEF Coming
    <3> QED
      BY <1>0, <2>2, <2>5, <2>6, <2>7, <3>1 DEF NotYet, Somewhere, Flying
  <2>12. \A e \in Entries : Somewhere(e) => Somewhere(e)'
    BY <2>5, <2>6, <2>7 DEF Somewhere
  <2>13. NoneLost'
    BY <1>0, <2>8, <2>12 DEF NoneLost
  <2> QED
    BY <2>9, <2>10, <2>11, <2>13 DEF Places
<1>17. ASSUME RxSetEvent PROVE Places'
  <2>1. rx.id \in Entries /\ Received(rx.id) /\ ~Returning(rx.id) /\ rx'.id = Absent
    BY <1>0, <1>17, Held DEF RxSetEvent, Received, Returning, RxPlaces
  <2>2. \A e \in Entries :
        /\ In(txq, e)' <=> In(txq, e)
        /\ In(pending, e)' <=> In(pending, e)
        /\ InHand(e)' <=> InHand(e)
        /\ Activated(e)' <=> Activated(e)
        /\ Received(e)' <=> FALSE
        /\ Returning(e)' <=> Returning(e)
        /\ Sending(e)' <=> Sending(e)
        /\ In(out, e)' <=> In(out, e)
        /\ Answering(e)' <=> Answering(e)
        /\ (Received(e) => e = rx.id)
    BY <1>0, <1>17, <2>1 DEF RxSetEvent, InHand, Activated, Received, Returning,
       Sending, Answering
  <2>3. /\ \A e \in Ids : Coming(e)' <=> Coming(e)
        /\ UNCHANGED caller
        /\ \A e \in Ids : e # rx.id => entry'[e].event = entry[e].event
        /\ rx.id \in Ids => entry'[rx.id].event
    BY <1>0, <1>17, <2>1, Known, Held DEF RxSetEvent, Coming, EntryRecords
  <2>4. NoneTwice'
    BY <1>0, <1>17, <2>1, <2>2 DEF RxSetEvent, NoneTwice
  <2>5. OnePlace'
    BY <1>0, <1>a, <2>1, <2>2 DEF OnePlace, Waiting, Flying
  <2>6. NotYet'
    BY <1>0, <2>1, <2>2, <2>3 DEF NotYet, Somewhere, Flying
  <2>7. \A e \in Entries : Somewhere(e) => Somewhere(e)' \/ e = rx.id
    BY <2>1, <2>2 DEF Somewhere
  <2>8. NoneLost'
    BY <1>0, <2>1, <2>3, <2>7 DEF NoneLost
  <2> QED
    BY <2>4, <2>5, <2>6, <2>8 DEF Places
<1>18. ASSUME RxTakePending PROVE Places'
  <2>1. /\ rx' = [rx EXCEPT !.at = "put", !.id = Head(pending)]
        /\ Head(pending) \in Entries /\ rx.id = Absent
    BY <1>0, <1>18, Held DEF RxTakePending
  <2>2. /\ In(pending, Head(pending)) /\ Distinct(pending')
        /\ \A e : In(pending', e) <=> In(pending, e) /\ e # Head(pending)
    BY <1>0, <1>18, Removed DEF RxTakePending, NoneTwice
  <2>3. \A e \in Entries :
        /\ In(txq, e)' <=> In(txq, e)
        /\ In(pending, e)' <=> In(pending, e) /\ e # Head(pending)
        /\ InHand(e)' <=> InHand(e)
        /\ Activated(e)' <=> Activated(e)
        /\ Received(e)' <=> e = Head(pending)
        /\ Returning(e)' <=> e = Head(pending)
        /\ Sending(e)' <=> Sending(e)
        /\ In(out, e)' <=> In(out, e)
        /\ Answering(e)' <=> Answering(e)
        /\ ~Received(e)
    BY <1>0, <1>18, <2>1, <2>2 DEF RxTakePending, InHand, Activated, Received,
       Returning, Sending, Answering, RxPlaces
  <2>4. /\ \A e \in Ids : Coming(e)' <=> Coming(e)
        /\ UNCHANGED caller
        /\ \A e \in Ids : entry'[e].event = entry[e].event
    BY <1>0, <1>18 DEF RxTakePending, Coming
  <2>5. NoneTwice'
    BY <1>0, <1>18, <2>1, <2>2, <2>3 DEF RxTakePending, NoneTwice
  <2>6. OnePlace'
    BY <1>0, <1>a, <2>1, <2>2, <2>3 DEF OnePlace, Waiting, Flying
  <2>7. NotYet'
    BY <1>0, <2>1, <2>2, <2>3, <2>4 DEF NotYet, Somewhere, Flying
  <2>8. \A e \in Entries : Somewhere(e) => Somewhere(e)'
    BY <2>1, <2>2, <2>3 DEF Somewhere
  <2>9. NoneLost'
    BY <1>0, <2>4, <2>8 DEF NoneLost
  <2> QED
    BY <2>5, <2>6, <2>7, <2>9 DEF Places
<1>19. ASSUME RxRequeue PROVE Places'
  <2>1. rx.id \in Entries /\ Received(rx.id) /\ Returning(rx.id) /\ rx'.id = Absent
    BY <1>0, <1>19, Held DEF RxRequeue, Received, Returning, RxPlaces
  <2>2. /\ Distinct(txq')
        /\ \A e : In(txq', e) <=> In(txq, e) \/ e = rx.id
    BY <1>0, <1>19, <2>1, Appended DEF RxRequeue, NoneTwice, OnePlace
  <2>3. \A e \in Entries :
        /\ In(txq, e)' <=> In(txq, e) \/ e = rx.id
        /\ In(pending, e)' <=> In(pending, e)
        /\ InHand(e)' <=> InHand(e)
        /\ Activated(e)' <=> Activated(e)
        /\ Received(e)' <=> FALSE
        /\ Returning(e)' <=> FALSE
        /\ Sending(e)' <=> Sending(e)
        /\ In(out, e)' <=> In(out, e)
        /\ Answering(e)' <=> Answering(e)
        /\ (Received(e) => e = rx.id)
    BY <1>0, <1>19, <2>1, <2>2 DEF RxRequeue, InHand, Activated, Received, Returning,
       Sending, Answering
  <2>4. /\ \A e \in Ids : Coming(e)' <=> Coming(e)
        /\ UNCHANGED caller
        /\ \A e \in Ids : entry'[e].event = entry[e].event
    BY <1>0, <1>19 DEF RxRequeue, Coming
  <2>5. NoneTwice'
    BY <1>0, <1>19, <2>1, <2>2, <2>3 DEF RxRequeue, NoneTwice
  <2>6. OnePlace'
    BY <1>0, <1>a, <2>1, <2>2, <2>3 DEF OnePlace, Waiting, Flying
  <2>7. NotYet'
    BY <1>0, <2>1, <2>2, <2>3, <2>4 DEF NotYet, Somewhere, Flying
  <2>8. \A e \in Entries : Somewhere(e) => Somewhere(e)'
    BY <2>1, <2>2, <2>3 DEF Somewhere
  <2>9. NoneLost'
    BY <1>0, <2>4, <2>8 DEF NoneLost
  <2> QED
    BY <2>5, <2>6, <2>7, <2>9 DEF Places
<1>20. ASSUME NEW error \in BOOLEAN, Serve(error) PROVE Places'
  <2>1. /\ Head(out) \in Entries /\ In(out, Head(out)) /\ Distinct(out')
        /\ \A e : In(out', e) <=> In(out, e) /\ e # Head(out)
    BY <1>0, <1>20, Removed DEF Serve, NoneTwice
  <2>2. /\ Message(Head(out), error) \in Messages /\ ~Message(Head(out), error).event
        /\ Message(Head(out), error).id = Head(out)
    BY <2>1 DEF Message, Messages
  <2>3. ~Answers(in, Head(out))
    BY <1>0, <2>1 DEF OnePlace, Answering
  <2>4. /\ EachOnce(in') /\ \A e : Answers(in', e) <=> Answers(in, e) \/ e = Head(out)
    BY <1>0, <1>20, <2>2, <2>3, ReplyAppended DEF Serve, NoneTwice
  <2>5. \A e \in Entries :
        /\ In(txq, e)' <=> In(txq, e)
        /\ In(pending, e)' <=> In(pending, e)
        /\ InHand(e)' <=> InHand(e)
        /\ Activated(e)' <=> Activated(e)
        /\ Received(e)' <=> Received(e)
        /\ Returning(e)' <=> Returning(e)
        /\ Sending(e)' <=> Sending(e)
        /\ In(out, e)' <=> In(out, e) /\ e # Head(out)
        /\ Answering(e)' <=> Answering(e) \/ e = Head(out)
    BY <1>0, <1>20, <2>1, <2>2, <2>3, <2>4 DEF Serve, InHand, Activated, Received,
       Returning, Sending, Answering
  <2>6. /\ \A e \in Ids : Coming(e)' <=> Coming(e)
        /\ UNCHANGED caller
        /\ \A e \in Ids : entry'[e].event = entry[e].event
    BY <1>0, <1>20 DEF Serve, Coming
  <2>7. NoneTwice'
    BY <1>0, <1>20, <2>1, <2>2, <2>3, <2>4, <2>5 DEF Serve, NoneTwice
  <2>8. OnePlace'
    BY <1>0, <1>a, <2>1, <2>2, <2>3, <2>4, <2>5 DEF OnePlace, Waiting, Flying
  <2>9. NotYet'
    BY <1>0, <2>1, <2>2, <2>3, <2>4, <2>5, <2>6 DEF NotYet, Somewhere, Flying
  <2>10. \A e \in Entries : Somewhere(e) => Somewhere(e)'
    BY <2>1, <2>2, <2>3, <2>4, <2>5 DEF Somewhere
  <2>11. NoneLost'
    BY <1>0, <2>6, <2>10 DEF NoneLost
  <2> QED
    BY <2>7, <2>8, <2>9, <2>11 DEF Places
<1>21. ASSUME SendEvent PROVE Places'
  <2>0. Event \in Messages /\ Event.event
    BY DEF Event, Messages
  <2>1. EachOnce(in') /\ \A e : Answers(in', e) <=> Answers(in, e)
    BY <1>0, <1>21, <2>0, EventAppended DEF SendEvent, NoneTwice
  <2> QED
    BY <1>0, <1>21, <2>1, NothingMoved DEF SendEvent, InHand, Sending, Received,
       Returning
<1>22. ASSUME RxStartRead PROVE Places'
  BY <1>0, <1>22, NothingMoved DEF RxStartRead, NoneTwice, InHand, Sending, Received,
     Returning, RxPlaces
<1>23. ASSUME RxNothing PROVE Places'
  BY <1>0, <1>23, NothingMoved DEF RxNothing, NoneTwice, InHand, Sending, Received,
     Returning, RxPlaces
<1>24. ASSUME RxNoPending PROVE Places'
  BY <1>0, <1>24, NothingMoved DEF RxNoPending, NoneTwice, InHand, Sending, Received,
     Returning, RxPlaces
<1>25. CASE UNCHANGED vars
  BY <1>0, <1>25, NothingMoved DEF vars, NoneTwice, InHand, Sending, Received,
     Returning
<1> QED
  BY <1>1, <1>2, <1>3, <1>4, <1>5, <1>6, <1>7, <1>8, <1>9, <1>10, <1>11, <1>12,
     <1>13, <1>14, <1>15, <1>16, <1>17, <1>18, <1>19, <1>20, <1>21, <1>22, <1>23,
     <1>24, <1>25 DEF Next, CallerStep, Tx, Rx
-----------------------------------------------------------------------------
(* Which reply an entry is given.                                          *)

\* The key of an entry which is somewhere, under way or given up stays.
LEMMA KeyKept ==
  ASSUME Inv, [Next]_vars, NEW e \in Entries, Somewhere(e) \/ Flying(e) \/ e \in expired
  PROVE  Key(e)' = Key(e)
<1>1. made \in Nat /\ NotYet /\ expired \subseteq 1 .. made
  BY Known DEF GivenUp
<1>2. SUFFICES ASSUME e = made + 1, made' = made + 1 PROVE FALSE
  BY KeysStay
<1>3. e \in Ids
  BY <1>1, <1>2, TypeStep, BoundsAssumption DEF Ids, TypeOK
<1>4. Coming(e)
  BY <1>1, <1>2 DEF Coming
<1> QED
  BY <1>1, <1>2, <1>3, <1>4 DEF NotYet

LEMMA ExpiredStay == Inv /\ [Next]_vars => expired \subseteq expired'
<1> SUFFICES ASSUME Inv, [Next]_vars PROVE expired \subseteq expired'
  OBVIOUS
<1>1. CASE \E c \in Callers : QueueRequest(c) \/ NoReply(c)
  BY <1>1 DEF QueueRequest, NoReply
<1>2. CASE UNCHANGED expired
  BY <1>2
<1>3. ASSUME Rx PROVE UNCHANGED expired
  BY <1>3 DEF Rx, RxCleanup, RxForget, RxFails, RxStartRead, RxEvent, RxHeartbeat,
     RxNothing, RxReply, RxSetEvent, RxTakePending, RxRequeue, RxNoPending
<1>4. ASSUME Tx PROVE UNCHANGED expired
  BY <1>4 DEF Tx, TxGet, TxCheck, TxPending, TxActivate, TxSend
<1> QED
  BY <1>1, <1>2, <1>3, <1>4 DEF Next, CallerStep, Request, GetReply, RaiseTimeout,
     Serve, SendEvent, vars

LEMMA ConfusedStays ==
  ASSUME Inv, [Next]_vars, NEW e \in Entries, Somewhere(e) \/ Flying(e), Confused(e)
  PROVE  Confused(e)'
<1>1. PICK x \in expired : Key(e) \in {Key(x), NoKey}
  BY DEF Confused
<1>2. x \in Entries /\ x \in expired'
  BY <1>1, Known, ExpiredStay
<1>3. Key(e)' = Key(e) /\ Key(x)' = Key(x)
  BY <1>1, <1>2, KeyKept
<1> QED
  BY <1>1, <1>2, <1>3 DEF Confused

\* The entry a reply is given to is the one it belongs to, unless a request has
\* been given up.
LEMMA ReplyMatches ==
  ASSUME Inv, in # <<>>, ~Head(in).event,
         NEW found, found = active_requests[Matching(Head(in))], found # Absent
  PROVE  /\ Head(in).id \in Entries /\ found \in Entries /\ Activated(found)
         /\ Key(found) = Matching(Head(in))
         /\ found # Head(in).id => Confused(found)
<1> DEFINE m == Head(in)
<1>0. /\ TypeOK /\ Keyed /\ NoneTwice /\ in \in Seq(Messages)
      /\ active_requests \in [AllKeys -> Entries \cup {Absent}] /\ Absent \notin Entries
  BY Known
<1>1. /\ m \in Messages /\ Answering(m.id)
  BY <1>0, MessageRemoved DEF NoneTwice, Answering
<1>2. /\ m.id \in Entries /\ Key(m.id) \in AllKeys
      /\ Matching(m) \in {Key(m.id), NoKey} /\ Matching(m) \in AllKeys
      /\ active_requests[Key(m.id)] # Absent => Matching(m) = Key(m.id)
  BY <1>0, <1>1, MatchingKey
<1>3. found \in Entries /\ Activated(found) /\ Key(found) = Matching(m)
  BY <1>0, <1>2 DEF Activated, Keyed
<1>4. ASSUME found # m.id PROVE Confused(found)
  <2>1. active_requests[Key(m.id)] = m.id \/ Confused(m.id)
    BY <1>1, <1>2 DEF Inv, Matched, Flying
  <2>2. Confused(m.id)
    BY <1>0, <1>2, <1>4, <2>1
  <2> QED
    BY <1>2, <1>3, <2>2 DEF Confused
<1> QED
  BY <1>2, <1>3, <1>4

\* A message is under way when its entry has been activated.
LEMMA FlyingGrows ==
  ASSUME Inv, [Next]_vars
  PROVE  \A e \in Entries : Flying(e)' => Flying(e) \/ (e = tx.id /\ TxActivate)
<1> DEFINE Goal == \A e \in Entries : Flying(e)' => Flying(e) \/ (e = tx.id /\ TxActivate)
<1> SUFFICES Goal
  OBVIOUS
<1>0. /\ NoneTwice /\ OnePlace /\ tx \in TxPlaces /\ out \in Seq(Entries) /\ in \in Seq(Messages)
  BY Known DEF TypeOK
<1>1. ASSUME TxGet PROVE Goal
  BY <1>0, <1>1 DEF TxGet, Flying, Sending, Answering, TxPlaces
<1>2. ASSUME TxCheck PROVE Goal
  BY <1>0, <1>2 DEF TxCheck, Flying, Sending, Answering, TxPlaces
<1>3. ASSUME TxPending PROVE Goal
  BY <1>0, <1>3 DEF TxPending, Flying, Sending, Answering, TxPlaces
<1>4. ASSUME TxActivate PROVE Goal
  <2>1. tx'.id = tx.id /\ UNCHANGED <<out, in>>
    BY <1>0, <1>4 DEF TxActivate, TxPlaces
  <2> QED
    BY <1>0, <1>4, <2>1 DEF Flying, Sending, Answering
<1>5. ASSUME TxSend PROVE Goal
  <2>1. tx'.at = "get" /\ in' = in /\ tx.id \in Entries /\ tx.at = "send"
    BY <1>0, <1>5 DEF TxSend, TxPlaces
  <2>2. \A e : In(out', e) <=> In(out, e) \/ e = tx.id
    BY <1>0, <1>5, <2>1, Appended DEF TxSend
  <2> QED
    BY <2>1, <2>2 DEF Flying, Sending, Answering
<1>6. ASSUME RxEvent PROVE Goal
  <2>1. \A e : Answers(in', e) <=> Answers(in, e)
    BY <1>0, <1>6, MessageRemoved DEF RxEvent, NoneTwice
  <2> QED
    BY <1>6, <2>1 DEF RxEvent, Flying, Sending, Answering
<1>7. ASSUME RxReply PROVE Goal
  <2>1. \A e : Answers(in', e) => Answers(in, e)
    BY <1>0, <1>7, MessageRemoved DEF RxReply, NoneTwice
  <2> QED
    BY <1>7, <2>1 DEF RxReply, Flying, Sending, Answering
<1>8. ASSUME NEW error \in BOOLEAN, Serve(error) PROVE Goal
  <2>1. /\ Head(out) \in Entries /\ In(out, Head(out))
        /\ \A e : In(out', e) => In(out, e)
    BY <1>0, <1>8, Removed DEF Serve, NoneTwice
  <2>2. /\ Message(Head(out), error) \in Messages /\ ~Message(Head(out), error).event
        /\ Message(Head(out), error).id = Head(out)
    BY <2>1 DEF Message, Messages
  <2>3. \A e : Answers(in', e) <=> Answers(in, e) \/ e = Head(out)
    BY <1>0, <1>8, <2>2, ReplyAppended DEF Serve
  <2> QED
    BY <1>8, <2>1, <2>3 DEF Serve, Flying, Sending, Answering
<1>9. ASSUME SendEvent PROVE Goal
  <2>1. Event \in Messages /\ Event.event
    BY DEF Event, Messages
  <2>2. \A e : Answers(in', e) <=> Answers(in, e)
    BY <1>0, <1>9, <2>1, EventAppended DEF SendEvent
  <2> QED
    BY <1>9, <2>2 DEF SendEvent, Flying, Sending, Answering
<1>10. CASE UNCHANGED <<tx, out, in>>
  BY <1>10 DEF Flying, Sending, Answering
<1> QED
  BY <1>1, <1>2, <1>3, <1>4, <1>5, <1>6, <1>7, <1>8, <1>9, <1>10 DEF Next,
     CallerStep, Tx, Rx, Request, QueueRequest, GetReply, RaiseTimeout, NoReply,
     RxCleanup, RxForget, RxFails, RxStartRead, RxHeartbeat, RxNothing, RxSetEvent,
     RxTakePending, RxRequeue, RxNoPending, vars

\* Entries are activated by the tx thread, and taken away by the rx thread: the one
\* it has found, or one given up.
LEMMA ActiveMoves ==
  ASSUME Inv, [Next]_vars, NEW k \in AllKeys
  PROVE  \/ active_requests'[k] = active_requests[k]
         \/ TxActivate /\ k = Key(tx.id) /\ active_requests'[k] = tx.id
         \/ RxForget /\ active_requests'[k] = Absent /\ active_requests[k] \in expired
         \/ RxReply /\ active_requests'[k] = Absent /\ k = Matching(Head(in))
<1>0. TypeOK /\ GivenUp /\ active_requests \in [AllKeys -> Entries \cup {Absent}]
  BY Known
<1>1. CASE TxActivate
  BY <1>0, <1>1, Held DEF TxActivate
<1>2. CASE RxForget
  BY <1>0, <1>2 DEF RxForget, GivenUp
<1>3. CASE RxReply
  BY <1>0, <1>3 DEF RxReply
<1>4. CASE UNCHANGED active_requests
  BY <1>4
<1>5. ASSUME Rx, ~RxForget, ~RxReply PROVE UNCHANGED active_requests
  BY <1>5 DEF Rx, RxCleanup, RxFails, RxStartRead, RxEvent, RxHeartbeat, RxNothing,
     RxSetEvent, RxTakePending, RxRequeue, RxNoPending
<1>6. ASSUME Tx, ~TxActivate PROVE UNCHANGED active_requests
  BY <1>6 DEF Tx, TxGet, TxCheck, TxPending, TxSend
<1> QED
  BY <1>1, <1>2, <1>3, <1>4, <1>5, <1>6 DEF Next, CallerStep, Request, QueueRequest,
     GetReply, RaiseTimeout, NoReply, Serve, SendEvent, vars

LEMMA FreeKeyStep == Inv /\ [Next]_vars => FreeKey'
<1> SUFFICES ASSUME Inv, [Next]_vars, NEW e \in Entries,
                    tx' = [at |-> "activate", id |-> e]
             PROVE  active_requests'[Key(e)'] = Absent
  BY DEF FreeKey
<1>0. TypeOK /\ FreeKey /\ tx \in TxPlaces /\ Key(e) \in AllKeys /\ Absent \notin Entries
  BY Known, Held DEF Inv, TypeOK
<1>1. CASE TxCheck
  <2>1. tx.id = e /\ tx.at = "check" /\ Key(e) \notin Active /\ UNCHANGED <<entry, active_requests>>
    BY <1>0, <1>1 DEF TxCheck, TxPlaces
  <2> QED
    BY <1>0, <2>1 DEF Active, Key
<1>2. CASE UNCHANGED tx
  <2>1. tx.id = e /\ tx.at = "activate" /\ active_requests[Key(e)] = Absent
    BY <1>0, <1>2 DEF FreeKey
  <2>2. ~TxActivate
    BY <1>2, <2>1 DEF TxActivate
  <2>3. Key(e)' = Key(e)
    BY <2>1, KeyKept DEF Somewhere, InHand
  <2> QED
    BY <1>0, <2>1, <2>2, <2>3, ActiveMoves
<1>3. ASSUME Tx PROVE TxCheck
  BY <1>0, <1>3 DEF Tx, TxGet, TxPending, TxActivate, TxSend, TxPlaces
<1>4. ASSUME Rx PROVE UNCHANGED tx
  BY <1>4 DEF Rx, RxCleanup, RxForget, RxFails, RxStartRead, RxEvent, RxHeartbeat,
     RxNothing, RxReply, RxSetEvent, RxTakePending, RxRequeue, RxNoPending
<1> QED
  BY <1>1, <1>2, <1>3, <1>4 DEF Next, CallerStep, Request, QueueRequest, GetReply,
     RaiseTimeout, NoReply, Serve, SendEvent, vars

LEMMA MatchedStep == Inv /\ [Next]_vars => Matched'
<1> SUFFICES ASSUME Inv, [Next]_vars, NEW e \in Entries, Flying(e)',
                    active_requests'[Key(e)'] # e
             PROVE  Confused(e)'
  BY DEF Matched
<1>0. TypeOK /\ Keyed /\ OnePlace /\ FreeKey /\ Matched /\ Key(e) \in AllKeys /\ Absent \notin Entries
  BY Known, Held DEF Inv
<1>1. CASE e = tx.id /\ TxActivate
  <2>1. InHand(e) /\ active_requests'[Key(e)] = e /\ UNCHANGED entry
    BY <1>0, <1>1 DEF TxActivate, InHand, TypeOK
  <2> QED
    BY <2>1 DEF Key
<1>2. CASE Flying(e) /\ Confused(e)
  BY <1>2, ConfusedStays
<1>3. CASE Flying(e) /\ active_requests[Key(e)] = e
  <2>0. Key(e)' = Key(e)
    BY <1>3, KeyKept
  <2>1. CASE TxActivate
    <3>1. tx.id \in Entries /\ tx = [at |-> "activate", id |-> tx.id]
      BY <1>0, <2>1 DEF TxActivate, TypeOK, TxPlaces
    <3>2. active_requests[Key(tx.id)] = Absent
      BY <1>0, <3>1 DEF FreeKey
    <3> QED
      BY <1>0, <1>3, <2>0, <2>1, <3>2 DEF TxActivate, TypeOK
  <2>2. CASE RxForget /\ e \in expired
    <3>1. Confused(e)
      BY <2>2 DEF Confused
    <3> QED
      BY <1>3, <3>1, ConfusedStays
  <2>3. CASE RxReply /\ Key(e) = Matching(Head(in))
    <3>1. /\ in # <<>> /\ ~Head(in).event /\ in' = Tail(in) /\ UNCHANGED <<tx, out>>
      BY <2>3 DEF RxReply
    <3>2. CASE e = Head(in).id
      <4>1. Answering(e) /\ ~Answers(in', e)
        BY <3>1, <3>2, Known, MessageRemoved DEF NoneTwice, Answering
      <4>2. ~Sending(e) /\ ~In(out, e)
        BY <1>0, <4>1 DEF OnePlace
      <4> QED
        BY <3>1, <4>1, <4>2 DEF Flying, Sending, Answering
    <3>3. CASE e # Head(in).id
      <4>1. Confused(e)
        BY <1>0, <1>3, <2>3, <3>1, <3>3, ReplyMatches
      <4> QED
        BY <1>3, <4>1, ConfusedStays
    <3> QED
      BY <3>2, <3>3
  <2> QED
    BY <1>0, <1>3, <2>0, <2>1, <2>2, <2>3, ActiveMoves
<1> QED
  BY <1>0, <1>1, <1>2, <1>3, FlyingGrows DEF Matched

\* An entry gets its key when the request is made, and its reply by the rx thread.
LEMMA RepliesGiven ==
  ASSUME Inv, [Next]_vars, NEW e \in Ids
  PROVE  \/ entry'[e].reply = Absent
         \/ Key(e)' = Key(e) /\ entry'[e].reply = entry[e].reply
         \/ /\ RxReply /\ e = active_requests[Matching(Head(in))]
            /\ Key(e)' = Key(e) /\ entry'[e].reply = Head(in).id
<1>0. /\ TypeOK /\ entry \in [Entries -> EntryRecords] /\ e \in Entries /\ e # Ping
  BY Known
<1>1. CASE \E c \in Callers, key \in Keys \cup {NoKey} : Request(c, key)
  <2>1. CASE e = made + 1
    BY <1>0, <1>1, <2>1 DEF Request
  <2>2. CASE e # made + 1
    BY <1>0, <1>1, <2>2 DEF Request, Key
  <2> QED
    BY <2>1, <2>2
<1>2. CASE RxSetEvent
  <2>1. entry[e] \in EntryRecords /\ rx.id \in Entries
    BY <1>0, <1>2, Held DEF RxSetEvent
  <2> QED
    BY <1>0, <1>2, <2>1 DEF RxSetEvent, Key, EntryRecords
<1>3. CASE RxReply
  <2> DEFINE found == active_requests[Matching(Head(in))]
  <2>1. CASE found = Absent
    BY <1>3, <2>1 DEF RxReply, Key
  <2>2. CASE found # Absent
    <3>1. found \in Entries /\ entry[found] \in EntryRecords
      BY <1>0, <1>3, <2>2, ReplyMatches DEF RxReply
    <3>2. entry' = [entry EXCEPT ![found].reply = Head(in).id]
      BY <1>3, <2>2 DEF RxReply
    <3> QED
      BY <1>0, <1>3, <3>1, <3>2 DEF Key, EntryRecords
  <2> QED
    BY <2>1, <2>2
<1>4. CASE UNCHANGED entry
  BY <1>4 DEF Key
<1>5. ASSUME Rx, ~RxSetEvent, ~RxReply PROVE UNCHANGED entry
  BY <1>5 DEF Rx, RxCleanup, RxForget, RxFails, RxStartRead, RxEvent, RxHeartbeat,
     RxNothing, RxTakePending, RxRequeue, RxNoPending
<1>6. ASSUME Tx PROVE UNCHANGED entry
  BY <1>6 DEF Tx, TxGet, TxCheck, TxPending, TxActivate, TxSend
<1> QED
  BY <1>1, <1>2, <1>3, <1>4, <1>5, <1>6 DEF Next, CallerStep, QueueRequest, GetReply,
     RaiseTimeout, NoReply, Serve, SendEvent, vars

LEMMA OwnReplyStep == Inv /\ [Next]_vars => OwnReply'
<1> SUFFICES ASSUME Inv, [Next]_vars, NEW e \in Ids, entry'[e].reply \notin {Absent, e}
             PROVE  Confused(e)'
  BY DEF OwnReply, Confused
<1>0. OwnReply /\ Ids \subseteq Entries /\ expired \subseteq Entries
  BY Known DEF Inv
<1>1. Key(e)' = Key(e) /\ Confused(e)
  <2>1. CASE Key(e)' = Key(e) /\ entry'[e].reply = entry[e].reply
    BY <1>0, <2>1 DEF OwnReply, Confused
  <2>2. CASE /\ RxReply /\ e = active_requests[Matching(Head(in))]
             /\ Key(e)' = Key(e) /\ entry'[e].reply = Head(in).id
    <3>1. in # <<>> /\ ~Head(in).event /\ e # Absent /\ e # Head(in).id
      BY <1>0, <2>2, Known DEF RxReply
    <3> QED
      BY <2>2, <3>1, ReplyMatches
  <2> QED
    BY <2>1, <2>2, RepliesGiven
<1>2. PICK x \in expired : Key(e) \in {Key(x), NoKey}
  BY <1>1 DEF Confused
<1>3. x \in expired' /\ Key(x)' = Key(x)
  BY <1>0, <1>2, ExpiredStay, KeyKept
<1> QED
  BY <1>1, <1>2, <1>3 DEF Confused

-----------------------------------------------------------------------------
(* The invariant holds.                                                    *)

LEMMA InitInv == Init => Inv
<1> SUFFICES ASSUME Init PROVE Inv
  OBVIOUS
<1> USE KeysAssumption, BoundsAssumption DEF Init
<1>1. TypeOK
  <2>1. NoEntry \in EntryRecords
    BY DEF NoEntry, EntryRecords, AllKeys
  <2>2. /\ txq \in Seq(Entries) /\ pending \in Seq(Entries) /\ cleanup \in Seq(Ids)
        /\ out \in Seq(Entries) /\ in \in Seq(Messages) /\ Len(txq) = 0 /\ Len(pending) = 0
    OBVIOUS
  <2> QED
    BY <2>1, <2>2 DEF TypeOK, CallerPlaces, TxPlaces, RxPlaces
<1>2. \A e : ~In(txq, e) /\ ~In(pending, e) /\ ~In(out, e) /\ ~Answers(in, e)
  BY DEF In, Answers
<1>3. \A e \in Entries : ~InHand(e) /\ ~Activated(e) /\ ~Received(e) /\ ~Flying(e)
  BY <1>2 DEF InHand, Activated, Received, Flying, Sending, Answering, Entries, Absent
<1>4. Ping \in Entries /\ Ids \subseteq Entries
  BY DEF Entries, Ping, Ids
<1>5. Keyed
  BY <1>4 DEF Keyed, Key, NoEntry
<1>6. GivenUp
  BY DEF GivenUp
<1>7. Places
  <2>1. NoneTwice
    BY DEF NoneTwice, Distinct, EachOnce
  <2>2. OnePlace
    BY <1>2, <1>3 DEF OnePlace, Waiting, Returning, Flying
  <2>3. NotYet
    BY <1>2, <1>3, <1>4 DEF NotYet, Somewhere
  <2>4. NoneLost
    BY DEF NoneLost
  <2> QED
    BY <2>1, <2>2, <2>3, <2>4 DEF Places
<1>8. FreeKey /\ Matched
  BY <1>3 DEF FreeKey, Matched
<1>9. OwnReply
  BY <1>4 DEF OwnReply, NoEntry
<1> QED
  BY <1>1, <1>5, <1>6, <1>7, <1>8, <1>9 DEF Inv

LEMMA InvStep == Inv /\ [Next]_vars => Inv'
BY TypeStep, KeyedStep, GivenUpStep, PlacesStep, FreeKeyStep, MatchedStep, OwnReplyStep
   DEF Inv

LEMMA InvHolds == SafetySpec => []Inv
BY InitInv, InvStep, PTL DEF SafetySpec

\* Types, and the bounds of the queues: a thread which holds an entry has one, and
\* txq and pending never have more entries than they may.
THEOREM TypeCorrect == SafetySpec => []TypeOK
<1>1. Inv => TypeOK
  BY DEF Inv
<1> QED
  BY <1>1, InvHolds, PTL

\* How often an entry is counted in a queue.
LEMMA CountedOnce ==
  ASSUME NEW S, NEW s \in Seq(S), NEW e, Distinct(s)
  PROVE  Cardinality({i \in DOMAIN s : s[i] = e}) = IF In(s, e) THEN 1 ELSE 0
<1> DEFINE P == {i \in DOMAIN s : s[i] = e}
<1>1. DOMAIN s = 1 .. Len(s)
  OBVIOUS
<1>2. CASE In(s, e)
  <2>1. PICK i \in 1 .. Len(s) : s[i] = e
    BY <1>2 DEF In
  <2>2. P = {i}
    BY <1>1, <2>1 DEF Distinct
  <2> QED
    BY <1>2, <2>2, FS_Singleton
<1>3. CASE ~In(s, e)
  <2>1. P = {}
    BY <1>1, <1>3 DEF In
  <2> QED
    BY <1>3, <2>1, FS_EmptySet
<1> QED
  BY <1>2, <1>3

LEMMA ActiveOnce ==
  ASSUME Keyed, NEW e, e # Absent
  PROVE  Cardinality({k \in AllKeys : active_requests[k] = e}) = IF Activated(e) THEN 1 ELSE 0
<1> DEFINE P == {k \in AllKeys : active_requests[k] = e}
<1>1. CASE Activated(e)
  <2>1. P = {Key(e)}
    BY <1>1 DEF Activated, Keyed
  <2> QED
    BY <1>1, <2>1, FS_Singleton
<1>2. CASE ~Activated(e)
  <2>1. P = {}
    BY <1>2 DEF Activated
  <2> QED
    BY <1>2, <2>1, FS_EmptySet
<1> QED
  BY <1>1, <1>2

\* No request is lost or sent twice between txq, pending, active_requests and the
\* hands of the two threads, whatever is given up and whenever a queue is full.
THEOREM RequestsAreKept == SafetySpec => []NothingLost
<1>1. Inv => NothingLost
  <2> SUFFICES ASSUME Inv, NEW c \in Callers, NEW e, e = caller[c].id,
                      caller[c].at = "wait", ~entry[e].event
               PROVE  Kept(e) = 1
    BY DEF NothingLost
  <2>1. /\ TypeOK /\ Keyed /\ NoneTwice /\ OnePlace /\ NoneLost
        /\ txq \in Seq(Entries) /\ pending \in Seq(Entries) /\ e \in Ids /\ e \in Entries
        /\ e # Absent /\ caller[c] \in CallerPlaces
    BY Known, Held DEF Inv, Places
  <2>2. caller[c] = [at |-> "wait", id |-> e]
    BY <2>1 DEF CallerPlaces
  <2>3. Somewhere(e)
    BY <2>1, <2>2 DEF NoneLost
  <2>4. Cardinality({i \in DOMAIN txq : txq[i] = e}) = IF In(txq, e) THEN 1 ELSE 0
    BY <2>1, CountedOnce DEF NoneTwice
  <2>5. Cardinality({i \in DOMAIN pending : pending[i] = e}) = IF In(pending, e) THEN 1 ELSE 0
    BY <2>1, CountedOnce DEF NoneTwice
  <2>6. Cardinality({k \in AllKeys : active_requests[k] = e}) = IF Activated(e) THEN 1 ELSE 0
    BY <2>1, ActiveOnce
  <2>7. Kept(e) = (IF In(txq, e) THEN 1 ELSE 0) + (IF In(pending, e) THEN 1 ELSE 0)
                  + (IF Activated(e) THEN 1 ELSE 0) + (IF InHand(e) THEN 1 ELSE 0)
                  + (IF Received(e) THEN 1 ELSE 0)
    BY <2>4, <2>5, <2>6 DEF Kept, InHand, Received
  <2> QED
    BY <2>1, <2>3, <2>7 DEF OnePlace, Somewhere
<1> QED
  BY <1>1, InvHolds, PTL

\* A request is given its own reply, unless a request with the same key, or for an
\* unknown one any request, has been given up.
THEOREM RepliesBelong == SafetySpec => []OwnReply
<1>1. Inv => OwnReply
  BY DEF Inv
<1> QED
  BY <1>1, InvHolds, PTL
====
