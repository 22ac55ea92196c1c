--------------------------- MODULE ClientRequests ---------------------------
(***************************************************************************)
(* The requests of a SecopClient (frappy/client/__init__.py) on one        *)
(* connection: the threads calling request(), the tx thread sending what   *)
(* is in txq, the rx thread matching the replies with active_requests, and *)
(* the SEC node, which handles the requests in the order they come.        *)
(*                                                                         *)
(* A request is an entry [request, event, reply], numbered from 1.  Its    *)
(* key is the pair of expected action and identifier, NoKey for an unknown *)
(* request.  The entry numbered Ping is the one of the heartbeat the rx    *)
(* thread sends when nothing comes for a while; one is under way at most.  *)
(* txq and pending are bounded queues; active_requests is a dict, and      *)
(* Absent stands for a key without entry.                                  *)
(*                                                                         *)
(* A definition marked as a slip is a wrong variant of the definition it   *)
(* precedes; Next does not use it.                                         *)
(***************************************************************************)
EXTENDS Naturals, Sequences, FiniteSets

CONSTANTS
  Callers,      \* threads calling request()
  Keys, NoKey,  \* expected replies; the key of unknown requests
  PingKey,      \* the key of the heartbeat
  QueueSize,    \* of txq and pending: 30 in the code
  MaxRequests,  \* bound on the number of requests
  MaxTimeouts,  \* bound on the requests given up
  MaxEvents     \* bound on the messages waiting when an event is sent

ASSUME KeysAssumption == NoKey \notin Keys /\ PingKey \notin Keys /\ NoKey # PingKey
ASSUME BoundsAssumption ==
  /\ QueueSize \in Nat \ {0} /\ MaxRequests \in Nat
  /\ MaxTimeouts \in Nat /\ MaxEvents \in Nat

Ids == 1 .. MaxRequests
Ping == MaxRequests + 1
Entries == 1 .. Ping
Absent == 0
AllKeys == Keys \cup {NoKey, PingKey}

VARIABLES
  entry,    \* per entry: its caller, key, event and the request replied to
  made,     \* number of requests made
  caller,   \* per caller: where it is, and its entry
  txq, pending, active_requests, cleanup,
  tx, rx,   \* the threads: where they are, and what they hold
  out, in,  \* messages to and from the node
  expired   \* history: entries given up by their callers

vars == <<entry, made, caller, txq, pending, active_requests, cleanup, tx, rx,
          out, in, expired>>

Nobody == "nobody"
NoEntry == [caller |-> Nobody, key |-> PingKey, event |-> FALSE, reply |-> Absent]

Init ==
  /\ entry = [e \in Entries |-> NoEntry]
  /\ made = 0
  /\ caller = [c \in Callers |-> [at |-> "idle", id |-> Absent]]
  /\ txq = <<>> /\ pending = <<>>
  /\ active_requests = [k \in AllKeys |-> Absent]
  /\ cleanup = <<>>
  /\ tx = [at |-> "get", id |-> Absent]
  /\ rx = [at |-> "loop", id |-> Absent, size |-> 0]
  /\ out = <<>> /\ in = <<>>
  /\ expired = {}

Key(e) == entry[e].key
Active == {k \in AllKeys : active_requests[k] # Absent}

-----------------------------------------------------------------------------
(* A thread calling request().                                             *)

Request(c, key) ==
  /\ caller[c].at = "idle" /\ made < MaxRequests
  /\ made' = made + 1
  /\ entry' = [entry EXCEPT ![made + 1] =
                 [caller |-> c, key |-> key, event |-> FALSE, reply |-> Absent]]
  /\ caller' = [caller EXCEPT ![c] = [at |-> "put", id |-> made + 1]]
  /\ UNCHANGED <<txq, pending, active_requests, cleanup, tx, rx, out, in, expired>>

\* Slip: the queue is not bounded.
QueueRequestUnbounded(c) ==
  /\ caller[c].at = "put"
  /\ txq' = Append(txq, caller[c].id)
  /\ caller' = [caller EXCEPT ![c].at = "wait"]
  /\ UNCHANGED <<entry, made, pending, active_requests, cleanup, tx, rx, out, in,
                 expired>>

\* After 3 seconds with a full queue, queue.Full is raised.
QueueRequest(c) ==
  /\ caller[c].at = "put"
  /\ IF Len(txq) < QueueSize
       THEN /\ txq' = Append(txq, caller[c].id)
            /\ caller' = [caller EXCEPT ![c].at = "wait"]
            /\ UNCHANGED expired
       ELSE /\ caller' = [caller EXCEPT ![c] = [at |-> "idle", id |-> Absent]]
            /\ expired' = expired \cup {caller[c].id}
            /\ UNCHANGED txq
  /\ UNCHANGED <<entry, made, pending, active_requests, cleanup, tx, rx, out, in>>

GetReply(c) ==
  /\ caller[c].at = "wait" /\ entry[caller[c].id].event
  /\ caller' = [caller EXCEPT ![c] = [at |-> "idle", id |-> Absent]]
  /\ UNCHANGED <<entry, made, txq, pending, active_requests, cleanup, tx, rx, out, in,
                 expired>>

NoReply(c) ==
  /\ caller[c].at = "wait" /\ ~entry[caller[c].id].event
  /\ Cardinality(expired) < MaxTimeouts
  /\ expired' = expired \cup {caller[c].id}
  /\ caller' = [caller EXCEPT ![c].at = "late"]
  /\ UNCHANGED <<entry, made, txq, pending, active_requests, cleanup, tx, rx, out, in>>

RaiseTimeout(c) ==
  /\ caller[c].at = "late"
  /\ cleanup' = Append(cleanup, caller[c].id)
  /\ caller' = [caller EXCEPT ![c] = [at |-> "idle", id |-> Absent]]
  /\ UNCHANGED <<entry, made, txq, pending, active_requests, tx, rx, out, in, expired>>

-----------------------------------------------------------------------------
(* The tx thread.                                                          *)

TxGet ==
  /\ tx.at = "get" /\ txq # <<>>
  /\ tx' = [at |-> "check", id |-> Head(txq)]
  /\ txq' = Tail(txq)
  /\ UNCHANGED <<entry, made, caller, pending, active_requests, cleanup, rx, out, in,
                 expired>>

\* Slip: a colliding request replaces the active one.
TxCheckNothing ==
  /\ tx.at = "check"
  /\ tx' = [tx EXCEPT !.at = "activate"]
  /\ UNCHANGED <<entry, made, caller, txq, pending, active_requests, cleanup, rx, out,
                 in, expired>>

TxCheck ==
  /\ tx.at = "check"
  /\ tx' = [tx EXCEPT !.at = IF Key(tx.id) \in Active THEN "pending" ELSE "activate"]
  /\ UNCHANGED <<entry, made, caller, txq, pending, active_requests, cleanup, rx, out,
                 in, expired>>

TxPending ==
  /\ tx.at = "pending" /\ Len(pending) < QueueSize
  /\ pending' = Append(pending, tx.id)
  /\ tx' = [at |-> "get", id |-> Absent]
  /\ UNCHANGED <<entry, made, caller, txq, active_requests, cleanup, rx, out, in,
                 expired>>

TxActivate ==
  /\ tx.at = "activate"
  /\ active_requests' = [active_requests EXCEPT ![Key(tx.id)] = tx.id]
  /\ tx' = [tx EXCEPT !.at = "send"]
  /\ UNCHANGED <<entry, made, caller, txq, pending, cleanup, rx, out, in, expired>>

TxSend ==
  /\ tx.at = "send"
  /\ out' = Append(out, tx.id)
  /\ tx' = [at |-> "get", id |-> Absent]
  /\ UNCHANGED <<entry, made, caller, txq, pending, active_requests, cleanup, rx, in,
                 expired>>

-----------------------------------------------------------------------------
(* The rx thread.                                                          *)

\* cleanup.pop() and the start of the loop over the active requests.
RxCleanup ==
  /\ rx.at = "loop" /\ cleanup # <<>>
  /\ rx' = [at |-> "search", id |-> cleanup[Len(cleanup)], size |-> Cardinality(Active)]
  /\ cleanup' = SubSeq(cleanup, 1, Len(cleanup) - 1)
  /\ UNCHANGED <<entry, made, caller, txq, pending, active_requests, tx, out, in, expired>>

\* Slip: whatever entry has the key is removed.
RxForgetKey ==
  /\ rx.at = "search"
  /\ active_requests' = [active_requests EXCEPT ![Key(rx.id)] = Absent]
  /\ rx' = [at |-> "loop", id |-> Absent, size |-> 0]
  /\ UNCHANGED <<entry, made, caller, txq, pending, cleanup, tx, out, in, expired>>

\* The entry given up is removed, wherever the loop finds it.
RxForget ==
  LET key == Key(rx.id) IN
  /\ rx.at = "search"
  /\ active_requests[key] = rx.id \/ Cardinality(Active) = rx.size
  /\ active_requests' = IF active_requests[key] = rx.id
                          THEN [active_requests EXCEPT ![key] = Absent]
                          ELSE active_requests
  /\ rx' = [at |-> "loop", id |-> Absent, size |-> 0]
  /\ UNCHANGED <<entry, made, caller, txq, pending, cleanup, tx, out, in, expired>>

\* A request activated during the loop: RuntimeError ends the rx thread, and
\* the client is shut down.
RxFails ==
  /\ rx.at = "search" /\ Cardinality(Active) # rx.size
  /\ rx' = [at |-> "end", id |-> Absent, size |-> 0]
  /\ UNCHANGED <<entry, made, caller, txq, pending, active_requests, cleanup, tx, out,
                 in, expired>>

RxStartRead ==
  /\ rx.at = "loop" /\ cleanup = <<>>
  /\ rx' = [rx EXCEPT !.at = "read"]
  /\ UNCHANGED <<entry, made, caller, txq, pending, active_requests, cleanup, tx, out,
                 in, expired>>

\* An update event, of which only the reception matters here.
RxEvent ==
  /\ rx.at = "read" /\ in # <<>> /\ Head(in).event
  /\ in' = Tail(in)
  /\ rx' = [rx EXCEPT !.at = "loop"]
  /\ UNCHANGED <<entry, made, caller, txq, pending, active_requests, cleanup, tx, out,
                 expired>>

\* Nothing came for 5 seconds.
Underway(e) == e \in {txq[i] : i \in DOMAIN txq} \cup {pending[i] : i \in DOMAIN pending}
                     \cup {active_requests[k] : k \in AllKeys} \cup {tx.id, rx.id}
RxHeartbeat ==
  /\ rx.at = "read" /\ in = <<>>
  /\ ~Underway(Ping) /\ Len(txq) < QueueSize
  /\ txq' = Append(txq, Ping)
  /\ rx' = [rx EXCEPT !.at = "loop"]
  /\ UNCHANGED <<entry, made, caller, pending, active_requests, cleanup, tx, out, in,
                 expired>>

\* Nothing came for 1 second.
RxNothing ==
  /\ rx.at = "read" /\ in = <<>> /\ cleanup # <<>>
  /\ rx' = [rx EXCEPT !.at = "loop"]
  /\ UNCHANGED <<entry, made, caller, txq, pending, active_requests, cleanup, tx, out,
                 in, expired>>

\* The key of the entry a reply is given to, if any.
Matching(message) ==
  LET key == Key(message.id) IN
  IF key \in Active THEN key
  ELSE IF message.error /\ key # NoKey THEN key ELSE NoKey

\* The reply is taken for the one of the matching entry, otherwise unhandled.
RxReply ==
  LET message == Head(in)
      key == Matching(message)
      found == active_requests[key]
  IN
  /\ rx.at = "read" /\ in # <<>> /\ ~message.event
  /\ in' = Tail(in)
  /\ active_requests' = [active_requests EXCEPT ![key] = Absent]
  /\ IF found = Absent
       THEN rx' = [rx EXCEPT !.at = "loop"] /\ UNCHANGED entry
       ELSE /\ rx' = [rx EXCEPT !.at = "reply", !.id = found]
            /\ entry' = [entry EXCEPT ![found].reply = message.id]
  /\ UNCHANGED <<made, caller, txq, pending, cleanup, tx, out, expired>>

\* Slip: the requests in pending are not put back.
RxSetEventOnly ==
  /\ rx.at = "reply"
  /\ entry' = [entry EXCEPT ![rx.id] = IF rx.id = Ping THEN NoEntry
                                                     ELSE [@ EXCEPT !.event = TRUE]]
  /\ rx' = [rx EXCEPT !.at = "loop", !.id = Absent]
  /\ UNCHANGED <<made, caller, txq, pending, active_requests, cleanup, tx, out, in,
                 expired>>

RxSetEvent ==
  /\ rx.at = "reply"
  /\ entry' = [entry EXCEPT ![rx.id] = IF rx.id = Ping THEN NoEntry
                                                     ELSE [@ EXCEPT !.event = TRUE]]
  /\ rx' = [rx EXCEPT !.at = "requeue", !.id = Absent]
  /\ UNCHANGED <<made, caller, txq, pending, active_requests, cleanup, tx, out, in,
                 expired>>

RxTakePending ==
  /\ rx.at = "requeue" /\ pending # <<>>
  /\ rx' = [rx EXCEPT !.at = "put", !.id = Head(pending)]
  /\ pending' = Tail(pending)
  /\ UNCHANGED <<entry, made, caller, txq, active_requests, cleanup, tx, out, in,
                 expired>>

RxRequeue ==
  /\ rx.at = "put" /\ Len(txq) < QueueSize
  /\ txq' = Append(txq, rx.id)
  /\ rx' = [rx EXCEPT !.at = "requeue", !.id = Absent]
  /\ UNCHANGED <<entry, made, caller, pending, active_requests, cleanup, tx, out, in,
                 expired>>

RxNoPending ==
  /\ rx.at = "requeue" /\ pending = <<>>
  /\ rx' = [rx EXCEPT !.at = "loop"]
  /\ UNCHANGED <<entry, made, caller, txq, pending, active_requests, cleanup, tx, out,
                 in, expired>>

-----------------------------------------------------------------------------
(* The SEC node.                                                           *)

Message(e, error) == [event |-> FALSE, id |-> e, error |-> error]
Event == [event |-> TRUE, id |-> Absent, error |-> FALSE]

Serve(error) ==
  /\ out # <<>>
  /\ in' = Append(in, Message(Head(out), error))
  /\ out' = Tail(out)
  /\ UNCHANGED <<entry, made, caller, txq, pending, active_requests, cleanup, tx, rx,
                 expired>>

SendEvent ==
  /\ Len(in) < MaxEvents
  /\ in' = Append(in, Event)
  /\ UNCHANGED <<entry, made, caller, txq, pending, active_requests, cleanup, tx, rx,
                 out, expired>>

-----------------------------------------------------------------------------
CallerStep(c) == QueueRequest(c) \/ GetReply(c) \/ RaiseTimeout(c)
Tx == TxGet \/ TxCheck \/ TxPending \/ TxActivate \/ TxSend
Rx ==
  \/ RxCleanup \/ RxForget \/ RxFails \/ RxStartRead \/ RxEvent \/ RxHeartbeat
  \/ RxNothing \/ RxReply \/ RxSetEvent \/ RxTakePending \/ RxRequeue \/ RxNoPending

Next ==
  \/ \E c \in Callers :
       \/ \E key \in Keys \cup {NoKey} : Request(c, key)
       \/ CallerStep(c) \/ NoReply(c)
  \/ Tx \/ Rx
  \/ (\E error \in BOOLEAN : Serve(error)) \/ SendEvent

SafetySpec == Init /\ [][Next]_vars

\* The threads go on, and the node handles the requests.  The rx thread sees
\* pending empty at last: the tx thread does not fill it again and again just
\* before the rx thread looks.
Spec ==
  /\ SafetySpec
  /\ \A c \in Callers : WF_vars(CallerStep(c))
  /\ WF_vars(Tx) /\ WF_vars(Rx) /\ SF_vars(RxNoPending)
  /\ WF_vars(\E error \in BOOLEAN : Serve(error))

-----------------------------------------------------------------------------
EntryRecords ==
  [caller : Callers \cup {Nobody}, key : AllKeys, event : BOOLEAN,
   reply : Entries \cup {Absent}]
CallerPlaces ==
  [at : {"idle"}, id : {Absent}] \cup [at : {"put", "wait", "late"}, id : Ids]
TxPlaces ==
  [at : {"get"}, id : {Absent}]
    \cup [at : {"check", "pending", "activate", "send"}, id : Entries]
RxPlaces ==
  [at : {"loop", "read", "requeue", "end"}, id : {Absent}, size : Nat]
    \cup [at : {"search", "reply", "put"}, id : Entries, size : Nat]
Messages ==
  [event : {FALSE}, id : Entries, error : BOOLEAN] \cup {Event}

\* Types, and the bounds of the queues: a thread which holds an entry has one,
\* the others have none.
TypeOK ==
  /\ entry \in [Entries -> EntryRecords]
  /\ made \in 0 .. MaxRequests
  /\ caller \in [Callers -> CallerPlaces]
  /\ txq \in Seq(Entries) /\ Len(txq) <= QueueSize
  /\ pending \in Seq(Entries) /\ Len(pending) <= QueueSize
  /\ active_requests \in [AllKeys -> Entries \cup {Absent}]
  /\ cleanup \in Seq(Ids)
  /\ tx \in TxPlaces /\ rx \in RxPlaces
  /\ out \in Seq(Entries) /\ in \in Seq(Messages)
  /\ expired \subseteq Ids

\* In how many places the entry is kept: txq, pending, active_requests, the
\* hands of the tx thread before it is activated, those of the rx thread.
Kept(e) ==
    Cardinality({i \in DOMAIN txq : txq[i] = e})
  + Cardinality({i \in DOMAIN pending : pending[i] = e})
  + Cardinality({k \in AllKeys : active_requests[k] = e})
  + (IF tx.id = e /\ tx.at # "send" THEN 1 ELSE 0)
  + (IF rx.id = e /\ rx.at \in {"reply", "put"} THEN 1 ELSE 0)

\* The entry of a waiting caller is kept in exactly one place until its event
\* is set: no request is lost or sent twice between txq, pending and
\* active_requests.
NothingLost ==
  \A c \in Callers :
    caller[c].at = "wait" /\ ~entry[caller[c].id].event => Kept(caller[c].id) = 1

\* A request is given its own reply, unless one for the same key has been given
\* up before; an unknown request may be given the reply to any such request.
OwnReply ==
  \A e \in Ids :
    entry[e].reply \notin {Absent, e} =>
      \E x \in expired : Key(e) \in {Key(x), NoKey}

\* When no request is given up and the events come to an end, every request is
\* answered, also the one kept in pending because an other one with the same
\* key was active.
Answered ==
  [](expired = {}) /\ <>[](\A i \in DOMAIN in : ~in[i].event) =>
    \A c \in Callers : caller[c].at = "wait" ~> caller[c].at = "idle"

\* "there can only be one entry per thread calling 'request'"
\* (client/__init__.py:332).
OneEntryPerThread ==
  \A j, k \in Active :
    j # k /\ entry[active_requests[j]].caller = entry[active_requests[k]].caller
      => entry[active_requests[j]].caller = Nobody
=============================================================================
