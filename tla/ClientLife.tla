----------------------------- MODULE ClientLife -----------------------------
(***************************************************************************)
(* The connection of a client (ClientConnection) from its first connect()  *)
(* to the end, under names of its own: what is said about it here is       *)
(* checked together with other parts (Lifetimes), and proved next to what  *)
(* holds of the connections of communicators (ConnectionsProofs).          *)
(***************************************************************************)
EXTENDS Naturals

CONSTANTS Clients, MaxLinks, MaxRequests, MaxBreaks, MayClose, TryAgain, Slow, MayBlock

\* Users of a client are none of its own threads.
ASSUME ClientsAssumption == Clients \cap ({"tx", "rx", "rc", "nobody", "marker"} \X Nat) = {}
ASSUME LinksAssumption == MaxLinks \in Nat \ {0} /\ MaxRequests \in Nat /\ MaxBreaks \in Nat

VARIABLES self, at, stack, ref, request, txq, link, requests, breaks, closing, since, overtaken

Cl == INSTANCE ClientConnection WITH Users <- Clients, MaxCalls <- MaxRequests,
        MaxFaults <- MaxBreaks, calls <- requests, faults <- breaks

clientVars == <<self, at, stack, ref, request, txq, link, requests, breaks, closing, since,
                overtaken>>

ClientSpec == Cl!Init /\ [][Cl!Next]_clientVars

-----------------------------------------------------------------------------
\* A client has one connection, however often it connects again, and one thread reads from
\* it, as long as no thread closes a connection made after it began to close an earlier one.
ClientHasOne == Cl!OneLink

\* When no thread has anything left to do and the client is running, its connection is
\* open and served by both of its threads.
RunningIsServed == Cl!Served
=============================================================================
