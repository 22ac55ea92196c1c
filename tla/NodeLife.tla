------------------------------ MODULE NodeLife ------------------------------
(***************************************************************************)
(* The modules of a node (SecNode) and a proxy following its remote module *)
(* (Proxy), from their creation to the end, under names of their own: what *)
(* is said about them here is checked together with other parts            *)
(* (Lifetimes), and proved in PartsProofs.                                 *)
(***************************************************************************)
EXTENDS Naturals, FiniteSets

CONSTANTS
  ModuleCount, MaxAttached, MaxNodeStarts, MaxDepth,         \* of SecNode
  Params, Writable, Fallible, RemoteValues, Connectors, Handler, NoThread,   \* of Proxy
  MaxChanges, MaxLosses, MaxFails, MaxAsked

ASSUME ModulesAssumption == ModuleCount \in Nat

\* The names are different; what a status which may fail would change is in the README,
\* section 6.
ASSUME ProxyAssumption ==
  /\ IsFiniteSet(Params) /\ Params \cap {"status", "none"} = {}
  /\ Writable \subseteq Params \cup {"status"} /\ "status" \notin Fallible
  /\ RemoteValues # {}
  /\ RemoteValues \cap {"failed", "offline", "unreachable", "internal", "disconnected",
                        "connection", "undefined", "none"} = {}
  /\ Handler \notin Connectors /\ NoThread \notin Connectors \cup {Handler}

VARIABLES
  \* of SecNode
  cfg, known, ioDict, nodeStarts, phase, todos, objects, modules, nodeStack, errors, polled,
  running, unmarked, path, sorted, order, shut,
  \* of Proxy
  remote, feed, wire, io, online, lock, cache, reader, parameters, disconnected, proc,
  shownLate, raced, changes, losses, fails, asks

Node == INSTANCE SecNode WITH MaxStarts <- MaxNodeStarts, starts <- nodeStarts,
                              stack <- nodeStack
Follower == INSTANCE Proxy WITH Values <- RemoteValues, late <- shownLate, asked <- asks

nodeVars == <<cfg, known, ioDict, nodeStarts, phase, todos, objects, modules, nodeStack, errors,
              polled, running, unmarked, path, sorted, order, shut>>
followerVars == <<remote, feed, wire, io, online, lock, cache, reader, parameters, disconnected,
                  proc, shownLate, raced, changes, losses, fails, asks>>

NodeSpec == Node!Init /\ [][Node!Next]_nodeVars
FollowerSpec == Follower!Init /\ [][Follower!Next]_followerVars

-----------------------------------------------------------------------------
\* A node in operation has all modules of its configuration, each of them initialised once
\* and polled by one running thread, whichever module is attached to which.
NodeComplete == Node!NodeComplete

\* Every module is shut down once, and before the modules attached to it as long as modules
\* are not attached to each other.
UsersFirst == Node!UsersFirst

\* A proxy shows what its remote module has while the client is connected, and that it is
\* disconnected once the client is offline, with the exceptions named in Proxy.
ProxyTrue == Follower!ProxyTrue
=============================================================================
