----------------------------- MODULE PollThreads -----------------------------
(***************************************************************************)
(* Settings of a poll thread (PollThread): several modules, one of them    *)
(* not polled, one of which may fail when its values are written; and a    *)
(* single module with parameters to poll, the reads and the communication  *)
(* of which may fail at startup.                                           *)
(***************************************************************************)
EXTENDS PollThread

Several ==
  [modules |-> 3, enabled |-> {1, 2}, parameters |-> 0, intervals |-> {2}, fast |-> 1, slow |-> 2,
   ops |-> {"fast", "trigger"}, pollOps |-> {"reconnect"}, failing |-> {"other"},
   minutes |-> FALSE]

Single ==
  [modules |-> 1, enabled |-> {1}, parameters |-> 2, intervals |-> {1, 2}, fast |-> 1, slow |-> 3,
   ops |-> {"fast", "change", "trigger", "stop"}, pollOps |-> {}, failing |-> {"comm", "reads"},
   minutes |-> TRUE]

SeveralOrSingle == {Several, Single}

\* The initial reads fail; a module which is not polled, when the minute changes.
ReadsFail == {[Several EXCEPT !.failing = {"reads"}, !.ops = @ \union {"stop"}]}
NotPolled == {[Several EXCEPT !.failing = {}, !.ops = {}, !.pollOps = {}, !.minutes = TRUE]}
=============================================================================
