----------------------------- MODULE PollThread -----------------------------
(***************************************************************************)
(* The poll thread of frappy/modulebase.py (Module.__pollThread): one      *)
(* thread writes the configured values of its modules, reads everything    *)
(* once, tells the server that it has started, and then polls: doPoll of   *)
(* each module when its interval is over, and one slow poll per turn.      *)
(* Other threads, and the polls themselves, change intervals, trigger a    *)
(* poll, report a reconnection or stop the thread meanwhile; each of these *)
(* operations is a sequence of single assignments and a set() of the event *)
(* the poll thread sleeps on.                                              *)
(*                                                                         *)
(* Time: only the age of the last poll matters.  An age is counted in      *)
(* ticks up to the first value which is beyond every interval; `forget'    *)
(* (last_main = 0 in the code) is that value.                              *)
(***************************************************************************)
EXTENDS Naturals, Sequences, FiniteSets, FiniteSetsExt, SequencesExt

CONSTANTS Settings,     \* what a thread may have to do, a set of records with the fields below
          Threads       \* other threads

VARIABLE setting        \* the setting of this thread, chosen at the beginning

NModules == setting.modules       \* modules of the thread, in the order they were initialised
Enabled == setting.enabled        \* those with enablePoll
P == setting.parameters           \* parameters with a poll read function, per module
Intervals == setting.intervals    \* values of the parameter pollinterval
Fast == setting.fast              \* the interval of fast polling
Slow == setting.slow              \* slowinterval
Ops == setting.ops                \* what other threads do: "fast", "change", "trigger", "reconnect", "stop"
PollOps == setting.pollOps        \* what a poll does on the side, of the same
Failing == setting.failing        \* failures at startup: "reads", "comm", "other"
Minutes == setting.minutes        \* does the clock reach the next minute?

\* pollinterval has an upper limit: among the intervals there is a longest one.
ASSUME SettingsAssumption ==
  \A s \in Settings :
    /\ s.modules \in Nat \ {0} /\ s.enabled \subseteq 1..s.modules /\ s.parameters \in Nat
    /\ s.intervals \union {s.fast} \subseteq Nat \ {0} /\ s.slow \in Nat \ {0}
    /\ \E longest \in s.intervals \union {s.fast} :
         \A i \in s.intervals \union {s.fast} : i <= longest

Modules == 1..NModules
Old == Max(Intervals \union {Fast}) + 1     \* an age beyond every interval
OldSlow == Slow + 1
OldRead == (Slow \div 2) + 1                \* read longer ago than half of slowinterval

Poller == "poll"
All == Threads \union {Poller}

VARIABLES
  pc,           \* where the poll thread is
  at,           \* the module it is at
  cur,          \* <<module, parameter>> read, parameter 0 for doPoll
  unwritten,    \* modules with configured values still to be written (writeDict)
  started,      \* how often the started callback was called
  modules,      \* the list polledModules, cleared when the thread has to stop
  param,        \* the parameter pollinterval, per module
  fast,         \* PollInfo.fast_flag
  interval,     \* PollInfo.interval
  age,          \* time since PollInfo.last_main
  slow,         \* time since PollInfo.last_slow
  read,         \* time since the time stamp of a parameter
  due,          \* the iterator to_poll: what is still in it
  iter,         \* is to_poll an iterator (and not an empty list)?
  event,        \* the event triggerPoll
  sleep,        \* remaining time of wait(wait_time)
  op,           \* the steps left of the operation a thread is in
  hooked        \* is trigger_all registered as reconnect callback?

thread == <<pc, at, cur, unwritten, started, due, iter, sleep>>
info == <<param, fast, interval>>
ages == <<age, slow, read>>
vars == <<setting, thread, modules, info, ages, event, op, hooked>>

Pairs(m) == [p \in 1..P |-> <<m, p>>]
\* the modules a loop still visits: none once the list has been cleared
Polled == Enabled \intersect modules

Init ==
  /\ setting \in Settings
  /\ pc = "write" /\ at = 1 /\ cur = <<0, 0>>
  /\ unwritten = Modules /\ started = 0 /\ modules = Modules
  /\ param \in [Modules -> Intervals] /\ interval = param
  /\ fast = [m \in Modules |-> FALSE]
  /\ age = [m \in Modules |-> Old] /\ slow = [m \in Modules |-> OldSlow]
  /\ read = [m \in Modules |-> [p \in 1..P |-> OldRead]]
  /\ due = <<>> /\ iter = FALSE /\ event = FALSE /\ sleep = 0
  /\ op = [t \in All |-> <<>>] /\ hooked = TRUE

-----------------------------------------------------------------------------
(* operations: single steps, executed one after the other *)

Do(what, m, v) == [do |-> what, m |-> m, v |-> v]
Set == Do("set", 1, 0)

SetFastPoll(m, flag) ==
  <<Do("flag", m, IF flag THEN 1 ELSE 0), Do(IF flag THEN "fast" ELSE "normal", m, 0), Set>>
UpdateInterval(m, v) == <<Do("param", m, v), Do("ifnormal", m, v), Do("interval", m, v), Set>>
\* a slip: the event is set first
SetFirst(m) == <<Set, Do("forget", m, 0)>>

Trigger(m) == <<Do("forget", m, 0), Set>>

\* the i-th entry of polled_modules
PolledModule(polled, i) == CHOOSE m \in polled : Cardinality({k \in polled : k <= m}) = i
TriggerAll ==
  Append([i \in 1..Cardinality(Enabled) |-> Do("forgetall", PolledModule(Enabled, i), 0)], Set)
StopPollThread == <<Do("stop", 1, 0), Set>>

Begin(t, kinds) ==
  /\ op[t] = <<>>
  /\ \/ /\ "fast" \in kinds
        /\ \E m \in Enabled, flag \in BOOLEAN : op' = [op EXCEPT ![t] = SetFastPoll(m, flag)]
        /\ UNCHANGED hooked
     \/ /\ "change" \in kinds
        /\ \E m \in Enabled, v \in Intervals :
             v # param[m] /\ op' = [op EXCEPT ![t] = UpdateInterval(m, v)]
        /\ UNCHANGED hooked
     \/ /\ "trigger" \in kinds
        /\ \E m \in Enabled : op' = [op EXCEPT ![t] = Trigger(m)]
        /\ UNCHANGED hooked
     \/ /\ "reconnect" \in kinds /\ hooked       \* the callback returns None: called once
        /\ op' = [op EXCEPT ![t] = TriggerAll] /\ hooked' = FALSE
     \/ /\ "stop" \in kinds /\ modules # {}
        /\ op' = [op EXCEPT ![t] = StopPollThread]
        /\ UNCHANGED hooked
  /\ UNCHANGED <<setting, thread, modules, info, ages, event>>

Step(t) ==
  /\ op[t] # <<>>
  /\ LET s == Head(op[t])
         m == s.m
     IN
       /\ op' = [op EXCEPT ![t] = IF s.do = "ifnormal" /\ fast[m] THEN <<>> ELSE Tail(@)]
       /\ param' = IF s.do = "param" THEN [param EXCEPT ![m] = s.v] ELSE param
       /\ fast' = IF s.do = "flag" THEN [fast EXCEPT ![m] = s.v = 1] ELSE fast
       /\ interval' = CASE s.do = "fast" -> [interval EXCEPT ![m] = Fast]
                        [] s.do = "normal" -> [interval EXCEPT ![m] = param[m]]
                        [] s.do = "interval" -> [interval EXCEPT ![m] = s.v]
                        [] OTHER -> interval
       /\ age' = IF s.do \in {"forget", "forgetall"} THEN [age EXCEPT ![m] = Old] ELSE age
       /\ slow' = IF s.do = "forgetall" THEN [slow EXCEPT ![m] = OldSlow] ELSE slow
       /\ modules' = IF s.do = "stop" THEN {} ELSE modules
       /\ event' = (event \/ s.do = "set")
  /\ UNCHANGED <<setting, thread, read, hooked>>

-----------------------------------------------------------------------------
(* startup: the poll thread up to the callback *)

\* the list `modules' is empty or exhausted
Beyond(list) == at > NModules \/ list = {}
GoTo(where) == pc' = where /\ at' = 1
NextModule == at' = at + 1 /\ UNCHANGED pc

\* a slip: any failure ends the initialisation, and polling begins
WriteOrGoOn ==
  /\ pc = "write" /\ ~Beyond(modules)
  /\ unwritten' = unwritten \ {at}
  /\ NextModule \/ ("other" \in Failing /\ GoTo("failed"))
  /\ UNCHANGED <<cur, started, due, iter, sleep, modules, info, ages, event, op, hooked>>

\* writeInitParams and initialReads of the next module
WriteInit ==
  /\ setting \in Settings
  /\ pc = "write" /\ ~Beyond(modules)
  /\ unwritten' = unwritten \ {at}
  /\ \/ NextModule
     \/ "reads" \in Failing /\ GoTo("failed")
     \/ "other" \in Failing /\ pc' = "died" /\ UNCHANGED at
  /\ UNCHANGED <<cur, started, due, iter, sleep, modules, info, ages, event, op, hooked>>

\* every module has been initialised: collect what is to be read
Collect ==
  /\ pc = "write" /\ Beyond(modules)
  /\ GoTo("first")
  /\ due' = FlattenSeq([i \in 1..NModules |-> IF i \in Enabled THEN Pairs(i) ELSE <<>>])
  /\ UNCHANGED <<cur, unwritten, started, iter, sleep, modules, info, ages, event, op, hooked>>

\* the first read of the next parameter begins
FirstRead ==
  /\ pc = "first" /\ due # <<>>
  /\ pc' = "firstread" /\ cur' = Head(due) /\ due' = Tail(due)
  /\ UNCHANGED <<at, unwritten, started, iter, sleep, modules, info, ages, event, op, hooked>>

\* time stamp of a parameter, when read
Stamp(c) ==
  read' = IF c[2] = 0 THEN read ELSE [read EXCEPT ![c[1]][c[2]] = 0]

FirstReadDone ==
  /\ pc = "firstread" /\ op[Poller] = <<>>
  /\ \/ pc' = "first" /\ Stamp(cur) /\ UNCHANGED due
     \/ "comm" \in Failing /\ pc' = "failed" /\ due' = <<>> /\ Stamp(cur)
  /\ cur' = <<0, 0>>
  /\ UNCHANGED <<at, unwritten, started, iter, sleep, modules, info, age, slow, event, op, hooked>>

\* a communication failure at startup: the server is told, and polling begins
StartFailed ==
  /\ pc = "failed"
  /\ started' = started + 1 /\ GoTo("loop")
  /\ UNCHANGED <<cur, unwritten, due, iter, sleep, modules, info, ages, event, op, hooked>>

Started ==
  /\ pc = "first" /\ due = <<>>
  /\ started' = started + 1
  /\ GoTo(IF Enabled = {} THEN "ended" ELSE "loop")
  /\ UNCHANGED <<cur, unwritten, due, iter, sleep, modules, info, ages, event, op, hooked>>

-----------------------------------------------------------------------------
(* the loop *)

Left(limit, since) == IF since >= limit THEN 0 ELSE limit - since
\* wait_time: until the next poll of any module is due (0: do not wait)
WaitTime == Min({999} \union {Left(interval[m], age[m]) : m \in Polled}
                      \union {Left(Slow, slow[m]) : m \in Polled})

Ended ==
  /\ pc = "loop" /\ modules = {}
  /\ GoTo("ended")
  /\ UNCHANGED <<cur, unwritten, started, due, iter, sleep, modules, info, ages, event, op, hooked>>

\* the top of the loop: sleep or poll
Turn ==
  /\ pc = "loop" /\ modules # {}
  /\ IF WaitTime > 0 /\ ~iter
       THEN GoTo("wait") /\ sleep' = WaitTime
       ELSE GoTo("main") /\ UNCHANGED sleep
  /\ UNCHANGED <<cur, unwritten, started, due, iter, modules, info, ages, event, op, hooked>>

\* once per minute the pending errors of all modules are looked at, at
\* those of a module without polling in vain: it has no pollInfo
NewMinute ==
  /\ Minutes /\ pc = "loop" /\ modules # {} /\ modules \ Enabled # {}
  /\ pc' = "died"
  /\ UNCHANGED <<at, cur, unwritten, started, due, iter, sleep, modules, info, ages, event, op, hooked>>

Wake ==
  /\ pc = "wait" /\ (event \/ sleep = 0)
  /\ GoTo("clear") /\ sleep' = 0
  /\ UNCHANGED <<cur, unwritten, started, due, iter, modules, info, ages, event, op, hooked>>

Clear ==
  /\ pc = "clear"
  /\ event' = FALSE /\ GoTo("loop")
  /\ UNCHANGED <<cur, unwritten, started, due, iter, sleep, modules, info, ages, op, hooked>>

\* doPoll of module `at', when due; last_main is rounded down to a multiple of
\* the interval
MainPoll ==
  /\ pc = "main" /\ ~Beyond(modules) /\ at \in Enabled /\ age[at] > interval[at]
  /\ \E since \in 0..interval[at] - 1 : age' = [age EXCEPT ![at] = since]
  /\ pc' = "polling" /\ cur' = <<at, 0>>
  /\ UNCHANGED <<at, unwritten, started, due, iter, sleep, modules, info, slow, read, event, op, hooked>>

NotDue ==
  /\ pc = "main" /\ ~Beyond(modules) /\ (at \in Enabled => age[at] <= interval[at])
  /\ NextModule
  /\ UNCHANGED <<cur, unwritten, started, due, iter, sleep, modules, info, ages, event, op, hooked>>

MainDone ==
  /\ pc = "main" /\ Beyond(modules)
  /\ GoTo("slow")
  /\ UNCHANGED <<cur, unwritten, started, due, iter, sleep, modules, info, ages, event, op, hooked>>

\* a read function or doPoll returns or raises: callPollFunc catches everything
PollDone ==
  /\ pc = "polling" /\ op[Poller] = <<>>
  /\ IF cur[2] = 0 THEN pc' = "main" /\ at' = at + 1 ELSE GoTo("loop")
  /\ Stamp(cur) \/ UNCHANGED read
  /\ cur' = <<0, 0>>
  /\ UNCHANGED <<unwritten, started, due, iter, sleep, modules, info, age, slow, event, op, hooked>>

\* the next parameter of the iterator which has not been read recently; the
\* rest stays in it for the next turns
Recent(c) == read[c[1]][c[2]] < OldRead
Rest(list) == LET i == SelectInSeq(list, LAMBDA c : ~Recent(c)) IN
                IF i = 0 THEN <<>> ELSE SubSeq(list, i, Len(list))
\* a slip: the rest is dropped
SlowPollOne ==
  /\ pc = "slow" /\ Rest(due) # <<>>
  /\ pc' = "polling" /\ cur' = Head(Rest(due)) /\ due' = <<>>
  /\ UNCHANGED <<at, unwritten, started, iter, sleep, modules, info, ages, event, op, hooked>>

SlowPoll ==
  /\ pc = "slow" /\ Rest(due) # <<>>
  /\ pc' = "polling" /\ cur' = Head(Rest(due)) /\ due' = Tail(Rest(due))
  /\ UNCHANGED <<at, unwritten, started, iter, sleep, modules, info, ages, event, op, hooked>>

\* the iterator is exhausted: collect the parameters of the modules where
\* slowinterval is over
SlowCollect ==
  /\ pc = "slow" /\ Rest(due) = <<>>
  /\ LET now == {m \in Polled : slow[m] > Slow}
     IN /\ due' = FlattenSeq([m \in Modules |-> IF m \in now THEN Pairs(m) ELSE <<>>])
        /\ iter' = (now # {} /\ P > 0)
        /\ slow' \in [Modules -> 0..OldSlow]
        /\ \A m \in Modules : IF m \in now THEN slow'[m] < Slow ELSE slow'[m] = slow[m]
        /\ IF iter' THEN UNCHANGED <<pc, at>> ELSE GoTo("loop")
  /\ UNCHANGED <<cur, unwritten, started, sleep, modules, info, age, read, event, op, hooked>>

PollThread ==
  /\ \/ WriteInit \/ Collect \/ FirstRead \/ FirstReadDone \/ StartFailed \/ Started
     \/ Ended \/ Turn \/ NewMinute \/ Wake \/ Clear
     \/ MainPoll \/ NotDue \/ MainDone \/ PollDone \/ SlowPoll \/ SlowCollect
  /\ UNCHANGED setting

\* what a read or a doPoll does besides
OnTheSide == pc \in {"polling", "firstread"} /\ Begin(Poller, PollOps)

Older(since, last) == IF since < last THEN since + 1 ELSE since
\* time passes while the thread waits or polls, and from turn to turn
Tick ==
  /\ pc \in {"loop", "wait", "polling", "firstread"}
  /\ age' = [m \in Modules |-> Older(age[m], Old)]
  /\ slow' = [m \in Modules |-> Older(slow[m], OldSlow)]
  /\ read' = [m \in Modules |-> [p \in 1..P |-> Older(read[m][p], OldRead)]]
  /\ sleep' = IF sleep > 0 THEN sleep - 1 ELSE 0
  /\ UNCHANGED <<setting, pc, at, cur, unwritten, started, due, iter, modules, info, event, op, hooked>>

Next ==
  \/ PollThread \/ OnTheSide \/ Tick
  \/ \E t \in All : Step(t)
  \/ \E t \in Threads : Begin(t, Ops)

Spec == Init /\ [][Next]_vars
FairSpec ==
  /\ Spec /\ WF_vars(PollThread) /\ SF_vars(Tick)
  /\ \A t \in All : WF_vars(Step(t))

-----------------------------------------------------------------------------
TypeOK ==
  /\ pc \in {"write", "first", "firstread", "failed", "died", "ended", "loop", "wait", "clear",
             "main", "polling", "slow"}
  /\ at \in 1..NModules + 1 /\ cur \in (0..NModules) \X (0..P)
  /\ unwritten \subseteq Modules /\ started \in Nat /\ modules \in {{}, Modules}
  /\ param \in [Modules -> Intervals] /\ fast \in [Modules -> BOOLEAN]
  /\ interval \in [Modules -> Intervals \union {Fast}]
  /\ age \in [Modules -> 0..Old] /\ slow \in [Modules -> 0..OldSlow]
  /\ read \in [Modules -> [1..P -> 0..OldRead]]
  /\ due \in Seq(Modules \X (1..P)) /\ {iter, event, hooked} \subseteq BOOLEAN
  /\ sleep \in 0..999

\* A poll thread which sleeps, with no other thread in the middle of an
\* operation, has not been stopped and wakes up when the next poll is due: no
\* change of an interval, no trigger, no reconnection and no stop is overslept,
\* whenever it came (triggerPoll, and the clear() after the wait).
WakesInTime ==
  pc = "wait" /\ ~event /\ (\A t \in All : op[t] = <<>>) =>
    modules # {} /\ sleep <= WaitTime

\* No poll before the configured values of the module are written, as the
\* docstring of __pollThread has it (unless it is stopped meanwhile).
\* Violated when the communication fails in the initial reads of a module.
WrittenFirst == modules # {} /\ cur # <<0, 0>> => cur[1] \notin unwritten

\* The server, waiting for the start events, hears exactly once of the thread,
\* before the loop begins, whatever fails at startup, unless the thread dies
\* before.
StartedOnce ==
  /\ started \in {0, 1}
  /\ pc # "died" => (started = 0 <=> pc \in {"write", "first", "firstread", "failed"})

\* Startup comes before polling: the server hears once that it is over, and,
\* unless the initial reads fail, no module is polled before its configured
\* values are written.
StartupInOrder == StartedOnce /\ ("reads" \notin Failing => WrittenFirst)

\* When no operation is under way, the interval is the one the flag asks for.
IntervalAsAsked ==
  (\A t \in All : op[t] = <<>>) =>
    \A m \in Enabled : interval[m] = IF fast[m] THEN Fast ELSE param[m]

\* The poll thread ends only when it was stopped.
EndsWhenStopped == pc \in {"died", "ended"} => modules = {} \/ Enabled = {}

\* doPoll of every module is called again and again, and every parameter is
\* read again and again, however many slow polls are due at a time, until the
\* thread is stopped or dies.
PolledAgain ==
  \A s \in Settings : setting = s =>
    \A m \in s.enabled, p \in 0..s.parameters :
      []<>(modules = {} \/ pc = "died" \/ cur = <<m, p>>)
=============================================================================
