--------------------------- MODULE PollThreadProofs ---------------------------
(***************************************************************************)
(* Why the poll thread never sleeps too long (PollThread.tla), for any     *)
(* number of modules, parameters, intervals and threads.                   *)
(*                                                                         *)
(* The argument: whoever changes what the time to wait depends on, sets    *)
(* the event afterwards, and nothing can keep it from getting there        *)
(* (Sure).  Hence, as long as the poll thread waits and the event is not   *)
(* set, either somebody still has to set it, or nothing has changed since  *)
(* the poll thread has calculated how long to sleep (WaitsRight).          *)
(***************************************************************************)
EXTENDS PollThread, FiniteSetTheorems, SequenceTheorems, WellFoundedInduction, TLAPS

-----------------------------------------------------------------------------
(* Intervals and times to wait.                                            *)

\* The setting of the thread, as assumed.
Sensible ==
  /\ setting \in Settings
  /\ NModules \in Nat \ {0} /\ Enabled \subseteq Modules /\ P \in Nat
  /\ Intervals \union {Fast} \subseteq Nat \ {0} /\ Slow \in Nat \ {0}
  /\ \E longest \in Intervals \union {Fast} : \A i \in Intervals \union {Fast} : i <= longest

LEMMA SettingIsSensible == setting \in Settings => Sensible
BY SettingsAssumption DEF Sensible, NModules, Modules, Enabled, P, Intervals, Fast, Slow

\* It does not change.
Same == UNCHANGED <<setting, Modules, Enabled, Slow>>

LEMMA SettingStays == UNCHANGED setting => Same
BY DEF Same, Modules, NModules, Enabled, Slow

\* A set of natural numbers has a least element.
LEMMA Least ==
  ASSUME NEW S, S \subseteq Nat, S # {}
  PROVE  Min(S) \in S /\ \A x \in S : Min(S) <= x
<1> DEFINE R == OpToRel(<, Nat)
<1>1. IsWellFoundedOn(R, Nat)
  BY NatLessThanWellFounded, Zenon
<1>2. \A x, y \in Nat : x < y => <<x, y>> \in R
  BY DEF OpToRel
<1> HIDE DEF R
<1>3. PICK x \in S : \A y \in S : ~(<<y, x>> \in R)
  BY <1>1, WFMin
<1>4. \A y \in S : ~(y < x)
  BY <1>2, <1>3, Zenon
<1>5. \A y \in S : x <= y
  BY <1>4
<1> QED
  BY <1>5 DEF Min

LEMMA OldIsNat == Sensible => Old \in Nat
<1> SUFFICES ASSUME Sensible PROVE Old \in Nat
  OBVIOUS
<1> DEFINE S == Intervals \union {Fast}
<1>1. S \subseteq Nat /\ \E x \in S : \A y \in S : x >= y
  BY DEF Sensible
<1>2. Max(S) \in S
  BY <1>1 DEF Max
<1> QED
  BY <1>1, <1>2 DEF Old

\* The time to wait is short enough for each poll.
InTime(d, now, last, main, limit, others) ==
  /\ d <= 999
  /\ \A m \in now : d <= Left(last[m], main[m]) /\ d <= Left(limit, others[m])

Typed ==
  /\ modules \in {{}, Modules}
  /\ param \in [Modules -> Nat] /\ fast \in [Modules -> BOOLEAN]
  /\ interval \in [Modules -> Nat]
  /\ age \in [Modules -> Nat] /\ slow \in [Modules -> Nat]
  /\ event \in BOOLEAN /\ sleep \in Nat

LEMMA LeftIsNat ==
  ASSUME NEW limit \in Nat, NEW since \in Nat
  PROVE  /\ Left(limit, since) \in Nat
         /\ \A d \in Nat : d <= Left(limit, since) => d <= limit
         /\ \A longer \in Nat : longer <= since + 1 => Left(limit, since) <= Left(limit, longer) + 1
BY DEF Left

LEMMA WaitTimes ==
  ASSUME Sensible, Typed
  PROVE  /\ WaitTime \in Nat
         /\ \A d \in Nat : d <= WaitTime <=> InTime(d, Polled, interval, age, Slow, slow)
<1> DEFINE S == {999} \union {Left(interval[m], age[m]) : m \in Polled}
                      \union {Left(Slow, slow[m]) : m \in Polled}
<1>1. \A m \in Polled : Left(interval[m], age[m]) \in Nat /\ Left(Slow, slow[m]) \in Nat
  <2>1. Polled \subseteq Modules
    BY DEF Polled, Sensible
  <2>2. \A m \in Modules : interval[m] \in Nat /\ age[m] \in Nat /\ slow[m] \in Nat
    BY DEF Typed, Sensible
  <2>3. Slow \in Nat
    BY DEF Sensible
  <2> QED
    BY <2>1, <2>2, <2>3, LeftIsNat
<1>2. S \subseteq Nat /\ S # {}
  BY <1>1
<1>3. WaitTime = Min(S)
  BY Zenon DEF WaitTime
<1>4. ASSUME NEW d \in Nat, \A x \in S : d <= x
      PROVE  InTime(d, Polled, interval, age, Slow, slow)
  <2>1. 999 \in S
    OBVIOUS
  <2>2. ASSUME NEW m \in Polled
        PROVE  Left(interval[m], age[m]) \in S /\ Left(Slow, slow[m]) \in S
    OBVIOUS
  <2> HIDE DEF S
  <2> QED
    BY <1>4, <2>1, <2>2 DEF InTime
<1>5. ASSUME NEW d \in Nat, InTime(d, Polled, interval, age, Slow, slow), NEW x \in S
      PROVE  d <= x
  <2>1. CASE x = 999
    BY <1>5, <2>1 DEF InTime
  <2>2. CASE \E m \in Polled : x = Left(interval[m], age[m])
    BY <1>5, <2>2 DEF InTime
  <2>3. CASE \E m \in Polled : x = Left(Slow, slow[m])
    BY <1>5, <2>3 DEF InTime
  <2> QED
    BY <2>1, <2>2, <2>3
<1> HIDE DEF S
<1>6. WaitTime \in S /\ \A x \in S : WaitTime <= x
  BY <1>2, <1>3, Least
<1>7. ASSUME NEW d \in Nat, d <= WaitTime PROVE InTime(d, Polled, interval, age, Slow, slow)
  <2>1. \A x \in S : d <= x
    BY <1>2, <1>6, <1>7
  <2> QED
    BY <2>1, <1>4
<1>8. ASSUME NEW d \in Nat, InTime(d, Polled, interval, age, Slow, slow) PROVE d <= WaitTime
  BY <1>5, <1>6, <1>8
<1>9. WaitTime \in Nat
  BY <1>2, <1>6
<1> QED
  BY <1>7, <1>8, <1>9

-----------------------------------------------------------------------------
(* Operations: sequences of steps which end with setting the event.        *)

Targets == Nat \union {PolledModule(s.enabled, i) : s \in Settings, i \in Nat}
Kinds == {"flag", "fast", "normal", "set", "param", "ifnormal", "interval", "forget",
          "forgetall", "stop"}
Instr == [do : Kinds, m : Targets, v : Nat]

\* The event will be set: there is no way out before.
Sure(q) == q # <<>> /\ \A i \in 1..Len(q) : q[i].do # "ifnormal"

\* An operation ends with setting the event, assigns only values of the
\* parameter, and before the only way out it has changed nothing which matters.
Proper(q) ==
  /\ q # <<>> => q[Len(q)].do = "set"
  /\ \A i \in 1..Len(q) : q[i].do = "ifnormal" => \A j \in 1..i - 1 : q[j].do = "param"

Operation == {q \in Seq(Instr) : Proper(q)}

LEMMA Instrs ==
  ASSUME NEW w \in Kinds, NEW m \in Targets, NEW v \in Nat
  PROVE  Do(w, m, v) \in Instr /\ Do(w, m, v).do = w /\ Do(w, m, v).v = v
BY DEF Do, Instr

LEMMA SetIsInstr == Sensible => Set \in Instr /\ Set.do = "set"
BY DEF Sensible, Set, Do, Instr, Kinds, Modules, Targets

LEMMA SetFastPollIsOperation ==
  ASSUME Sensible, NEW m \in Modules, NEW flag \in BOOLEAN
  PROVE  SetFastPoll(m, flag) \in Operation
<1> DEFINE a == Do("flag", m, IF flag THEN 1 ELSE 0)
           b == Do(IF flag THEN "fast" ELSE "normal", m, 0)
<1>1. a \in Instr /\ a.do = "flag"
  BY Instrs DEF Kinds, Targets, Modules
<1>2. b \in Instr /\ b.do \in {"fast", "normal"}
  BY Instrs DEF Kinds, Targets, Modules
<1> HIDE DEF a, b
<1>3. <<a, b, Set>> \in Seq(Instr) /\ Proper(<<a, b, Set>>)
  BY <1>1, <1>2, SetIsInstr DEF Proper
<1>4. SetFastPoll(m, flag) = <<a, b, Set>>
  BY DEF SetFastPoll, a, b
<1> QED
  BY <1>3, <1>4 DEF Operation

LEMMA UpdateIntervalIsOperation ==
  ASSUME Sensible, NEW m \in Modules, NEW v \in Intervals
  PROVE  UpdateInterval(m, v) \in Operation
<1> DEFINE a == Do("param", m, v)
           b == Do("ifnormal", m, v)
           c == Do("interval", m, v)
<1>1. v \in Nat
  BY DEF Sensible
<1>2. a \in Instr /\ a.do = "param" /\ a.v = v
  BY <1>1, Instrs DEF Kinds, Targets, Modules
<1>3. b \in Instr /\ b.do = "ifnormal" /\ b.v = v
  BY <1>1, Instrs DEF Kinds, Targets, Modules
<1>4. c \in Instr /\ c.do = "interval" /\ c.v = v
  BY <1>1, Instrs DEF Kinds, Targets, Modules
<1> HIDE DEF a, b, c
<1>5. <<a, b, c, Set>> \in Seq(Instr) /\ Proper(<<a, b, c, Set>>)
  BY <1>2, <1>3, <1>4, SetIsInstr DEF Proper
<1>6. UpdateInterval(m, v) = <<a, b, c, Set>>
  BY DEF UpdateInterval, a, b, c
<1> QED
  BY <1>5, <1>6 DEF Operation

LEMMA TriggerIsOperation ==
  ASSUME Sensible, NEW m \in Modules
  PROVE  Trigger(m) \in Operation
<1> DEFINE a == Do("forget", m, 0)
<1>1. a \in Instr /\ a.do = "forget"
  BY Instrs DEF Kinds, Targets, Modules
<1> HIDE DEF a
<1>2. <<a, Set>> \in Seq(Instr) /\ Proper(<<a, Set>>)
  BY <1>1, SetIsInstr DEF Proper
<1>3. Trigger(m) = <<a, Set>>
  BY DEF Trigger, a
<1> QED
  BY <1>2, <1>3 DEF Operation

LEMMA StopIsOperation == Sensible => StopPollThread \in Operation
<1> SUFFICES ASSUME Sensible PROVE StopPollThread \in Operation
  OBVIOUS
<1> DEFINE a == Do("stop", 1, 0)
<1>1. a \in Instr /\ a.do = "stop"
  BY Instrs DEF Kinds, Targets, Modules, Sensible
<1> HIDE DEF a
<1>2. <<a, Set>> \in Seq(Instr) /\ Proper(<<a, Set>>)
  BY <1>1, SetIsInstr DEF Proper
<1>3. StopPollThread = <<a, Set>>
  BY DEF StopPollThread, a
<1> QED
  BY <1>2, <1>3 DEF Operation

LEMMA TriggerAllIsOperation == Sensible => TriggerAll \in Operation
<1> SUFFICES ASSUME Sensible PROVE TriggerAll \in Operation
  OBVIOUS
<1> DEFINE n == Cardinality(Enabled)
           s == [i \in 1..n |-> Do("forgetall", PolledModule(Enabled, i), 0)]
<1>1. n \in Nat
  <2>1. IsFiniteSet(Modules)
    BY FS_Interval DEF Sensible, Modules
  <2>2. IsFiniteSet(Enabled)
    BY <2>1, FS_Subset DEF Sensible
  <2> QED
    BY <2>2, FS_CardinalityType
<1>2. \A i \in 1..n : s[i] \in Instr /\ s[i].do = "forgetall"
  <2> SUFFICES ASSUME NEW i \in 1..n
               PROVE  Do("forgetall", PolledModule(Enabled, i), 0) \in Instr
                      /\ Do("forgetall", PolledModule(Enabled, i), 0).do = "forgetall"
    OBVIOUS
  <2>1. PolledModule(Enabled, i) \in Targets
    BY <1>1 DEF Targets, Sensible, Enabled
  <2> QED
    BY <2>1, Instrs DEF Kinds
<1>3. TriggerAll = Append(s, Set)
  BY DEF TriggerAll
<1> HIDE DEF n
<1>4. s \in Seq(Instr) /\ Len(s) = n
  BY <1>1, <1>2
<1> HIDE DEF s
<1>5. Append(s, Set) \in Seq(Instr) /\ Proper(Append(s, Set))
  BY <1>1, <1>2, <1>4, SetIsInstr DEF Proper
<1> QED
  BY <1>3, <1>5 DEF Operation

\* What is left of an operation after its first step.
LEMMA Rests ==
  ASSUME NEW q \in Operation, q # <<>>
  PROVE  /\ Head(q) \in Instr /\ Tail(q) \in Operation
         /\ Head(q).do \notin {"set", "param"} => Sure(Tail(q))
         /\ Sure(q) => Head(q).do # "ifnormal" /\ (Head(q).do # "set" => Sure(Tail(q)))
<1>1. q \in Seq(Instr) /\ Proper(q)
  BY DEF Operation
<1>2. Len(q) \in Nat /\ Len(q) >= 1 /\ Head(q) = q[1] /\ Head(q) \in Instr
  BY <1>1
<1> DEFINE r == Tail(q)
<1>3. r \in Seq(Instr) /\ Len(r) = Len(q) - 1
  BY <1>1
<1>4. \A i \in 1..Len(r) : r[i] = q[i + 1] /\ i + 1 \in 1..Len(q)
  BY <1>1, <1>2, <1>3
<1>5. r # <<>> => Len(r) >= 1
  BY <1>3
<1>6. r = <<>> => Len(q) = 1
  BY <1>2, <1>3
<1> HIDE DEF r
<1>7. Head(q).do # "set" => r # <<>>
  BY <1>1, <1>2, <1>6 DEF Proper
<1>8. Proper(r)
  <2>1. r # <<>> => r[Len(r)].do = "set"
    BY <1>1, <1>2, <1>3, <1>4, <1>5 DEF Proper
  <2>2. ASSUME NEW i \in 1..Len(r), r[i].do = "ifnormal", NEW j \in 1..i - 1
        PROVE  r[j].do = "param"
    <3>1. j \in 1..Len(r) /\ j + 1 \in 1..(i + 1) - 1
      BY <1>3
    <3> QED
      BY <1>1, <1>4, <2>2, <3>1 DEF Proper
  <2> QED
    BY <2>1, <2>2 DEF Proper
<1>9. ASSUME Head(q).do \notin {"set", "param"} PROVE Sure(r)
  <2>1. ASSUME NEW i \in 1..Len(r) PROVE r[i].do # "ifnormal"
    <3>1. 1 \in 1..(i + 1) - 1
      OBVIOUS
    <3> QED
      BY <1>1, <1>2, <1>4, <1>9, <3>1 DEF Proper
  <2> QED
    BY <1>7, <1>9, <2>1 DEF Sure
<1>10. ASSUME Sure(q) PROVE Head(q).do # "ifnormal" /\ (Head(q).do # "set" => Sure(r))
  BY <1>2, <1>4, <1>7, <1>10 DEF Sure
<1>11. r \in Operation
  BY <1>3, <1>8 DEF Operation
<1> QED
  BY <1>2, <1>9, <1>10, <1>11 DEF r

-----------------------------------------------------------------------------
(* The inductive invariant.                                                *)

\* As long as the event is not set and nobody is sure to set it, the poll
\* thread sleeps not longer than it would, when it looked again.
WaitsRight ==
  pc = "wait" /\ ~event /\ (\A t \in All : ~Sure(op[t])) =>
    modules # {} /\ InTime(sleep, Polled, interval, age, Slow, slow)

Inv == setting \in Settings /\ Typed /\ op \in [All -> Operation] /\ WaitsRight

LEMMA NothingToDo == <<>> \in Operation /\ ~Sure(<<>>)
BY DEF Operation, Proper, Sure

LEMMA InitInv == Init => Inv
<1> SUFFICES ASSUME Init PROVE Inv
  OBVIOUS
<1>0. Sensible
  BY SettingIsSensible DEF Init
<1>1. Old \in Nat /\ OldSlow \in Nat
  BY <1>0, OldIsNat DEF OldSlow, Sensible
<1>2. Typed
  BY <1>0, <1>1 DEF Init, Typed, Sensible
<1>3. op \in [All -> Operation]
  BY NothingToDo DEF Init
<1>4. WaitsRight
  BY DEF Init, WaitsRight
<1> QED
  BY <1>0, <1>2, <1>3, <1>4 DEF Inv, Sensible

\* A single step of an operation: what matters for the time to wait is
\* changed only when the event is sure to be set.
LEMMA StepInv ==
  ASSUME Sensible, Inv, NEW t \in All, Step(t)
  PROVE  Inv'
<1> DEFINE q == op[t]
           s == Head(op[t])
<1>0. Same
  BY SettingStays DEF Step
<1>1. q \in Operation /\ q # <<>>
  BY DEF Inv, Step
<1>2. /\ s \in Instr /\ Tail(q) \in Operation
      /\ s.do \notin {"set", "param"} => Sure(Tail(q))
      /\ Sure(q) => s.do # "ifnormal" /\ (s.do # "set" => Sure(Tail(q)))
  BY <1>1, Rests
<1>3. /\ op' = [op EXCEPT ![t] = IF s.do = "ifnormal" /\ fast[s.m] THEN <<>> ELSE Tail(q)]
      /\ param' = IF s.do = "param" THEN [param EXCEPT ![s.m] = s.v] ELSE param
      /\ fast' = IF s.do = "flag" THEN [fast EXCEPT ![s.m] = s.v = 1] ELSE fast
      /\ interval' = CASE s.do = "fast" -> [interval EXCEPT ![s.m] = Fast]
                       [] s.do = "normal" -> [interval EXCEPT ![s.m] = param[s.m]]
                       [] s.do = "interval" -> [interval EXCEPT ![s.m] = s.v]
                       [] OTHER -> interval
      /\ age' = IF s.do \in {"forget", "forgetall"} THEN [age EXCEPT ![s.m] = Old] ELSE age
      /\ slow' = IF s.do = "forgetall" THEN [slow EXCEPT ![s.m] = OldSlow] ELSE slow
      /\ modules' = IF s.do = "stop" THEN {} ELSE modules
      /\ event' = (event \/ s.do = "set")
      /\ UNCHANGED <<pc, sleep>>
  BY DEF Step, thread
<1> HIDE DEF s
<1>4. Typed'
  <2>1. Old \in Nat /\ OldSlow \in Nat
    BY OldIsNat DEF OldSlow, Sensible
  <2>2. param' \in [Modules -> Nat]
    BY <1>2, <1>3 DEF Inv, Typed, Instr
  <2>3. fast' \in [Modules -> BOOLEAN]
    BY <1>3 DEF Inv, Typed
  <2>4. interval' \in [Modules -> Nat]
    <3>1. CASE s.do = "normal"
      BY <1>3, <3>1 DEF Inv, Typed
    <3>2. CASE s.do # "normal"
      BY <1>2, <1>3, <3>2 DEF Inv, Typed, Instr, Sensible
    <3> QED
      BY <3>1, <3>2
  <2>5. age' \in [Modules -> Nat] /\ slow' \in [Modules -> Nat]
    BY <1>3, <2>1 DEF Inv, Typed
  <2> QED
    BY <1>0, <1>3, <2>2, <2>3, <2>4, <2>5 DEF Inv, Typed, Same
<1>5. op' \in [All -> Operation]
  BY <1>2, <1>3, NothingToDo DEF Inv
<1>6. WaitsRight'
  <2>1. op'[t] = IF s.do = "ifnormal" /\ fast[s.m] THEN <<>> ELSE Tail(q)
    BY <1>3 DEF Inv
  <2>2. CASE s.do = "set"
    BY <1>3, <2>2 DEF WaitsRight
  <2>3. CASE s.do \in {"param", "flag", "ifnormal"}
    <3>1. UNCHANGED <<interval, age, slow, modules, Polled>> /\ (event' <=> event)
      BY <1>0, <1>3, <2>3 DEF Polled, Same
    <3>2. \A u \in All : Sure(op[u]) => Sure(op'[u])
      <4>1. Sure(q) => Sure(op'[t])
        BY <1>2, <2>1, <2>3
      <4>2. \A u \in All : u # t => op'[u] = op[u]
        BY <1>3 DEF Inv
      <4> QED
        BY <4>1, <4>2
    <3> QED
      BY <1>0, <1>3, <3>1, <3>2 DEF Inv, WaitsRight, Same
  <2>4. CASE s.do \notin {"set", "param", "flag", "ifnormal"}
    <3>1. Sure(op'[t])
      BY <1>2, <2>1, <2>4
    <3> QED
      BY <3>1 DEF WaitsRight
  <2> QED
    BY <2>2, <2>3, <2>4
<1> QED
  BY <1>0, <1>4, <1>5, <1>6 DEF Inv, Same

\* Another thread, or the poll itself, begins an operation.
LEMMA BeginInv ==
  ASSUME Sensible, Inv, NEW t \in All, NEW kinds, Begin(t, kinds)
  PROVE  Inv'
<1>1. PICK q \in Operation : op' = [op EXCEPT ![t] = q]
  <2>1. Enabled \subseteq Modules
    BY DEF Sensible
  <2>2. CASE \E m \in Enabled, flag \in BOOLEAN : op' = [op EXCEPT ![t] = SetFastPoll(m, flag)]
    BY <2>1, <2>2, SetFastPollIsOperation
  <2>3. CASE \E m \in Enabled, v \in Intervals : op' = [op EXCEPT ![t] = UpdateInterval(m, v)]
    BY <2>1, <2>3, UpdateIntervalIsOperation
  <2>4. CASE \E m \in Enabled : op' = [op EXCEPT ![t] = Trigger(m)]
    BY <2>1, <2>4, TriggerIsOperation
  <2>5. CASE op' = [op EXCEPT ![t] = TriggerAll]
    BY <2>5, TriggerAllIsOperation
  <2>6. CASE op' = [op EXCEPT ![t] = StopPollThread]
    BY <2>6, StopIsOperation
  <2> QED
    BY <2>2, <2>3, <2>4, <2>5, <2>6 DEF Begin
<1>2. op[t] = <<>> /\ UNCHANGED <<pc, sleep, modules, param, fast, interval, age, slow, event>>
  BY DEF Begin, thread, info, ages
<1>0. Same
  BY SettingStays DEF Begin
<1>3. UNCHANGED Polled
  BY <1>0, <1>2 DEF Polled, Same
<1>4. op' \in [All -> Operation]
  BY <1>1 DEF Inv
<1>5. \A u \in All : Sure(op[u]) => Sure(op'[u])
  <2>1. \A u \in All : u # t => op'[u] = op[u]
    BY <1>1 DEF Inv
  <2> QED
    BY <1>2, <2>1, NothingToDo
<1>6. Typed'
  BY <1>0, <1>2 DEF Inv, Typed, Same
<1>7. WaitsRight'
  BY <1>0, <1>2, <1>3, <1>5 DEF Inv, WaitsRight, Same
<1> QED
  BY <1>0, <1>4, <1>6, <1>7 DEF Inv, Same

\* Time passes: what is left of the sleep gets shorter with what is left until
\* the next poll.
LEMMA TickInv ==
  ASSUME Sensible, Inv, Tick
  PROVE  Inv'
<1>1. /\ UNCHANGED <<pc, modules, param, fast, interval, event, op>>
      /\ age' = [m \in Modules |-> Older(age[m], Old)]
      /\ slow' = [m \in Modules |-> Older(slow[m], OldSlow)]
      /\ sleep' = IF sleep > 0 THEN sleep - 1 ELSE 0
  BY DEF Tick, info
<1>0. Same
  BY SettingStays DEF Tick
<1>2. Old \in Nat /\ OldSlow \in Nat
  BY OldIsNat DEF OldSlow, Sensible
<1>3. \A since, last \in Nat : Older(since, last) \in Nat /\ Older(since, last) <= since + 1
  BY DEF Older
<1>4. \A m \in Modules : /\ age[m] \in Nat /\ age'[m] \in Nat /\ age'[m] <= age[m] + 1
                         /\ slow[m] \in Nat /\ slow'[m] \in Nat /\ slow'[m] <= slow[m] + 1
                         /\ interval[m] \in Nat
  BY <1>1, <1>2, <1>3 DEF Inv, Typed, Sensible
<1>5. Typed'
  <2>1. age' \in [Modules -> Nat] /\ slow' \in [Modules -> Nat]
    BY <1>1, <1>4
  <2>2. sleep' \in Nat
    BY <1>1 DEF Inv, Typed
  <2> QED
    BY <1>0, <1>1, <2>1, <2>2 DEF Inv, Typed, Same
<1>6. WaitsRight'
  <2> SUFFICES ASSUME pc = "wait", ~event, \A t \in All : ~Sure(op[t])
               PROVE  modules # {} /\ InTime(sleep', Polled, interval, age', Slow, slow')
    BY <1>0, <1>1 DEF WaitsRight, Polled, Same
  <2>1. modules # {} /\ InTime(sleep, Polled, interval, age, Slow, slow)
    BY DEF Inv, WaitsRight
  <2>2. sleep \in Nat /\ sleep' \in Nat /\ (sleep' = 0 \/ sleep = sleep' + 1)
    BY <1>1 DEF Inv, Typed
  <2>3. ASSUME NEW limit \in Nat, NEW since \in Nat, NEW later \in Nat,
               later <= since + 1, sleep <= Left(limit, since)
        PROVE  sleep' <= Left(limit, later)
    <3>1. /\ Left(limit, since) \in Nat /\ Left(limit, later) \in Nat
          /\ Left(limit, since) <= Left(limit, later) + 1
      BY <2>3, LeftIsNat
    <3>2. \A l, k, d, e \in Nat : (e = 0 \/ d = e + 1) /\ d <= l /\ l <= k + 1 => e <= k
      OBVIOUS
    <3> QED
      BY <2>2, <2>3, <3>1, <3>2, Zenon
  <2>4. ASSUME NEW m \in Polled
        PROVE  sleep' <= Left(interval[m], age'[m]) /\ sleep' <= Left(Slow, slow'[m])
    <3>1. m \in Modules /\ Slow \in Nat
      BY DEF Polled, Sensible
    <3>2. sleep <= Left(interval[m], age[m]) /\ sleep <= Left(Slow, slow[m])
      BY <2>1 DEF InTime
    <3> QED
      BY <1>4, <2>3, <3>1, <3>2
  <2>5. sleep' <= 999
    BY <2>1, <2>2 DEF InTime
  <2> QED
    BY <2>1, <2>4, <2>5 DEF InTime
<1>7. op' \in [All -> Operation]
  BY <1>1 DEF Inv
<1> QED
  BY <1>0, <1>5, <1>6, <1>7 DEF Inv, Same

\* What the poll thread itself does: only the top of its loop leads to the
\* wait, with the time it has calculated.
LEMMA PollThreadInv ==
  ASSUME Sensible, Inv, PollThread
  PROVE  Inv'
<1>1. op' = op /\ (pc' = "wait" => Turn)
  BY DEF PollThread, WriteInit, Collect, FirstRead, FirstReadDone, StartFailed, Started, Ended, Turn,
         NewMinute, Wake, Clear, MainPoll, NotDue, MainDone, PollDone, SlowPoll, SlowCollect,
         GoTo, NextModule
<1>0. Same
  BY SettingStays DEF PollThread
<1>2. Typed'
  <2>1. UNCHANGED <<modules, param, fast, interval>> /\ event' \in BOOLEAN
    BY DEF PollThread, WriteInit, Collect, FirstRead, FirstReadDone, StartFailed, Started, Ended,
           Turn, NewMinute, Wake, Clear, MainPoll, NotDue, MainDone, PollDone, SlowPoll,
           SlowCollect, info, Inv, Typed
  <2>2. age' \in [Modules -> Nat]
    <3>1. CASE MainPoll
      <4>1. PICK since \in 0..interval[at] - 1 : age' = [age EXCEPT ![at] = since]
        BY <3>1 DEF MainPoll
      <4>2. since \in Nat
        BY <4>1
      <4> QED
        BY <4>1, <4>2 DEF Inv, Typed
    <3>2. CASE ~MainPoll
      <4>1. age' = age
        BY <3>2 DEF PollThread, WriteInit, Collect, FirstRead, FirstReadDone, StartFailed, Started,
                    Ended, Turn, NewMinute, Wake, Clear, NotDue, MainDone, PollDone, SlowPoll,
                    SlowCollect, ages
      <4> QED
        BY <4>1 DEF Inv, Typed
    <3> QED
      BY <3>1, <3>2
  <2>3. slow' \in [Modules -> Nat]
    <3>1. CASE SlowCollect
      <4>1. slow' \in [Modules -> 0..OldSlow]
        BY <3>1 DEF SlowCollect
      <4> QED
        BY <4>1
    <3>2. CASE ~SlowCollect
      <4>1. slow' = slow
        BY <3>2 DEF PollThread, WriteInit, Collect, FirstRead, FirstReadDone, StartFailed, Started,
                    Ended, Turn, NewMinute, Wake, Clear, MainPoll, NotDue, MainDone, PollDone,
                    SlowPoll, ages
      <4> QED
        BY <4>1 DEF Inv, Typed
    <3> QED
      BY <3>1, <3>2
  <2>4. sleep' \in Nat
    <3>1. CASE Turn
      BY <3>1, WaitTimes DEF Turn, Inv, Typed
    <3>2. CASE ~Turn
      <4>1. sleep' \in {0, sleep}
        BY <3>2 DEF PollThread, WriteInit, Collect, FirstRead, FirstReadDone, StartFailed, Started,
                    Ended, NewMinute, Wake, Clear, MainPoll, NotDue, MainDone, PollDone, SlowPoll,
                    SlowCollect
      <4> QED
        BY <4>1 DEF Inv, Typed
    <3> QED
      BY <3>1, <3>2
  <2> QED
    BY <1>0, <2>1, <2>2, <2>3, <2>4 DEF Inv, Typed, Same
<1>3. WaitsRight'
  <2>1. CASE pc' = "wait"
    <3>1. /\ modules # {} /\ sleep' = WaitTime
          /\ UNCHANGED <<modules, interval, age, slow>>
      BY <1>1, <2>1 DEF Turn, GoTo, info, ages
    <3>2. WaitTime \in Nat /\ InTime(WaitTime, Polled, interval, age, Slow, slow)
      BY WaitTimes DEF Inv
    <3> QED
      BY <1>0, <3>1, <3>2 DEF WaitsRight, Polled, Same
  <2>2. CASE pc' # "wait"
    BY <2>2 DEF WaitsRight
  <2> QED
    BY <2>1, <2>2
<1> QED
  BY <1>0, <1>1, <1>2, <1>3 DEF Inv, Same

LEMMA NextInv == Inv /\ [Next]_vars => Inv'
<1> SUFFICES ASSUME Inv, [Next]_vars PROVE Inv'
  OBVIOUS
<1>0. Sensible
  BY SettingIsSensible DEF Inv
<1>1. CASE PollThread
  BY <1>0, <1>1, PollThreadInv
<1>2. CASE OnTheSide
  BY <1>0, <1>2, BeginInv DEF OnTheSide, All
<1>3. CASE Tick
  BY <1>0, <1>3, TickInv
<1>4. CASE \E t \in All : Step(t)
  BY <1>0, <1>4, StepInv
<1>5. CASE \E t \in Threads : Begin(t, Ops)
  BY <1>0, <1>5, BeginInv DEF All
<1>6. CASE UNCHANGED vars
  <2>1. Same
    BY <1>6, SettingStays DEF vars
  <2> QED
    BY <1>6, <2>1 DEF vars, thread, info, ages, Inv, Typed, WaitsRight, Polled, Same
<1> QED
  BY <1>1, <1>2, <1>3, <1>4, <1>5, <1>6 DEF Next

\* A poll thread which sleeps, with no other thread in the middle of an
\* operation, has not been stopped and wakes up when the next poll is due: no
\* change of an interval, no trigger, no reconnection and no stop is overslept
\* (PollInfo, and the wait and the clear of Module.__pollThread).
THEOREM NothingOverslept == Spec => []WakesInTime
<1>1. Inv => WakesInTime
  <2> SUFFICES ASSUME Inv, pc = "wait", ~event, \A t \in All : op[t] = <<>>
               PROVE  modules # {} /\ sleep <= WaitTime
    BY DEF WakesInTime
  <2>1. modules # {} /\ InTime(sleep, Polled, interval, age, Slow, slow)
    BY NothingToDo DEF Inv, WaitsRight
  <2>2. sleep \in Nat
    BY DEF Inv, Typed
  <2>3. Sensible
    BY SettingIsSensible DEF Inv
  <2> QED
    BY <2>1, <2>2, <2>3, WaitTimes DEF Inv
<1> QED
  BY InitInv, NextInv, <1>1, PTL DEF Spec

-----------------------------------------------------------------------------
(* Startup.                                                                *)

LEMMA StartedOnceStays == StartedOnce /\ [Next]_vars => StartedOnce'
<1> SUFFICES ASSUME StartedOnce, [Next]_vars PROVE StartedOnce'
  OBVIOUS
<1>1. CASE PollThread
  <2>1. CASE WriteInit
    BY <2>1 DEF WriteInit, GoTo, NextModule, StartedOnce
  <2>2. CASE Collect
    BY <2>2 DEF Collect, GoTo, NextModule, StartedOnce
  <2>3. CASE FirstRead
    BY <2>3 DEF FirstRead, GoTo, NextModule, StartedOnce
  <2>4. CASE FirstReadDone
    BY <2>4 DEF FirstReadDone, GoTo, NextModule, StartedOnce
  <2>5. CASE StartFailed
    BY <2>5 DEF StartFailed, GoTo, NextModule, StartedOnce
  <2>6. CASE Started
    BY <2>6 DEF Started, GoTo, NextModule, StartedOnce
  <2>7. CASE Ended
    BY <2>7 DEF Ended, GoTo, NextModule, StartedOnce
  <2>8. CASE Turn
    BY <2>8 DEF Turn, GoTo, NextModule, StartedOnce
  <2>9. CASE NewMinute
    BY <2>9 DEF NewMinute, GoTo, NextModule, StartedOnce
  <2>10. CASE Wake
    BY <2>10 DEF Wake, GoTo, NextModule, StartedOnce
  <2>11. CASE Clear
    BY <2>11 DEF Clear, GoTo, NextModule, StartedOnce
  <2>12. CASE MainPoll
    BY <2>12 DEF MainPoll, GoTo, NextModule, StartedOnce
  <2>13. CASE NotDue
    BY <2>13 DEF NotDue, GoTo, NextModule, StartedOnce
  <2>14. CASE MainDone
    BY <2>14 DEF MainDone, GoTo, NextModule, StartedOnce
  <2>15. CASE PollDone
    BY <2>15 DEF PollDone, GoTo, NextModule, StartedOnce
  <2>16. CASE SlowPoll
    BY <2>16 DEF SlowPoll, GoTo, NextModule, StartedOnce
  <2>17. CASE SlowCollect
    BY <2>17 DEF SlowCollect, GoTo, NextModule, StartedOnce
  <2> QED
    BY <1>1, <2>1, <2>2, <2>3, <2>4, <2>5, <2>6, <2>7, <2>8, <2>9,
       <2>10, <2>11, <2>12, <2>13, <2>14, <2>15, <2>16, <2>17
    DEF PollThread
<1>2. CASE ~PollThread
  <2>1. UNCHANGED <<pc, started>>
    BY <1>2 DEF Next, OnTheSide, Begin, Step, Tick, vars, thread
  <2> QED
    BY <2>1 DEF StartedOnce
<1> QED
  BY <1>1, <1>2

\* While the modules are initialised, one after the other, nothing is polled.
Writing ==
  /\ NModules \in Nat /\ at \in Nat /\ unwritten \subseteq Modules /\ modules \subseteq Modules
  /\ pc = "write" => cur = <<0, 0>> /\ unwritten \intersect 1..at - 1 = {}
  /\ pc # "write" => unwritten = {} \/ modules = {} \/ (pc = "died" /\ cur = <<0, 0>>)

LEMMA WritingStays == "reads" \notin Failing /\ Writing /\ [Next]_vars => Writing'
<1> SUFFICES ASSUME "reads" \notin Failing, Writing, [Next]_vars PROVE Writing'
  OBVIOUS
<1>0. UNCHANGED <<NModules, Modules>>
  BY DEF Next, PollThread, OnTheSide, Begin, Step, Tick, vars, NModules, Modules
<1>1. CASE PollThread /\ WriteInit
  BY <1>0, <1>1 DEF WriteInit, GoTo, NextModule, Writing
<1>2. CASE PollThread /\ Collect
  <2>1. unwritten = {} \/ modules = {}
    BY <1>2 DEF Collect, Beyond, Writing, Modules
  <2> QED
    BY <1>0, <1>2, <2>1 DEF Collect, GoTo, Writing
<1>3. CASE PollThread /\ ~WriteInit /\ ~Collect
  <2>1. pc # "write" /\ pc # "died" /\ pc' # "write"
    BY <1>3 DEF PollThread, FirstRead, FirstReadDone, StartFailed, Started, Ended, Turn, NewMinute,
                Wake, Clear, MainPoll, NotDue, MainDone, PollDone, SlowPoll, SlowCollect, GoTo,
                NextModule
  <2>2. UNCHANGED <<unwritten, modules>> /\ at' \in {1, at, at + 1}
    BY <1>3 DEF PollThread, FirstRead, FirstReadDone, StartFailed, Started, Ended, Turn, NewMinute,
                Wake, Clear, MainPoll, NotDue, MainDone, PollDone, SlowPoll, SlowCollect, GoTo,
                NextModule
  <2> QED
    BY <1>0, <2>1, <2>2 DEF Writing
<1>4. CASE ~PollThread
  <2>1. UNCHANGED <<pc, at, cur, unwritten>> /\ modules' \in {{}, modules}
    BY <1>4 DEF Next, OnTheSide, Begin, Step, Tick, vars, thread
  <2> QED
    BY <1>0, <2>1 DEF Writing
<1> QED
  BY <1>1, <1>2, <1>3, <1>4

\* Startup comes before polling: the server hears at most once that it is over,
\* and has heard it when the loop begins, whatever fails; and unless the initial
\* reads fail, no module is polled before its configured values are written
\* (Module.__pollThread and its started_callback).
THEOREM StartupComesFirst == Spec => []StartupInOrder
<1> DEFINE I == /\ setting \in Settings /\ StartedOnce
                /\ "reads" \notin Failing => Writing
<1>1. Init => I
  <2> SUFFICES ASSUME Init PROVE I
    OBVIOUS
  <2>1. Sensible
    BY SettingIsSensible DEF Init
  <2> QED
    BY <2>1 DEF Init, Writing, StartedOnce, Sensible
<1>2. I /\ [Next]_vars => I'
  <2> SUFFICES ASSUME I, [Next]_vars PROVE I'
    OBVIOUS
  <2>1. UNCHANGED <<setting, Failing>>
    BY DEF Next, PollThread, OnTheSide, Begin, Step, Tick, vars, Failing
  <2> QED
    BY <2>1, StartedOnceStays, WritingStays
<1>3. I => StartupInOrder
  BY DEF Writing, WrittenFirst, StartupInOrder
<1> HIDE DEF I
<1> QED
  BY <1>1, <1>2, <1>3, PTL DEF Spec
===============================================================================
