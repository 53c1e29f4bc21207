--------------------------- MODULE TaskControl_proof ---------------------------
(***************************************************************************)
(* The flags, generations and cancel channels of the background loops, for *)
(* any number of host tasks, licenses, calls and generations, with and     *)
(* without threads that fail to start.                                     *)
(***************************************************************************)
EXTENDS TaskControl, SequenceTheorems, TLAPS

-----------------------------------------------------------------------------
(* What an agent has left to do, as a set                                  *)

Todo(q) == {q[i] : i \in DOMAIN q}

LEMMA TodoConcat ==
    ASSUME NEW S, NEW s \in Seq(S), NEW t \in Seq(S)
    PROVE  s \o t \in Seq(S) /\ Todo(s \o t) = Todo(s) \cup Todo(t)
<1>1. /\ s \o t \in Seq(S) /\ Len(s \o t) = Len(s) + Len(t)
      /\ Len(s) \in Nat /\ Len(t) \in Nat
      /\ DOMAIN s = 1..Len(s) /\ DOMAIN t = 1..Len(t) /\ DOMAIN (s \o t) = 1..(Len(s) + Len(t))
      /\ \A i \in 1..Len(s) : (s \o t)[i] = s[i]
      /\ \A i \in 1..Len(t) : (s \o t)[Len(s) + i] = t[i]
  BY ConcatProperties, LenProperties
<1>2. \A i \in 1..(Len(s) + Len(t)) :
        i \in 1..Len(s) \/ \E j \in 1..Len(t) : i = Len(s) + j
  <2> SUFFICES ASSUME NEW i \in 1..(Len(s) + Len(t)), i \notin 1..Len(s)
               PROVE  \E j \in 1..Len(t) : i = Len(s) + j
    OBVIOUS
  <2>1. i - Len(s) \in 1..Len(t) /\ i = Len(s) + (i - Len(s))
    BY <1>1
  <2> QED
    BY <2>1
<1>3. Todo(s) \subseteq Todo(s \o t) /\ Todo(t) \subseteq Todo(s \o t)
  <2>1. \A i \in 1..Len(s) : i \in 1..(Len(s) + Len(t))
    BY <1>1
  <2>2. \A i \in 1..Len(t) : Len(s) + i \in 1..(Len(s) + Len(t))
    BY <1>1
  <2> QED
    BY <1>1, <2>1, <2>2 DEF Todo
<1>4. ASSUME NEW i \in 1..(Len(s) + Len(t)) PROVE (s \o t)[i] \in Todo(s) \cup Todo(t)
  <2>1. CASE i \in 1..Len(s)
    BY <1>1, <2>1 DEF Todo
  <2>2. CASE \E j \in 1..Len(t) : i = Len(s) + j
    BY <1>1, <2>2 DEF Todo
  <2> QED
    BY <1>2, <2>1, <2>2
<1>5. Todo(s \o t) \subseteq Todo(s) \cup Todo(t)
  BY <1>1, <1>4 DEF Todo
<1> QED
  BY <1>1, <1>3, <1>5

LEMMA TodoTail ==
    ASSUME NEW S, NEW q \in Seq(S), q # <<>>
    PROVE  Todo(q) = {Head(q)} \cup Todo(Tail(q)) /\ Head(q) \in S /\ Tail(q) \in Seq(S)
<1>1. /\ Head(q) = q[1] /\ Tail(q) \in Seq(S) /\ Len(q) \in Nat \ {0}
      /\ DOMAIN q = 1..Len(q) /\ DOMAIN Tail(q) = 1..(Len(q) - 1)
      /\ \A i \in 1..(Len(q) - 1) : Tail(q)[i] = q[i + 1] /\ i + 1 \in 1..Len(q)
  OBVIOUS
<1>2. \A i \in 1..Len(q) : i = 1 \/ \E j \in 1..(Len(q) - 1) : i = j + 1
  <2> SUFFICES ASSUME NEW i \in 1..Len(q), i # 1
               PROVE  \E j \in 1..(Len(q) - 1) : i = j + 1
    OBVIOUS
  <2>1. i - 1 \in 1..(Len(q) - 1) /\ i = (i - 1) + 1
    BY <1>1
  <2> QED
    BY <2>1
<1>3. {Head(q)} \cup Todo(Tail(q)) \subseteq Todo(q)
  BY <1>1 DEF Todo
<1>4. ASSUME NEW i \in 1..Len(q) PROVE q[i] \in {Head(q)} \cup Todo(Tail(q))
  <2>1. CASE i = 1
    BY <1>1, <2>1
  <2>2. ASSUME NEW j \in 1..(Len(q) - 1), i = j + 1 PROVE q[i] \in Todo(Tail(q))
    BY <1>1, <2>2 DEF Todo
  <2> QED
    BY <1>2, <2>1, <2>2
<1>5. Todo(q) \subseteq {Head(q)} \cup Todo(Tail(q))
  BY <1>1, <1>4 DEF Todo
<1> QED
  BY <1>1, <1>3, <1>5

LEMMA TodoFew == Todo(<<>>) = {} /\ \A s : Todo(<<s>>) = {s}
  BY DEF Todo

LEMMA Pushed ==
    ASSUME NEW S, NEW s \in S, NEW t \in Seq(S)
    PROVE  /\ <<s>> \o t \in Seq(S) /\ <<s>> \o t # <<>>
           /\ Head(<<s>> \o t) = s /\ Tail(<<s>> \o t) = t
<1>1. /\ <<s>> \o t \in Seq(S) /\ Len(<<s>> \o t) = 1 + Len(t) /\ Len(t) \in Nat
      /\ (<<s>> \o t)[1] = s /\ \A i \in 1..Len(t) : (<<s>> \o t)[1 + i] = t[i]
  OBVIOUS
<1>2. /\ <<s>> \o t # <<>> /\ Head(<<s>> \o t) = s /\ Tail(<<s>> \o t) \in Seq(S)
      /\ Len(Tail(<<s>> \o t)) = Len(t)
      /\ \A i \in 1..Len(t) : Tail(<<s>> \o t)[i] = t[i]
  BY <1>1
<1> QED
  BY <1>1, <1>2, SeqEqual

-----------------------------------------------------------------------------
(* The invariant                                                           *)

Steps == {s \in Step : s.do = "spawn" => s.gen # 0}
ThreadStates == [pc : PCs, lic : Ids \cup {None}, tries : 0..RetryDelays]

StateTypes ==
    /\ license \in Ids \cup {None}
    /\ status \in {"none", "pending", "online", "offline", "denied"}
    /\ isOnline \in BOOLEAN /\ nextRun \in BOOLEAN /\ host \in BOOLEAN
ControlTypes ==
    /\ running \in [Kinds -> BOOLEAN] /\ gen \in [Kinds -> Nat] /\ sender \in [Kinds -> Nat]
ThreadTypes ==
    /\ Threads \subseteq Kinds \X (Nat \ {0})
    /\ thread \in [Threads -> ThreadStates]
    /\ agenda \in [Procs \cup Threads -> Seq(Steps)]
Types == StateTypes /\ ControlTypes /\ ThreadTypes

(* Of the four kinds only the sync has neither flag nor generation of its  *)
(* own; for the others flag, generation and sender change together.        *)
Governed == Kinds \ {"sync"}
Switched ==
    /\ ~running["sync"]
    /\ \A k \in Governed :
         /\ running[k] => sender[k] # 0
         /\ sender[k] # 0 => running[k] /\ sender[k] = gen[k]

(* The spawn of a governed loop follows its installation at once           *)
SpawnOf(s) == s.do = "spawn" /\ s.kind \in Governed
Clean(q) == \A s \in Todo(q) : ~SpawnOf(s)
Spawning(a) == ~Idle(a) /\ SpawnOf(Head(agenda[a]))
SpawnsFirst == \A a \in Agents : ~Idle(a) => Clean(Tail(agenda[a]))

SyncPlansNothing == \A x \in Threads : x[1] = "sync" => Idle(x)

(* No two loops share a generation, spawned or about to be                 *)
OwnGenerations ==
    /\ \A x \in Threads : x[1] \in Governed => x[2] <= gen[x[1]]
    /\ \A a \in Agents : Spawning(a) => LET s == Head(agenda[a]) IN
         s.gen <= gen[s.kind] /\ <<s.kind, s.gen>> \notin Threads
    /\ \A a, b \in Agents : Spawning(a) /\ Spawning(b) /\ a # b =>
         LET s == Head(agenda[a])  t == Head(agenda[b]) IN s.kind # t.kind \/ s.gen # t.gen

(* A flag that is set stands for a thread, one about to be spawned, or is  *)
(* about to be taken back                                                  *)
Promise(s, k) == s.kind = k /\ (s.do = "stop" \/ (s.do = "spawn" /\ s.gen = gen[k]))
Promised(k) == \E a \in Agents : \E s \in Todo(agenda[a]) : Promise(s, k)
Lives(k) == <<k, gen[k]>> \in Threads /\ thread[<<k, gen[k]>>].pc # "failed"
FlagsBacked == host => \A k \in Kinds : running[k] => Lives(k) \/ Promised(k)

Core == Switched /\ SpawnsFirst /\ SyncPlansNothing /\ OwnGenerations /\ FlagsBacked
IInv == Types /\ Core

USE DEF Kinds, Timers, Governed
USE FlagsAndBounds, HostCallsType, EnabledType, ProcsAreNoLoops

(* What the checked properties need of the invariant                       *)
LEMMA LiveLoops == IInv => LiveLoopIsCurrent
  BY DEF IInv, Types, ControlTypes, ThreadTypes, Core, Switched, LiveLoopIsCurrent, Cancelled, ShouldContinue

LEMMA HonestFlags == IInv => RunningIsHonest
<1> SUFFICES ASSUME IInv, Quiescent, host, NEW k \in Kinds, running[k]
             PROVE  \E x \in Threads : ShouldContinue(x) /\ x[1] = k /\ ~Cancelled(x)
  BY DEF RunningIsHonest
<1>1. ~Promised(k)
  BY DEF Promised, Quiescent, Idle, Todo
<1> DEFINE x == <<k, gen[k]>>
<1>2. x \in Threads /\ x[1] = k /\ x[2] = gen[k]
  BY <1>1 DEF IInv, Core, FlagsBacked, Lives
<1>3. sender[k] = gen[k] /\ Alive
  BY DEF IInv, Core, Switched, Alive
<1> HIDE DEF x
<1> QED
  BY <1>2, <1>3 DEF ShouldContinue, Cancelled

-----------------------------------------------------------------------------
(* Preservation.  The agenda of one agent is replaced                      *)

LEMMA Shelved ==
    ASSUME IInv, NEW a \in Agents, NEW q \in Seq(Steps), q # <<>> => Clean(Tail(q)),
           a \in Threads /\ a[1] = "sync" => q = <<>>,
           agenda' = [agenda EXCEPT ![a] = q], thread' \in [Threads -> ThreadStates]
    PROVE  /\ Threads' = Threads /\ Agents' = Agents /\ Agents = Procs \cup Threads
           /\ agenda'[a] = q /\ \A b \in Agents : b # a => agenda'[b] = agenda[b]
           /\ ThreadTypes' /\ SpawnsFirst' /\ SyncPlansNothing'
           /\ \A b \in Agents : b # a => (Spawning(b)' <=> Spawning(b))
<1> USE DEF IInv, Types, ThreadTypes, Core
<1>1. Threads' = Threads /\ Agents' = Agents /\ Agents = Procs \cup Threads
  BY DEF Threads, Agents
<1>2. /\ agenda' \in [Procs \cup Threads -> Seq(Steps)] /\ agenda'[a] = q
      /\ \A b \in Agents : b # a => agenda'[b] = agenda[b]
  BY <1>1
<1>3. ThreadTypes'
  BY <1>1, <1>2
<1>4. SpawnsFirst'
  BY <1>1, <1>2 DEF SpawnsFirst, Idle
<1>5. SyncPlansNothing'
  BY <1>1, <1>2 DEF SyncPlansNothing, Idle
<1>6. \A b \in Agents : b # a => (Spawning(b)' <=> Spawning(b))
  BY <1>2 DEF Spawning, Idle
<1> QED
  BY <1>1, <1>2, <1>3, <1>4, <1>5, <1>6

LEMMA NoSpawn ==
    ASSUME NEW q \in Seq(Steps), Clean(q), q # <<>>
    PROVE  Clean(Tail(q)) /\ ~SpawnOf(Head(q))
BY TodoTail DEF Clean

(* Generations only grow, and only a fresh one is to be spawned            *)
Fresh(s) == /\ s.kind \in Governed /\ s.gen \in Nat
            /\ ~(s.gen <= gen[s.kind]) /\ s.gen <= gen'[s.kind]

LEMMA GenerationsStay ==
    ASSUME IInv, NEW a \in Agents, NEW q \in Seq(Steps),
           Clean(q) \/ Fresh(Head(q)),
           Threads' = Threads, Agents' = Agents, agenda'[a] = q,
           \A b \in Agents : b # a => agenda'[b] = agenda[b],
           ControlTypes', \A k \in Kinds : gen[k] <= gen'[k]
    PROVE  OwnGenerations'
<1> DEFINE Below(m, n) == m <= n
<1>1. \A l, m, n \in Nat : Below(l, m) /\ Below(m, n) => Below(l, n)
  OBVIOUS
<1>2. Spawning(a)' => Fresh(Head(agenda'[a]))
  BY NoSpawn DEF Spawning, Idle
<1>3. \A b \in Agents : b # a /\ Spawning(b)' => Spawning(b) /\ agenda'[b] = agenda[b]
  BY DEF Spawning, Idle
<1>4. /\ \A k \in Kinds : gen[k] \in Nat /\ gen'[k] \in Nat
      /\ \A x \in Threads : x[1] \in Kinds /\ x[2] \in Nat
  BY DEF IInv, Types, ControlTypes, ThreadTypes
<1>5. ASSUME NEW x \in Threads', x[1] \in Governed PROVE Below(x[2], gen'[x[1]])
  <2>1. Below(x[2], gen[x[1]]) /\ Below(gen[x[1]], gen'[x[1]])
    BY <1>5 DEF IInv, Core, OwnGenerations
  <2> HIDE DEF Below
  <2> QED
    BY <1>1, <1>4, <1>5, <2>1
<1>6. ASSUME NEW b \in Agents, b # a, Spawning(b)'
      PROVE  LET s == Head(agenda'[b]) IN
               /\ s.kind \in Governed /\ s.gen \in Nat
               /\ Below(s.gen, gen[s.kind]) /\ Below(s.gen, gen'[s.kind])
               /\ <<s.kind, s.gen>> \notin Threads
  <2> DEFINE s == Head(agenda[b])
  <2>1. Spawning(b) /\ agenda'[b] = agenda[b]
    BY <1>3, <1>6
  <2>2. agenda[b] \in Seq(Steps) /\ agenda[b] # <<>>
    BY <2>1 DEF IInv, Types, ThreadTypes, Agents, Spawning, Idle
  <2>3. s.kind \in Governed /\ s.gen \in Nat
    BY <2>1, <2>2, TodoTail DEF Spawning, SpawnOf, Steps, Step
  <2>4. Below(s.gen, gen[s.kind]) /\ <<s.kind, s.gen>> \notin Threads
    BY <2>1 DEF IInv, Core, OwnGenerations
  <2>5. Below(gen[s.kind], gen'[s.kind])
    BY <2>3
  <2>6. Below(s.gen, gen'[s.kind])
    <3> HIDE DEF s, Below
    <3> QED
      BY <1>1, <1>4, <2>3, <2>4, <2>5
  <2> QED
    BY <2>1, <2>3, <2>4, <2>6
<1>7. ASSUME Spawning(a)'
      PROVE  LET s == Head(agenda'[a]) IN
               /\ s.kind \in Governed /\ ~Below(s.gen, gen[s.kind]) /\ Below(s.gen, gen'[s.kind])
               /\ <<s.kind, s.gen>> \notin Threads
  <2> DEFINE s == Head(agenda'[a])
  <2>1. s.kind \in Governed /\ ~Below(s.gen, gen[s.kind]) /\ Below(s.gen, gen'[s.kind])
    BY <1>2, <1>7 DEF Fresh
  <2>2. \A x \in Threads : x[1] \in Governed => Below(x[2], gen[x[1]])
    BY DEF IInv, Core, OwnGenerations
  <2> HIDE DEF s, Below
  <2>3. <<s.kind, s.gen>> \notin Threads
    BY <2>1, <2>2
  <2> QED
    BY <2>1, <2>3 DEF s
<1>8. ASSUME NEW b \in Agents, NEW c \in Agents, Spawning(b)', Spawning(c)', b # c
      PROVE  LET s == Head(agenda'[b])  t == Head(agenda'[c]) IN
               s.kind # t.kind \/ s.gen # t.gen
  <2>1. CASE b # a /\ c # a
    <3>1. Spawning(b) /\ Spawning(c) /\ agenda'[b] = agenda[b] /\ agenda'[c] = agenda[c]
      BY <1>3, <1>8, <2>1
    <3>2. LET s == Head(agenda[b])  t == Head(agenda[c]) IN s.kind # t.kind \/ s.gen # t.gen
      BY <1>8, <3>1 DEF IInv, Core, OwnGenerations
    <3> QED
      BY <3>1, <3>2
  <2> HIDE DEF Below
  <2>2. CASE b = a
    BY <1>6, <1>7, <1>8, <2>2
  <2>3. CASE c = a
    BY <1>6, <1>7, <1>8, <2>3
  <2> QED
    BY <2>1, <2>2, <2>3
<1> QED
  BY <1>5, <1>6, <1>7, <1>8 DEF OwnGenerations

(* What an agent may be left with by a step                                *)
Keeps(a, q) ==
    /\ q \in Seq(Steps) /\ Clean(q)
    /\ a \in Threads /\ a[1] = "sync" => q = <<>>
    /\ \A k \in Kinds : host /\ running[k] =>
         \A s \in Todo(agenda[a]) : Promise(s, k) => \E t \in Todo(q) : Promise(t, k)

(* ... and a step that changes no flag, starts no thread and ends none     *)
LEMMA Requeue ==
    ASSUME IInv, NEW a \in Agents, NEW q, Keeps(a, q),
           agenda' = [agenda EXCEPT ![a] = q], UNCHANGED control,
           thread' \in [Threads -> ThreadStates], host' => host,
           \A x \in Threads : thread'[x].pc = "failed" =>
             \/ thread[x].pc = "failed" \/ ~ShouldContinue(x)
             \/ x[1] \in Kinds /\ Stop(x[1]) \in Todo(q)
    PROVE  ControlTypes' /\ ThreadTypes' /\ Core'
<1> USE DEF IInv, Types, ThreadTypes, ControlTypes, Core
<1>1. q # <<>> => Clean(Tail(q))
  BY NoSpawn DEF Keeps
<1>2. running' = running /\ gen' = gen /\ sender' = sender
  BY DEF control
<1>3. ControlTypes' /\ Switched'
  BY <1>2 DEF Switched
<1>4. /\ Threads' = Threads /\ Agents' = Agents
      /\ agenda'[a] = q /\ \A b \in Agents : b # a => agenda'[b] = agenda[b]
      /\ ThreadTypes' /\ SpawnsFirst' /\ SyncPlansNothing'
  BY <1>1, Shelved DEF Keeps
<1>5. OwnGenerations'
  <2>1. \A k \in Kinds : gen[k] <= gen'[k]
    BY <1>2
  <2> QED
    BY <1>3, <1>4, <2>1, GenerationsStay DEF Keeps
<1>6. ASSUME NEW k \in Kinds, host', running'[k]
       PROVE  Lives(k)' \/ Promised(k)'
  <2>1. \A s : Promise(s, k)' <=> Promise(s, k)
    BY <1>2 DEF Promise
  <2>2. CASE Promised(k)
    <3>1. PICK b \in Agents : \E s \in Todo(agenda[b]) : Promise(s, k)
      BY <2>2 DEF Promised
    <3>2. \E t \in Todo(agenda'[b]) : Promise(t, k)
      BY <1>2, <1>4, <1>6, <3>1 DEF Keeps
    <3> QED
      BY <1>4, <2>1, <3>2 DEF Promised
  <2>3. CASE Lives(k)
    <3> DEFINE x == <<k, gen[k]>>
    <3>1. x \in Threads /\ thread[x].pc # "failed" /\ ShouldContinue(x) /\ x[1] = k
      BY <1>2, <1>6, <2>3 DEF Lives, ShouldContinue
    <3>2. CASE thread'[x].pc # "failed"
      BY <1>2, <1>4, <3>1, <3>2 DEF Lives
    <3>3. CASE Stop(k) \in Todo(q)
      <4>1. Promise(Stop(k), k)
        BY DEF Promise, Stop
      <4> QED
        BY <1>4, <2>1, <3>3, <4>1 DEF Promised
    <3> HIDE DEF x
    <3> QED
      BY <3>1, <3>2, <3>3
  <2> QED
    BY <1>2, <1>6, <2>2, <2>3 DEF FlagsBacked
<1>7. FlagsBacked'
  BY <1>6 DEF FlagsBacked
<1> QED
  BY <1>3, <1>4, <1>5, <1>7

(* A step that no agent makes                                              *)
LEMMA Undisturbed ==
    ASSUME IInv, UNCHANGED <<control, thread, agenda>>, host' => host
    PROVE  ControlTypes' /\ ThreadTypes' /\ Core'
<1>1. /\ running' = running /\ gen' = gen /\ sender' = sender
      /\ thread' = thread /\ agenda' = agenda
  BY DEF control
<1>2. ControlTypes' /\ ThreadTypes' /\ Switched'
  BY <1>1 DEF IInv, Types, ControlTypes, ThreadTypes, Threads, Core, Switched
<1>3. SpawnsFirst' /\ SyncPlansNothing'
  BY <1>1 DEF IInv, Core, SpawnsFirst, SyncPlansNothing, Threads, Agents, Idle
<1>4. OwnGenerations'
  BY <1>1 DEF IInv, Core, OwnGenerations, Spawning, Threads, Agents, Idle
<1>5. FlagsBacked'
  BY <1>1 DEF IInv, Core, FlagsBacked, Lives, Promised, Promise, Threads, Agents
<1> QED
  BY <1>2, <1>3, <1>4, <1>5 DEF Core

(* The agendas of the code: no governed loop is spawned but by the start   *)
(* that installed it                                                       *)
Lists == {q \in Seq(Steps) : Clean(q)}
SomeId == Ids \cup {None}

LEMMA ListParts ==
    /\ <<>> \in Lists
    /\ \A s \in Steps : ~SpawnOf(s) => <<s>> \in Lists
    /\ \A q, r \in Lists : q \o r \in Lists
<1>1. <<>> \in Lists
  BY TodoFew DEF Lists, Clean
<1>2. ASSUME NEW s \in Steps, ~SpawnOf(s) PROVE <<s>> \in Lists
  BY <1>2, TodoFew DEF Lists, Clean
<1>3. ASSUME NEW q \in Lists, NEW r \in Lists PROVE q \o r \in Lists
  <2>1. q \in Seq(Steps) /\ r \in Seq(Steps)
    BY DEF Lists
  <2>2. q \o r \in Seq(Steps) /\ Todo(q \o r) = Todo(q) \cup Todo(r)
    BY <2>1, TodoConcat
  <2> QED
    BY <2>2 DEF Lists, Clean
<1> QED
  BY <1>1, <1>2, <1>3

LEMMA StepKinds ==
    /\ \A k \in Kinds : Stop(k) \in Steps /\ ~SpawnOf(Stop(k))
    /\ \A k \in Kinds, g \in Nat, b \in BOOLEAN : Signal(k, g, b) \in Steps /\ ~SpawnOf(Signal(k, g, b))
    /\ \A k \in Kinds, id \in SomeId : Install(k, id) \in Steps /\ ~SpawnOf(Install(k, id))
    /\ \A g \in Nat \ {0}, id \in SomeId : Spawn("sync", g, id) \in Steps /\ ~SpawnOf(Spawn("sync", g, id))
    /\ \A k \in Kinds, g \in Nat \ {0}, id \in SomeId : Spawn(k, g, id) \in Steps
    /\ StartTasks \in Steps /\ ~SpawnOf(StartTasks)
    /\ \A id \in SomeId : /\ Decide(id) \in Steps /\ ~SpawnOf(Decide(id))
                          /\ \A st \in {"none", "online", "denied"} :
                               Commit(id, st) \in Steps /\ ~SpawnOf(Commit(id, st))
BY DEF Steps, Step, SomeId, SpawnOf, Stop, Signal, Install, Spawn, StartTasks, Decide, Commit

LEMMA PlanParts ==
    /\ StopAll \in Lists
    /\ \A k \in Kinds, id \in SomeId : Restart(k, id) \in Lists
    /\ \A id \in SomeId : StartAll(id) \in Lists /\ RestartTimers(id) \in Lists
<1>1. ASSUME NEW s \in Steps, NEW t \in Steps, ~SpawnOf(s), ~SpawnOf(t)
      PROVE  <<s, t>> \in Lists
  <2>1. <<s, t>> \in Seq(Steps) /\ Todo(<<s, t>>) \subseteq {s, t}
    BY DEF Todo
  <2> QED
    BY <1>1, <2>1 DEF Lists, Clean
<1>2. StopAll \in Lists
  <2>1. StopAll = <<Stop("sync"), Stop("auto")>> \o <<Stop("heartbeat"), Stop("support")>>
    BY StepKinds DEF StopAll
  <2> QED
    BY <1>1, <2>1, StepKinds, ListParts
<1>3. ASSUME NEW k \in Kinds, NEW id \in SomeId PROVE Restart(k, id) \in Lists
  BY <1>1, StepKinds DEF Restart
<1>4. ASSUME NEW id \in SomeId PROVE StartAll(id) \in Lists /\ RestartTimers(id) \in Lists
  <2>1. /\ Restart("auto", id) \in Lists /\ Restart("heartbeat", id) \in Lists
        /\ <<Install("support", id)>> \in Lists
    BY <1>3, StepKinds, ListParts
  <2> QED
    BY <2>1, ListParts DEF StartAll, RestartTimers
<1> QED
  BY <1>2, <1>3, <1>4

LEMMA Planned ==
    ASSUME IInv, NEW a \in Agents, Idle(a), NEW q \in Lists, a \in Procs \/ a[1] # "sync" \/ q = <<>>
    PROVE  Keeps(a, q)
<1>1. a \in Procs => a \notin Threads
  BY DEF IInv, Types, ThreadTypes
<1> QED
  BY <1>1, TodoFew DEF Keeps, Lists, Idle

LEMMA Popped ==
    ASSUME IInv, NEW a \in Agents, ~Idle(a), NEW q \in Lists,
           \A k \in Kinds : host /\ running[k] /\ Promise(Head(agenda[a]), k) =>
             \E t \in Todo(q) : Promise(t, k)
    PROVE  Keeps(a, q \o Tail(agenda[a]))
<1>1. agenda[a] \in Seq(Steps) /\ agenda[a] # <<>>
  BY DEF IInv, Types, ThreadTypes, Idle, Agents
<1>2. /\ Todo(agenda[a]) = {Head(agenda[a])} \cup Todo(Tail(agenda[a]))
      /\ Tail(agenda[a]) \in Seq(Steps)
  BY <1>1, TodoTail
<1>3. Tail(agenda[a]) \in Lists
  BY <1>2 DEF Lists, IInv, Core, SpawnsFirst
<1>4. q \o Tail(agenda[a]) \in Lists
  BY <1>3, ListParts
<1>5. Todo(q \o Tail(agenda[a])) = Todo(q) \cup Todo(Tail(agenda[a]))
  <2> DEFINE r == Tail(agenda[a])
  <2>1. q \in Seq(Steps) /\ r \in Seq(Steps)
    BY <1>2 DEF Lists
  <2> HIDE DEF r
  <2>2. Todo(q \o r) = Todo(q) \cup Todo(r)
    BY <2>1, TodoConcat
  <2> QED
    BY <2>2 DEF r
<1>6. a \in Threads => a[1] # "sync"
  BY DEF IInv, Core, SyncPlansNothing
<1> QED
  BY <1>2, <1>4, <1>5, <1>6 DEF Keeps, Lists

-----------------------------------------------------------------------------
(* The steps of a start or a stop                                          *)

LEMMA HeadIsStep ==
    ASSUME IInv, NEW a \in Agents, ~Idle(a)
    PROVE  /\ agenda[a] \in Seq(Steps) /\ agenda[a] # <<>>
           /\ Head(agenda[a]) \in Steps /\ Tail(agenda[a]) \in Lists
           /\ Todo(agenda[a]) = {Head(agenda[a])} \cup Todo(Tail(agenda[a]))
           /\ a \in Threads => a[1] # "sync"
<1>1. agenda[a] \in Seq(Steps) /\ agenda[a] # <<>>
  BY DEF IInv, Types, ThreadTypes, Idle, Agents
<1>2. /\ Head(agenda[a]) \in Steps /\ Tail(agenda[a]) \in Seq(Steps)
      /\ Todo(agenda[a]) = {Head(agenda[a])} \cup Todo(Tail(agenda[a]))
  BY <1>1, TodoTail
<1>3. Clean(Tail(agenda[a])) /\ (a \in Threads => a[1] # "sync")
  BY DEF IInv, Core, SpawnsFirst, SyncPlansNothing
<1> QED
  BY <1>1, <1>2, <1>3 DEF Lists

LEMMA StopLoopKeeps ==
    ASSUME IInv, NEW a, StopLoop(a)
    PROVE  ControlTypes' /\ ThreadTypes' /\ Core'
<1> DEFINE k == Head(agenda[a]).kind
           r == Tail(agenda[a])
           steps == IF sender[k] = 0 /\ ~running[k] THEN <<>>
                    ELSE <<Signal(k, sender[k], k = "auto" /\ running[k])>>
           q == steps \o r
<1>1. a \in Agents /\ ~Idle(a) /\ Head(agenda[a]).do = "stop"
  BY DEF StopLoop, Next1
<1>2. /\ k \in Kinds /\ r \in Lists /\ Head(agenda[a]) \in Steps
      /\ Todo(agenda[a]) = {Head(agenda[a])} \cup Todo(r)
      /\ a \in Threads => a[1] # "sync"
  BY <1>1, HeadIsStep DEF Steps, Step
<1>3. /\ sender' = [sender EXCEPT ![k] = 0] /\ thread' = thread /\ host' = host
      /\ IF k = "sync" THEN UNCHANGED <<running, gen>>
         ELSE running' = [running EXCEPT ![k] = FALSE] /\ gen' = [gen EXCEPT ![k] = @ + 1]
      /\ agenda' = [agenda EXCEPT ![a] = q]
  BY DEF StopLoop, Then, TakeSender, env
<1>4. steps \in Lists
  <2>1. running[k] \in BOOLEAN /\ sender[k] \in Nat
    BY <1>2 DEF IInv, Types, ControlTypes
  <2>2. Signal(k, sender[k], k = "auto" /\ running[k]) \in Steps
        /\ ~SpawnOf(Signal(k, sender[k], k = "auto" /\ running[k]))
    BY <1>2, <2>1, StepKinds
  <2> QED
    BY <2>2, ListParts
<1>5. q \in Lists /\ Todo(q) = Todo(steps) \cup Todo(r)
  <2> HIDE DEF steps, r
  <2>1. steps \in Seq(Steps) /\ r \in Seq(Steps)
    BY <1>2, <1>4 DEF Lists
  <2> QED
    BY <1>2, <1>4, <2>1, ListParts, TodoConcat
<1>6. /\ ControlTypes' /\ Switched'
      /\ \A j \in Kinds : gen[j] <= gen'[j]
      /\ \A j \in Kinds : running'[j] => j # k /\ running[j] /\ gen'[j] = gen[j]
  <2> HIDE DEF k, q, steps, r
  <2>1. /\ running \in [Kinds -> BOOLEAN] /\ gen \in [Kinds -> Nat] /\ sender \in [Kinds -> Nat]
        /\ ~running["sync"]
        /\ k \in Kinds
        /\ \A j \in Governed : (running[j] => sender[j] # 0)
                             /\ (sender[j] # 0 => running[j] /\ sender[j] = gen[j])
    BY <1>2 DEF IInv, Types, ControlTypes, Core, Switched
  <2>2. ControlTypes'
    <3>1. sender' \in [Kinds -> Nat]
      BY <1>3, <2>1
    <3>2. CASE k = "sync"
      BY <1>3, <2>1, <3>1, <3>2 DEF ControlTypes
    <3>3. CASE k # "sync"
      <4>1. gen[k] + 1 \in Nat
        BY <2>1
      <4>2. running' \in [Kinds -> BOOLEAN] /\ gen' \in [Kinds -> Nat]
        BY <1>3, <2>1, <3>3, <4>1
      <4> QED
        BY <3>1, <4>2 DEF ControlTypes
    <3> QED
      BY <3>2, <3>3
  <2>3. \A j \in Kinds : j # k => running'[j] = running[j] /\ gen'[j] = gen[j] /\ sender'[j] = sender[j]
    BY <1>3, <2>1
  <2>4. sender'[k] = 0 /\ ~running'[k] /\ gen[k] <= gen'[k]
    BY <1>3, <2>1
  <2> QED
    BY <2>1, <2>2, <2>3, <2>4 DEF Switched
<1> HIDE DEF q, steps, r
<1>7. /\ Threads' = Threads /\ Agents' = Agents
      /\ agenda'[a] = q /\ \A b \in Agents : b # a => agenda'[b] = agenda[b]
      /\ ThreadTypes' /\ SpawnsFirst' /\ SyncPlansNothing'
  <2>1. q \in Seq(Steps) /\ (q # <<>> => Clean(Tail(q)))
    BY <1>5, NoSpawn DEF Lists
  <2>2. thread' \in [Threads -> ThreadStates]
    BY <1>3 DEF IInv, Types, ThreadTypes
  <2> QED
    BY <1>1, <1>2, <1>3, <2>1, <2>2, Shelved
<1>8. OwnGenerations'
  BY <1>1, <1>5, <1>6, <1>7, GenerationsStay DEF Lists
<1>9. ASSUME NEW j \in Kinds, host', running'[j]
      PROVE  Lives(j)' \/ Promised(j)'
  <2>1. /\ j # k /\ running[j] /\ gen'[j] = gen[j]
        /\ Lives(j) \/ Promised(j)
    BY <1>3, <1>6, <1>9 DEF IInv, Core, FlagsBacked
  <2>2. \A s : Promise(s, j)' <=> Promise(s, j)
    BY <2>1 DEF Promise
  <2>3. CASE Lives(j)
    BY <1>3, <1>7, <2>1, <2>3 DEF Lives
  <2>4. CASE Promised(j)
    <3>1. PICK b \in Agents : \E s \in Todo(agenda[b]) : Promise(s, j)
      BY <2>4 DEF Promised
    <3>2. PICK s \in Todo(agenda[b]) : Promise(s, j)
      BY <3>1
    <3>3. s \in Todo(agenda'[b])
      BY <1>2, <1>5, <1>7, <2>1, <3>2 DEF Promise
    <3> QED
      BY <1>7, <2>2, <3>2, <3>3 DEF Promised
  <2> QED
    BY <2>1, <2>3, <2>4
<1> QED
  BY <1>6, <1>7, <1>8, <1>9 DEF Core, FlagsBacked

LEMMA InstallKeeps ==
    ASSUME IInv, NEW a, InstallLoop(a),
           LET k == Head(agenda[a]).kind IN k \in Enabled /\ (k = "support" => ~running[k])
    PROVE  ControlTypes' /\ ThreadTypes' /\ Core'
<1> DEFINE k == Head(agenda[a]).kind
           g == gen[k] + 1
           id == Head(agenda[a]).lic
           r == Tail(agenda[a])
           q == (IF k = "sync" THEN <<>> ELSE <<Spawn(k, g, id)>>) \o r
<1>1. a \in Agents /\ ~Idle(a) /\ Head(agenda[a]).do = "install"
  BY DEF InstallLoop, Next1
<1>2. /\ k \in Kinds /\ id \in SomeId /\ r \in Lists /\ r \in Seq(Steps)
      /\ Todo(agenda[a]) = {Head(agenda[a])} \cup Todo(r)
      /\ a \in Threads => a[1] # "sync"
  BY <1>1, HeadIsStep DEF Steps, Step, SomeId, Lists
<1>3. /\ gen' = [gen EXCEPT ![k] = g] /\ running' = [running EXCEPT ![k] = k # "sync"]
      /\ sender' = [sender EXCEPT ![k] = g] /\ thread' = thread /\ host' = host
      /\ agenda' = [agenda EXCEPT ![a] = q]
  BY DEF InstallLoop, Then, env
<1>4. q \in Seq(Steps) /\ (q # <<>> => Clean(Tail(q))) /\ (Clean(q) \/ Fresh(Head(q)))
      /\ Todo(r) \subseteq Todo(q) /\ (k # "sync" => Spawn(k, g, id) \in Todo(q))
  <2>1. gen[k] \in Nat /\ g \in Nat \ {0} /\ ~(g <= gen[k]) /\ gen'[k] = g /\ g <= g
    <3> HIDE DEF k, q, r
    <3>1. gen \in [Kinds -> Nat] /\ k \in Kinds
      BY <1>2 DEF IInv, Types, ControlTypes
    <3>2. gen[k] \in Nat /\ gen'[k] = g
      BY <1>3, <3>1
    <3> QED
      BY <3>2
  <2>2. CASE k = "sync"
    <3>1. q = r
      BY <1>2, <2>2, ConcatEmptySeq
    <3> HIDE DEF q, r
    <3> QED
      BY <1>2, <2>2, <3>1, NoSpawn DEF Lists
  <2>3. CASE k # "sync"
    <3> DEFINE s == Spawn(k, g, id)
    <3>1. s \in Steps
      BY <1>2, <2>1, StepKinds
    <3>2. q = <<s>> \o r
      BY <2>3
    <3>3. Fresh(s)
      BY <1>2, <2>1, <2>3 DEF Fresh, Spawn
    <3> HIDE DEF q, r, s
    <3>4. q \in Seq(Steps) /\ q # <<>> /\ Head(q) = s /\ Tail(q) = r
      BY <1>2, <3>1, <3>2, Pushed
    <3>5. Todo(q) = {s} \cup Todo(r)
      BY <3>4, TodoTail
    <3> QED
      BY <1>2, <3>3, <3>4, <3>5 DEF Lists, s
  <2> QED
    BY <2>2, <2>3
<1>5. /\ ControlTypes' /\ Switched'
      /\ \A j \in Kinds : gen[j] <= gen'[j]
      /\ \A j \in Kinds : j # k => running'[j] = running[j] /\ gen'[j] = gen[j]
      /\ gen'[k] = g /\ (k = "sync" => ~running'[k])
  <2> HIDE DEF k, q, r
  <2>1. /\ running \in [Kinds -> BOOLEAN] /\ gen \in [Kinds -> Nat] /\ sender \in [Kinds -> Nat]
        /\ ~running["sync"]
        /\ k \in Kinds
        /\ \A j \in Governed : (running[j] => sender[j] # 0)
                             /\ (sender[j] # 0 => running[j] /\ sender[j] = gen[j])
    BY <1>2 DEF IInv, Types, ControlTypes, Core, Switched
  <2>a. g \in Nat \ {0} /\ gen[k] <= g
    <3>1. gen[k] \in Nat
      BY <2>1
    <3> QED
      BY <3>1
  <2> HIDE DEF g
  <2>2. ControlTypes'
    BY <1>3, <2>1, <2>a DEF ControlTypes
  <2>3. \A j \in Kinds : j # k => running'[j] = running[j] /\ gen'[j] = gen[j] /\ sender'[j] = sender[j]
    BY <1>3, <2>1
  <2>4. sender'[k] = g /\ gen'[k] = g /\ running'[k] = (k # "sync")
    BY <1>3, <2>1
  <2>5. \A j \in Kinds : gen[j] <= gen'[j]
    BY <2>1, <2>a, <2>3, <2>4
  <2>6. Switched'
    BY <2>1, <2>a, <2>3, <2>4 DEF Switched
  <2> QED
    BY <2>2, <2>3, <2>4, <2>5, <2>6
<1> HIDE DEF q, r
<1>6. /\ Threads' = Threads /\ Agents' = Agents
      /\ agenda'[a] = q /\ \A b \in Agents : b # a => agenda'[b] = agenda[b]
      /\ ThreadTypes' /\ SpawnsFirst' /\ SyncPlansNothing'
  <2>1. thread' \in [Threads -> ThreadStates]
    BY <1>3 DEF IInv, Types, ThreadTypes
  <2> QED
    BY <1>1, <1>2, <1>3, <1>4, <2>1, Shelved
<1>7. OwnGenerations'
  BY <1>1, <1>4, <1>5, <1>6, GenerationsStay
<1>8. ASSUME NEW j \in Kinds, host', running'[j]
      PROVE  Lives(j)' \/ Promised(j)'
  <2>1. CASE j = k
    <3>1. k # "sync"
      BY <1>5, <1>8, <2>1
    <3>2. Spawn(k, g, id) \in Todo(agenda'[a])
      BY <1>4, <1>6, <3>1
    <3>3. /\ Spawn(k, g, id).kind = j /\ Spawn(k, g, id).do = "spawn"
          /\ Spawn(k, g, id).gen = gen'[j]
      BY <1>5, <2>1 DEF Spawn
    <3>4. \E s \in Todo(agenda'[a]) : s.kind = j /\ s.do = "spawn" /\ s.gen = gen'[j]
      <4> HIDE DEF k, g, id
      <4> QED
        BY <3>2, <3>3
    <3> HIDE DEF k, g, id
    <3> QED
      BY <1>1, <1>6, <3>4 DEF Promised, Promise
  <2>2. CASE j # k
    <3>1. /\ running[j] /\ gen'[j] = gen[j] /\ (Lives(j) \/ Promised(j))
      BY <1>3, <1>5, <1>8, <2>2 DEF IInv, Core, FlagsBacked
    <3>2. \A s : Promise(s, j)' <=> Promise(s, j)
      BY <3>1 DEF Promise
    <3>3. CASE Lives(j)
      BY <1>3, <1>6, <3>1, <3>3 DEF Lives
    <3>4. CASE Promised(j)
      <4>1. PICK b \in Agents : \E s \in Todo(agenda[b]) : Promise(s, j)
        BY <3>4 DEF Promised
      <4>2. PICK s \in Todo(agenda[b]) : Promise(s, j)
        BY <4>1
      <4>3. s \in Todo(agenda'[b])
        BY <1>1, <1>2, <1>4, <1>6, <4>2 DEF Promise
      <4> QED
        BY <1>6, <3>2, <4>2, <4>3 DEF Promised
    <3> QED
      BY <3>1, <3>3, <3>4
  <2> QED
    BY <2>1, <2>2
<1> QED
  BY <1>5, <1>6, <1>7, <1>8 DEF Core, FlagsBacked

LEMMA SpawnKeeps ==
    ASSUME IInv, NEW a, Next1(a, "spawn"), UNCHANGED control, host' = host,
           NEW s, s = Head(agenda[a]), NEW x, x = <<s.kind, s.gen>>,
           thread' = [y \in Threads \cup {x} |->
                        IF y = x THEN [pc |-> "spawned", lic |-> s.lic, tries |-> 0] ELSE thread[y]],
           agenda' = [y \in Agents \cup {x} |->
                        IF y = x THEN <<>> ELSE IF y = a THEN Tail(agenda[a]) ELSE agenda[y]]
    PROVE  ControlTypes' /\ ThreadTypes' /\ Core'
<1> DEFINE r == Tail(agenda[a])
<1>1. a \in Agents /\ ~Idle(a) /\ s.do = "spawn"
  BY DEF Next1
<1>2. /\ s \in Steps /\ r \in Lists /\ r \in Seq(Steps) /\ Todo(agenda[a]) = {s} \cup Todo(r)
      /\ a \in Threads => a[1] # "sync"
  BY <1>1, HeadIsStep DEF Lists
<1>3. /\ s.kind \in Kinds /\ s.gen \in Nat \ {0} /\ s.lic \in SomeId
      /\ x \in Kinds \X (Nat \ {0}) /\ x[1] = s.kind /\ x[2] = s.gen
  BY <1>1, <1>2 DEF Steps, Step, SomeId
<1>4. /\ Agents = Procs \cup Threads /\ Threads' = Threads \cup {x} /\ Agents' = Agents \cup {x}
      /\ x \notin Procs
  BY <1>3 DEF IInv, Types, ThreadTypes, Threads, Agents
<1>5. s.kind \in Governed => Spawning(a) /\ x \notin Threads /\ s.gen <= gen[s.kind]
  BY <1>1 DEF IInv, Core, OwnGenerations, Spawning, SpawnOf
<1>6. x # a
  BY <1>1, <1>2, <1>3, <1>4, <1>5
<1>7. /\ agenda'[x] = <<>> /\ agenda'[a] = r
      /\ \A b \in Agents : b # a /\ b # x => agenda'[b] = agenda[b]
      /\ thread'[x] = [pc |-> "spawned", lic |-> s.lic, tries |-> 0]
      /\ \A y \in Threads : y # x => thread'[y] = thread[y]
  BY <1>1, <1>4, <1>6
<1>8. running' = running /\ gen' = gen /\ sender' = sender
  BY DEF control
<1>9. ControlTypes' /\ Switched'
  BY <1>8 DEF IInv, Types, ControlTypes, Core, Switched
<1> HIDE DEF r
<1>10. ThreadTypes'
  <2>1. 0 \in 0..RetryDelays
    OBVIOUS
  <2>2. thread'[x] \in ThreadStates
    BY <1>3, <1>7, <2>1 DEF ThreadStates, PCs, SomeId
  <2>3. \A y \in Threads : thread[y] \in ThreadStates
    BY DEF IInv, Types, ThreadTypes
  <2>4. \A b \in Agents : agenda[b] \in Seq(Steps)
    BY <1>4 DEF IInv, Types, ThreadTypes
  <2>5. Threads' \subseteq Kinds \X (Nat \ {0})
    BY <1>3, <1>4 DEF IInv, Types, ThreadTypes
  <2>6. thread' \in [Threads' -> ThreadStates]
    BY <1>4, <1>7, <2>2, <2>3
  <2>7. \A b \in Agents' : agenda'[b] \in Seq(Steps)
    <3>1. <<>> \in Seq(Steps)
      OBVIOUS
    <3> QED
      BY <1>2, <1>4, <1>7, <2>4, <3>1
  <2>8. agenda' \in [Procs \cup Threads' -> Seq(Steps)]
    BY <1>4, <2>7
  <2> QED
    BY <2>5, <2>6, <2>8 DEF ThreadTypes
<1>11. \A b \in Agents' : Spawning(b)' => b \in Agents /\ b # a /\ b # x /\ Spawning(b) /\ agenda'[b] = agenda[b]
  <2>1. r # <<>> => ~SpawnOf(Head(r))
    BY <1>2, NoSpawn DEF Lists
  <2> QED
    BY <1>4, <1>7, <2>1 DEF Spawning, Idle
<1>12. SpawnsFirst'
  <2>1. r # <<>> => Clean(Tail(r))
    BY <1>2, NoSpawn DEF Lists
  <2>2. \A b \in Agents : b # a /\ b # x /\ agenda'[b] # <<>> => Clean(Tail(agenda'[b]))
    BY <1>7 DEF IInv, Core, SpawnsFirst, Idle
  <2> QED
    BY <1>4, <1>7, <2>1, <2>2 DEF SpawnsFirst, Idle
<1>13. SyncPlansNothing'
  BY <1>2, <1>4, <1>7 DEF IInv, Core, SyncPlansNothing, Idle
<1>14. OwnGenerations'
  <2>1. \A y \in Threads' : y[1] \in Governed => y[2] <= gen'[y[1]]
    BY <1>3, <1>4, <1>5, <1>8 DEF IInv, Core, OwnGenerations
  <2>2. ASSUME NEW b \in Agents', Spawning(b)'
        PROVE  LET t == Head(agenda'[b]) IN
                 t.gen <= gen'[t.kind] /\ <<t.kind, t.gen>> \notin Threads'
    <3> DEFINE t == Head(agenda[b])
    <3>1. b \in Agents /\ b # a /\ Spawning(b) /\ agenda'[b] = agenda[b]
      BY <1>11, <2>2
    <3>2. t.gen <= gen[t.kind] /\ <<t.kind, t.gen>> \notin Threads /\ t.kind \in Governed
      BY <3>1 DEF IInv, Core, OwnGenerations, Spawning, SpawnOf
    <3>3. s.kind \in Governed => s.kind # t.kind \/ s.gen # t.gen
      BY <1>1, <1>5, <3>1 DEF IInv, Core, OwnGenerations
    <3> HIDE DEF t
    <3>4. <<t.kind, t.gen>> # x
      BY <3>2, <3>3
    <3>5. t.gen <= gen'[t.kind] /\ <<t.kind, t.gen>> \notin Threads'
      BY <1>4, <1>8, <3>2, <3>4
    <3> QED
      BY <3>1, <3>5 DEF t
  <2>3. ASSUME NEW b \in Agents', NEW c \in Agents', Spawning(b)', Spawning(c)', b # c
        PROVE  LET t == Head(agenda'[b])  u == Head(agenda'[c]) IN
                 t.kind # u.kind \/ t.gen # u.gen
    <3>1. /\ b \in Agents /\ Spawning(b) /\ agenda'[b] = agenda[b]
          /\ c \in Agents /\ Spawning(c) /\ agenda'[c] = agenda[c]
      BY <1>11, <2>3
    <3>2. LET t == Head(agenda[b])  u == Head(agenda[c]) IN t.kind # u.kind \/ t.gen # u.gen
      BY <2>3, <3>1 DEF IInv, Core, OwnGenerations
    <3> QED
      BY <3>1, <3>2
  <2> QED
    BY <2>1, <2>2, <2>3 DEF OwnGenerations
<1>15. ASSUME NEW k \in Kinds, host', running'[k]
       PROVE  Lives(k)' \/ Promised(k)'
  <2>1. \A t : Promise(t, k)' <=> Promise(t, k)
    BY <1>8 DEF Promise
  <2>2. running[k] /\ (Lives(k) \/ Promised(k))
    BY <1>8, <1>15 DEF IInv, Core, FlagsBacked
  <2>3. x = <<k, gen[k]>> => Lives(k)'
    BY <1>4, <1>7, <1>8 DEF Lives
  <2>4. CASE Lives(k)
    BY <1>4, <1>7, <1>8, <2>3, <2>4 DEF Lives
  <2>5. CASE Promised(k)
    <3>1. PICK b \in Agents : \E t \in Todo(agenda[b]) : Promise(t, k)
      BY <2>5 DEF Promised
    <3>2. PICK t \in Todo(agenda[b]) : Promise(t, k)
      BY <3>1
    <3>3. CASE b = a /\ t = s
      BY <1>1, <2>3, <3>2, <3>3 DEF Promise
    <3>4. CASE b = a /\ t # s
      BY <1>2, <1>4, <1>7, <2>1, <3>2, <3>4 DEF Promised
    <3>5. CASE b # a
      <4>1. b # x
        <5>1. b = x => agenda[b] = <<>>
          BY <1>3, <1>4, <1>5, <3>1 DEF IInv, Core, SyncPlansNothing, Idle
        <5> QED
          BY <3>2, <5>1, TodoFew
      <4> QED
        BY <1>4, <1>7, <2>1, <3>2, <3>5, <4>1 DEF Promised
    <3> QED
      BY <3>3, <3>4, <3>5
  <2> QED
    BY <2>2, <2>4, <2>5
<1> QED
  BY <1>9, <1>10, <1>12, <1>13, <1>14, <1>15 DEF Core, FlagsBacked

(* A thread that ends is not the one its flag stands for                   *)
LEMMA ExitKeeps ==
    ASSUME IInv, NEW x \in Threads, Idle(x), Exit(x), UNCHANGED control, host' = host,
           host => ~ShouldContinue(x) \/ thread[x].pc = "failed"
    PROVE  ControlTypes' /\ ThreadTypes' /\ Core'
<1>1. /\ Agents = Procs \cup Threads /\ x \in Kinds \X (Nat \ {0}) /\ x \notin Procs
      /\ Threads' = Threads \ {x} /\ Agents' = Agents \ {x}
  BY DEF Exit, IInv, Types, ThreadTypes, Threads, Agents
<1>2. /\ \A y \in Threads' : thread'[y] = thread[y]
      /\ \A b \in Agents' : agenda'[b] = agenda[b]
  BY <1>1 DEF Exit
<1>3. running' = running /\ gen' = gen /\ sender' = sender
  BY DEF control
<1>4. ControlTypes' /\ Switched'
  BY <1>3 DEF IInv, Types, ControlTypes, Core, Switched
<1>5. ThreadTypes'
  BY <1>1, <1>2 DEF Exit, IInv, Types, ThreadTypes
<1>6. SpawnsFirst' /\ SyncPlansNothing'
  BY <1>1, <1>2 DEF IInv, Core, SpawnsFirst, SyncPlansNothing, Idle
<1>7. \A b \in Agents' : Spawning(b)' => b \in Agents /\ Spawning(b) /\ agenda'[b] = agenda[b]
  BY <1>1, <1>2 DEF Spawning, Idle
<1>8. OwnGenerations'
  <2>1. \A y \in Threads' : y[1] \in Governed => y[2] <= gen'[y[1]]
    BY <1>1, <1>3 DEF IInv, Core, OwnGenerations
  <2>2. ASSUME NEW b \in Agents', Spawning(b)'
        PROVE  LET t == Head(agenda'[b]) IN
                 t.gen <= gen'[t.kind] /\ <<t.kind, t.gen>> \notin Threads'
    BY <1>1, <1>3, <1>7, <2>2 DEF IInv, Core, OwnGenerations
  <2>3. ASSUME NEW b \in Agents', NEW c \in Agents', Spawning(b)', Spawning(c)', b # c
        PROVE  LET t == Head(agenda'[b])  u == Head(agenda'[c]) IN
                 t.kind # u.kind \/ t.gen # u.gen
    <3>1. /\ b \in Agents /\ Spawning(b) /\ agenda'[b] = agenda[b]
          /\ c \in Agents /\ Spawning(c) /\ agenda'[c] = agenda[c]
      BY <1>7, <2>3
    <3>2. LET t == Head(agenda[b])  u == Head(agenda[c]) IN t.kind # u.kind \/ t.gen # u.gen
      BY <2>3, <3>1 DEF IInv, Core, OwnGenerations
    <3> QED
      BY <3>1, <3>2
  <2> QED
    BY <2>1, <2>2, <2>3 DEF OwnGenerations
<1>9. ASSUME NEW k \in Kinds, host', running'[k]
      PROVE  Lives(k)' \/ Promised(k)'
  <2>1. \A t : Promise(t, k)' <=> Promise(t, k)
    BY <1>3 DEF Promise
  <2>2. running[k] /\ (Lives(k) \/ Promised(k))
    BY <1>3, <1>9 DEF IInv, Core, FlagsBacked
  <2>3. CASE Lives(k)
    <3> DEFINE y == <<k, gen[k]>>
    <3>1. y \in Threads /\ thread[y].pc # "failed" /\ ShouldContinue(y)
      BY <2>2, <2>3 DEF Lives, ShouldContinue
    <3>2. y # x
      BY <1>9, <3>1
    <3> HIDE DEF y
    <3>3. y \in Threads' /\ thread'[y].pc # "failed"
      BY <1>1, <1>2, <3>1, <3>2
    <3> QED
      BY <1>3, <3>3 DEF Lives, y
  <2>4. CASE Promised(k)
    <3>1. PICK b \in Agents : \E t \in Todo(agenda[b]) : Promise(t, k)
      BY <2>4 DEF Promised
    <3>2. b # x
      BY <3>1, TodoFew DEF Idle
    <3> QED
      BY <1>1, <1>2, <2>1, <3>1, <3>2 DEF Promised
  <2> QED
    BY <2>2, <2>3, <2>4
<1> QED
  BY <1>4, <1>5, <1>6, <1>8, <1>9 DEF Core, FlagsBacked

LEMMA PopKeeps ==
    ASSUME IInv, NEW a \in Agents, ~Idle(a), NEW q \in Lists, Then(a, q),
           UNCHANGED <<control, thread, host>>,
           \A k \in Kinds : host /\ running[k] /\ Promise(Head(agenda[a]), k) =>
             \E t \in Todo(q) : Promise(t, k)
    PROVE  ControlTypes' /\ ThreadTypes' /\ Core'
<1> DEFINE p == q \o Tail(agenda[a])
<1>1. Keeps(a, p)
  BY Popped
<1>2. agenda' = [agenda EXCEPT ![a] = p]
  BY DEF Then
<1>3. thread' \in [Threads -> ThreadStates]
  BY DEF IInv, Types, ThreadTypes
<1> HIDE DEF p
<1> QED
  BY <1>1, <1>2, <1>3, Requeue

LEMMA PlanKeeps ==
    ASSUME IInv, NEW a \in Agents, Idle(a), NEW q \in Lists,
           a \in Procs \/ a[1] # "sync" \/ q = <<>>, Plan(a, q),
           UNCHANGED control, host' = host, thread' \in [Threads -> ThreadStates],
           \A x \in Threads : thread'[x].pc = "failed" =>
             \/ thread[x].pc = "failed" \/ ~ShouldContinue(x)
             \/ x[1] \in Kinds /\ Stop(x[1]) \in Todo(q)
    PROVE  ControlTypes' /\ ThreadTypes' /\ Core'
<1>1. Keeps(a, q)
  BY Planned
<1> QED
  BY <1>1, Requeue DEF Plan

(* Where a thread that goes on goes to                                     *)
Ahead == PCs \ {"failed"}

LEMMA Going ==
    ASSUME IInv, NEW x \in Threads, NEW pc \in PCs, GoTo(x, pc)
    PROVE  /\ thread' \in [Threads -> ThreadStates] /\ thread'[x].pc = pc
           /\ \A y \in Threads : y # x => thread'[y] = thread[y]
<1> DEFINE t == [thread[x] EXCEPT !.pc = pc]
<1>1. thread \in [Threads -> ThreadStates]
  BY DEF IInv, Types, ThreadTypes
<1>2. thread[x] \in ThreadStates
  BY <1>1
<1>3. t \in ThreadStates /\ t.pc = pc
  BY <1>2 DEF ThreadStates
<1>4. thread' = [thread EXCEPT ![x] = t]
  BY DEF GoTo
<1> HIDE DEF t
<1> QED
  BY <1>1, <1>3, <1>4

LEMMA MoveKeeps ==
    ASSUME IInv, NEW x \in Threads, Idle(x), UNCHANGED <<agenda, control, host>>,
           thread' \in [Threads -> ThreadStates], thread'[x].pc # "failed",
           \A y \in Threads : y # x => thread'[y] = thread[y]
    PROVE  ControlTypes' /\ ThreadTypes' /\ Core'
<1>1. Plan(x, <<>>) /\ x \in Agents
  BY DEF Plan, Idle, IInv, Types, ThreadTypes, Agents
<1>2. \A y \in Threads : thread'[y].pc = "failed" => thread[y].pc = "failed"
  OBVIOUS
<1> QED
  BY <1>1, <1>2, ListParts, PlanKeeps DEF control

LEMMA GoToKeeps ==
    ASSUME IInv, NEW x \in Threads, Idle(x), NEW pc \in Ahead, GoTo(x, pc),
           UNCHANGED <<agenda, control, host>>
    PROVE  ControlTypes' /\ ThreadTypes' /\ Core'
<1>1. /\ thread' \in [Threads -> ThreadStates] /\ thread'[x].pc = pc
      /\ \A y \in Threads : y # x => thread'[y] = thread[y]
  BY Going DEF Ahead
<1> QED
  BY <1>1, MoveKeeps DEF Ahead

LEMMA AgendaKeeps ==
    ASSUME IInv, NEW a, AgendaStep(a)
    PROVE  StateTypes' /\ ControlTypes' /\ ThreadTypes' /\ Core'
<1> DEFINE s == Head(agenda[a])
<1>1. /\ a \in Agents /\ ~Idle(a)
      /\ s \in Steps /\ s.kind \in Kinds /\ s.lic \in SomeId
  <2>1. a \in Agents /\ ~Idle(a)
    BY DEF AgendaStep, StopLoop, SendSignal, InstallLoop, SpawnLoop, StartForCurrent,
           CommitDecision, DecideOffline, Next1
  <2> QED
    BY <2>1, HeadIsStep DEF Steps, Step, SomeId
<1>2. <<>> \in Lists
  BY ListParts
<1>3. CASE StopLoop(a)
  <2>1. StateTypes'
    BY <1>3 DEF StopLoop, IInv, Types, StateTypes, state, env
  <2> QED
    BY <1>3, <2>1, StopLoopKeeps
<1>4. CASE SendSignal(a)
  <2>1. StateTypes'
    BY <1>4 DEF SendSignal, IInv, Types, StateTypes, state, env
  <2>2. \A k \in Kinds : ~Promise(s, k)
    BY <1>4 DEF SendSignal, Next1, Promise
  <2>3. Then(a, <<>>) /\ UNCHANGED <<control, thread, host>>
    BY <1>4 DEF SendSignal, env
  <2> QED
    BY <1>1, <1>2, <2>1, <2>2, <2>3, PopKeeps
<1>5. CASE InstallLoop(a)
  <2>1. StateTypes'
    BY <1>5 DEF InstallLoop, IInv, Types, StateTypes, state, env
  <2>2. CASE s.kind \in Enabled /\ (s.kind = "support" => ~running[s.kind])
    BY <1>5, <2>1, <2>2, InstallKeeps
  <2>3. CASE ~(s.kind \in Enabled /\ (s.kind = "support" => ~running[s.kind]))
    <3>1. Then(a, <<>>) /\ UNCHANGED <<control, thread, host>>
      BY <1>5, <2>3 DEF InstallLoop, env
    <3>2. \A k \in Kinds : ~Promise(s, k)
      BY <1>5 DEF InstallLoop, Next1, Promise
    <3> QED
      BY <1>1, <1>2, <2>1, <3>1, <3>2, PopKeeps
  <2> QED
    BY <2>2, <2>3
<1>6. CASE SpawnLoop(a)
  <2> DEFINE x == <<s.kind, s.gen>>
  <2>1. StateTypes'
    BY <1>6 DEF SpawnLoop, IInv, Types, StateTypes, state, env
  <2>2. Next1(a, "spawn") /\ UNCHANGED <<control, host>> /\ s.do = "spawn"
    BY <1>6 DEF SpawnLoop, env, Next1
  <2>3. CASE SpawnFails /\ s.kind # "sync" /\ Then(a, GiveUp(x)) /\ UNCHANGED thread
    <3>1. GiveUp(x) \in Lists
      BY <1>1, <1>2, StepKinds, ListParts DEF GiveUp
    <3>2. ASSUME NEW k \in Kinds, running[k], Promise(s, k)
          PROVE  \E t \in Todo(GiveUp(x)) : Promise(t, k)
      <4>1. s.kind = k /\ s.gen = gen[k]
        BY <2>2, <3>2 DEF Promise
      <4>2. GiveUp(x) = <<Stop(k)>>
        BY <3>2, <4>1 DEF GiveUp, ShouldContinue
      <4> QED
        BY <4>2, TodoFew DEF Promise, Stop
    <3> HIDE DEF x
    <3> QED
      BY <1>1, <2>1, <2>2, <2>3, <3>1, <3>2, PopKeeps
  <2>4. CASE /\ thread' = [y \in Threads \cup {x} |->
                              IF y = x THEN [pc |-> "spawned", lic |-> s.lic, tries |-> 0]
                                       ELSE thread[y]]
             /\ agenda' = [y \in Agents \cup {x} |->
                              IF y = x THEN <<>>
                              ELSE IF y = a THEN Tail(agenda[a]) ELSE agenda[y]]
    <3>1. s = Head(agenda[a]) /\ x = <<s.kind, s.gen>>
      OBVIOUS
    <3> HIDE DEF s, x
    <3> QED
      BY <2>1, <2>2, <2>4, <3>1, SpawnKeeps
  <2> QED
    BY <1>6, <2>3, <2>4 DEF SpawnLoop
<1>7. CASE StartForCurrent(a)
  <2> DEFINE q == IF license = None THEN <<>> ELSE StartAll(license)
  <2>1. StateTypes'
    BY <1>7 DEF StartForCurrent, IInv, Types, StateTypes, state, env
  <2>2. \A k \in Kinds : ~Promise(s, k)
    BY <1>7 DEF StartForCurrent, Next1, Promise
  <2>3. Then(a, q) /\ UNCHANGED <<control, thread, host>>
    BY <1>7 DEF StartForCurrent, env
  <2>4. q \in Lists
    BY <1>2, PlanParts DEF IInv, Types, StateTypes, SomeId
  <2> HIDE DEF q
  <2> QED
    BY <1>1, <2>1, <2>2, <2>3, <2>4, PopKeeps
<1>8. CASE CommitDecision(a)
  <2>1. StateTypes'
    BY <1>1, <1>8 DEF CommitDecision, IInv, Types, StateTypes, SomeId, state, env
  <2>2. \A k \in Kinds : ~Promise(s, k)
    BY <1>8 DEF CommitDecision, Promise
  <2>3. Then(a, <<>>) /\ UNCHANGED <<control, thread, host>>
    BY <1>8 DEF CommitDecision, env
  <2> QED
    BY <1>1, <1>2, <2>1, <2>2, <2>3, PopKeeps
<1>9. CASE DecideOffline(a)
  <2>1. StateTypes'
    BY <1>9 DEF DecideOffline, IInv, Types, StateTypes, state, env
  <2>2. \A k \in Kinds : ~Promise(s, k)
    BY <1>9 DEF DecideOffline, Next1, Promise
  <2>3. Then(a, <<>>) /\ UNCHANGED <<control, thread, host>>
    BY <1>9 DEF DecideOffline, env
  <2> QED
    BY <1>1, <1>2, <2>1, <2>2, <2>3, PopKeeps
<1> QED
  BY <1>3, <1>4, <1>5, <1>6, <1>7, <1>8, <1>9 DEF AgendaStep

-----------------------------------------------------------------------------
(* The calls of the host and the steps of the loops                        *)

LEMMA CallKeeps ==
    ASSUME IInv, NEW p \in Procs, CallStep(p)
    PROVE  StateTypes' /\ ControlTypes' /\ ThreadTypes' /\ Core'
<1>1. p \in Agents
  BY DEF IInv, Types, ThreadTypes, Agents
<1>2. StateTypes'
  BY DEF CallStep, Activate, Reset, StopTasks, StartTasksCall, Restore, IInv, Types, StateTypes, state
<1>3. Idle(p) /\ UNCHANGED <<control, thread, host>>
  BY DEF CallStep, Activate, Reset, StopTasks, StartTasksCall, Restore, MayCall
<1>4. ASSUME NEW q \in Lists, Plan(p, q)
      PROVE  ControlTypes' /\ ThreadTypes' /\ Core'
  <2>1. /\ thread' \in [Threads -> ThreadStates] /\ thread' = thread
    BY <1>3 DEF IInv, Types, ThreadTypes
  <2>2. \A x \in Threads : thread'[x].pc = "failed" => thread[x].pc = "failed"
    BY <2>1
  <2> QED
    BY <1>1, <1>3, <1>4, <2>1, <2>2, PlanKeeps DEF control
<1>5. license \in SomeId /\ None \in SomeId /\ gen["sync"] + 1 \in Nat \ {0}
  BY DEF IInv, Types, StateTypes, ControlTypes, SomeId
<1>6. /\ StopAll \in Lists /\ <<StartTasks>> \in Lists /\ <<>> \in Lists
      /\ \A id \in SomeId :
           /\ <<Commit(id, "online")>> \in Lists /\ <<Commit(id, "denied")>> \in Lists
           /\ <<Commit(id, "none")>> \in Lists
           /\ <<Install("sync", id)>> \in Lists /\ <<Install("support", id)>> \in Lists
           /\ <<Spawn("sync", gen["sync"] + 1, id)>> \in Lists /\ <<Decide(id)>> \in Lists
  BY <1>5, ListParts, StepKinds, PlanParts
<1>7. CASE Activate(p)
  <2>1. PICK id \in Ids :
          Plan(p, StopAll \o <<Install("sync", id), Commit(id, "online"), StartTasks>>
                  \o IF "sync" \in Enabled THEN <<Spawn("sync", gen["sync"] + 1, id)>> ELSE <<>>)
    BY <1>7 DEF Activate
  <2> DEFINE m == <<Install("sync", id), Commit(id, "online"), StartTasks>>
             e == IF "sync" \in Enabled THEN <<Spawn("sync", gen["sync"] + 1, id)>> ELSE <<>>
  <2>2. m = <<Install("sync", id)>> \o (<<Commit(id, "online")>> \o <<StartTasks>>)
    OBVIOUS
  <2>3. m \in Lists /\ e \in Lists
    <3>1. id \in SomeId
      BY DEF SomeId
    <3> QED
      BY <1>6, <2>2, <3>1, ListParts
  <2> HIDE DEF m, e
  <2>4. StopAll \o m \o e \in Lists
    BY <1>6, <2>3, ListParts
  <2> QED
    BY <1>2, <1>4, <2>1, <2>4 DEF m, e
<1>8. CASE Reset(p)
  <2>1. StopAll \o <<Commit(None, "none")>> \in Lists
    BY <1>5, <1>6, ListParts
  <2> QED
    BY <1>2, <1>4, <1>8, <2>1 DEF Reset
<1>9. CASE StopTasks(p) \/ StartTasksCall(p)
  BY <1>2, <1>4, <1>6, <1>9 DEF StopTasks, StartTasksCall
<1>10. CASE Restore(p)
  <2>1. /\ StopAll \o <<Commit(license, "denied")>> \in Lists
        /\ <<Install("support", license)>> \in Lists
    BY <1>5, <1>6, ListParts
  <2> DEFINE q == <<Install("support", license), Decide(license), StartTasks>>
  <2>2. q = <<Install("support", license)>> \o (<<Decide(license)>> \o <<StartTasks>>)
    OBVIOUS
  <2>3. q \in Lists
    BY <1>5, <1>6, <2>2, ListParts
  <2> HIDE DEF q
  <2>4. \/ Plan(p, <<StartTasks>>) \/ Plan(p, StopAll \o <<Commit(license, "denied")>>)
        \/ Plan(p, <<Install("support", license)>>) \/ Plan(p, q)
    BY <1>10 DEF Restore, q
  <2> QED
    BY <1>2, <1>4, <1>6, <2>1, <2>3, <2>4
<1> QED
  BY <1>7, <1>8, <1>9, <1>10 DEF CallStep

LEMMA AnswerKeeps ==
    ASSUME IInv, NEW x \in Threads, Idle(x), x[1] # "sync", NEW back \in Ahead,
           NEW onValid \in Lists, Answer(x, back, onValid)
    PROVE  StateTypes' /\ ControlTypes' /\ ThreadTypes' /\ Core'
<1> DEFINE l == thread[x].lic
<1>1. /\ x \in Agents /\ l \in SomeId
  BY DEF IInv, Types, ThreadTypes, ThreadStates, SomeId, Agents
<1>2. StateTypes'
  BY DEF Answer, IInv, Types, StateTypes, env
<1>3. GoTo(x, back) /\ UNCHANGED <<control, host>>
  BY DEF Answer, env
<1>4. /\ thread' \in [Threads -> ThreadStates] /\ thread'[x].pc # "failed"
      /\ \A y \in Threads : y # x => thread'[y] = thread[y]
  BY <1>3, Going DEF Ahead
<1>5. ASSUME NEW q \in Lists, Plan(x, q)
      PROVE  ControlTypes' /\ ThreadTypes' /\ Core'
  <2>1. \A y \in Threads : thread'[y].pc = "failed" => thread[y].pc = "failed"
    BY <1>4
  <2> QED
    BY <1>1, <1>3, <1>4, <1>5, <2>1, PlanKeeps DEF control
<1>6. /\ <<>> \in Lists /\ StopAll \in Lists /\ <<Commit(l, "denied")>> \in Lists
      /\ <<Install("support", l)>> \in Lists /\ <<Decide(l)>> \in Lists
  BY <1>1, ListParts, StepKinds, PlanParts
<1> HIDE DEF l
<1> DEFINE d == <<Install("support", l), Decide(l)>>
<1>7. d \in Lists /\ StopAll \o <<Commit(l, "denied")>> \in Lists
  <2>1. d = <<Install("support", l)>> \o <<Decide(l)>>
    OBVIOUS
  <2> QED
    BY <1>6, <2>1, ListParts
<1> HIDE DEF d
<1>8. d \o <<>> \in Lists /\ d \o onValid \in Lists
  BY <1>6, <1>7, ListParts
<1>9. \/ Plan(x, <<>>) \/ Plan(x, onValid) \/ Plan(x, StopAll \o <<Commit(l, "denied")>>)
      \/ Plan(x, <<Install("support", l)>>) \/ Plan(x, d \o <<>>) \/ Plan(x, d \o onValid)
  BY DEF Answer, l, d
<1> QED
  BY <1>2, <1>5, <1>6, <1>7, <1>8, <1>9

(* A loop that finds itself cancelled, unwanted, or without the SDK is not *)
(* the one its flag stands for, as long as the host holds the SDK          *)
LEMMA NotWanted ==
    ASSUME IInv, host, NEW x \in Threads, ~Alive \/ ~ShouldContinue(x) \/ Cancelled(x)
    PROVE  ~ShouldContinue(x)
<1>1. Alive
  BY DEF Alive
<1>2. x[1] \in Kinds /\ (ShouldContinue(x) => sender[x[1]] = x[2])
  BY DEF IInv, Types, ThreadTypes, Core, Switched, ShouldContinue
<1> QED
  BY <1>1, <1>2 DEF Cancelled

LEMMA LoopKeeps ==
    ASSUME IInv, NEW x, LoopStep(x)
    PROVE  StateTypes' /\ ControlTypes' /\ ThreadTypes' /\ Core'
<1>1. x \in Threads /\ Idle(x)
  BY DEF LoopStep, Enter, LoopEnds, Cancel, TickTooLate, TimerStep, TimerTick, TimerAnswer, CheckAfter,
         Announce, RecheckStep, RecheckTick, Probe, RecheckAnswer, SyncStep, SyncAttempt, SyncOutcome, LoopAt
<1>2. /\ x \in Agents /\ x[1] \in Kinds /\ license \in SomeId /\ thread[x].lic \in SomeId
      /\ thread \in [Threads -> ThreadStates] /\ thread[x] \in ThreadStates
  BY <1>1 DEF IInv, Types, StateTypes, ThreadTypes, ThreadStates, SomeId, Agents
<1>3. UNCHANGED <<control, host>>
  BY DEF LoopStep, Enter, LoopEnds, Cancel, TickTooLate, TimerStep, TimerTick, TimerAnswer, CheckAfter,
         Announce, RecheckStep, RecheckTick, Probe, RecheckAnswer, SyncStep, SyncAttempt, SyncOutcome,
         Answer, Untouched, env
<1>4. ASSUME Exit(x), ~Alive \/ ~ShouldContinue(x) \/ Cancelled(x) \/ thread[x].pc = "failed"
      PROVE  ControlTypes' /\ ThreadTypes' /\ Core'
  BY <1>1, <1>3, <1>4, NotWanted, ExitKeeps DEF control
<1>5. ASSUME NEW pc \in Ahead, GoTo(x, pc), UNCHANGED agenda
      PROVE  ControlTypes' /\ ThreadTypes' /\ Core'
  BY <1>1, <1>3, <1>5, GoToKeeps DEF control
<1>6. {"asleep", "busy", "probe", "after", "cycle"} \subseteq Ahead
  BY DEF Ahead, PCs
<1>7. x[1] = "sync" => ~ShouldContinue(x)
  BY DEF ShouldContinue, IInv, Core, Switched
<1>8. CASE Enter(x)
  <2>1. StateTypes'
    BY <1>8 DEF Enter, Untouched, IInv, Types, StateTypes, state, env
  <2>2. CASE GoTo(x, "asleep") /\ UNCHANGED agenda
    BY <1>5, <1>6, <2>1, <2>2
  <2>3. CASE GoTo(x, "cycle") /\ UNCHANGED agenda
    BY <1>5, <1>6, <2>1, <2>3
  <2>4. CASE Exit(x) /\ (~Alive \/ ~ShouldContinue(x))
    BY <1>4, <2>1, <2>4
  <2>5. CASE x[1] # "sync" /\ GoTo(x, "failed") /\ Plan(x, GiveUp(x))
    <3>1. /\ thread' \in [Threads -> ThreadStates]
          /\ \A y \in Threads : y # x => thread'[y] = thread[y]
      BY <1>1, <2>5, Going DEF PCs
    <3>2. GiveUp(x) \in Lists
      BY <1>2, ListParts, StepKinds DEF GiveUp
    <3>3. ShouldContinue(x) => x[1] \in Kinds /\ Stop(x[1]) \in Todo(GiveUp(x))
      BY <1>2, TodoFew DEF GiveUp
    <3>4. \A y \in Threads : thread'[y].pc = "failed" =>
            \/ thread[y].pc = "failed" \/ ~ShouldContinue(y)
            \/ y[1] \in Kinds /\ Stop(y[1]) \in Todo(GiveUp(x))
      BY <3>1, <3>3
    <3> QED
      BY <1>1, <1>2, <1>3, <2>1, <2>5, <3>1, <3>2, <3>4, PlanKeeps DEF control
  <2> QED
    BY <1>8, <2>2, <2>3, <2>4, <2>5 DEF Enter
<1>9. CASE LoopEnds(x)
  <2>1. StateTypes'
    BY <1>9 DEF LoopEnds, Cancel, TickTooLate, Untouched, IInv, Types, StateTypes, state, env
  <2>2. Exit(x) /\ (~Alive \/ ~ShouldContinue(x) \/ Cancelled(x) \/ thread[x].pc = "failed")
    BY <1>9 DEF LoopEnds, Cancel, TickTooLate, LoopAt, Unwanted
  <2> QED
    BY <1>4, <2>1, <2>2
<1>10. CASE TimerTick(x)
  <2> DEFINE t == [thread[x] EXCEPT !.pc = "busy", !.lic = thread[x].lic]
  <2>1. StateTypes'
    BY <1>10 DEF TimerTick, Send, IInv, Types, StateTypes, env
  <2>2. thread' = [thread EXCEPT ![x] = t] /\ UNCHANGED agenda
    BY <1>10 DEF TimerTick, Send
  <2>3. t \in ThreadStates /\ t.pc # "failed"
    BY <1>2 DEF ThreadStates, PCs
  <2> HIDE DEF t
  <2>4. /\ thread' \in [Threads -> ThreadStates] /\ thread'[x].pc # "failed"
        /\ \A y \in Threads : y # x => thread'[y] = thread[y]
    BY <1>1, <1>2, <2>2, <2>3
  <2> QED
    BY <1>1, <1>3, <2>1, <2>2, <2>4, MoveKeeps DEF control
<1>11. CASE TimerAnswer(x)
  <2>1. /\ x[1] # "sync" /\ <<>> \in Lists
        /\ Answer(x, "after", <<>>) \/ Answer(x, "asleep", <<>>)
    BY <1>11, ListParts DEF TimerAnswer
  <2> QED
    BY <1>1, <1>6, <2>1, AnswerKeeps
<1>12. CASE CheckAfter(x)
  <2>1. StateTypes'
    BY <1>12 DEF CheckAfter, Untouched, IInv, Types, StateTypes, state, env
  <2>2. (GoTo(x, "cycle") /\ UNCHANGED agenda) \/ (Exit(x) /\ ~ShouldContinue(x))
    BY <1>12 DEF CheckAfter
  <2> QED
    BY <1>4, <1>5, <1>6, <2>1, <2>2
<1>13. CASE Announce(x)
  <2>1. StateTypes'
    BY <1>13 DEF Announce, Untouched, IInv, Types, StateTypes, state, env
  <2>2. GoTo(x, "asleep") /\ UNCHANGED agenda
    BY <1>13 DEF Announce
  <2> QED
    BY <1>5, <1>6, <2>1, <2>2
<1>14. CASE RecheckTick(x)
  <2>1. StateTypes'
    BY <1>14 DEF RecheckTick, Untouched, IInv, Types, StateTypes, state, env
  <2>2. GoTo(x, "probe") /\ UNCHANGED agenda
    BY <1>14 DEF RecheckTick
  <2> QED
    BY <1>5, <1>6, <2>1, <2>2
<1>15. CASE Probe(x)
  <2>1. StateTypes'
    BY <1>15 DEF Probe, IInv, Types, StateTypes, env
  <2>2. CASE ProbeFailed(x)
    <3>1. /\ thread' \in [Threads -> ThreadStates] /\ thread'[x].pc = "asleep"
          /\ \A y \in Threads : y # x => thread'[y] = thread[y]
      BY <1>1, <2>2, Going DEF ProbeFailed, PCs
    <3>2. <<Install("support", license)>> \in Lists
      BY <1>2, ListParts, StepKinds
    <3>3. Plan(x, <<Install("support", license)>>) /\ x[1] = "support"
      BY <1>15, <2>2 DEF Probe, ProbeFailed
    <3>4. \A y \in Threads : thread'[y].pc = "failed" => thread[y].pc = "failed"
      BY <3>1
    <3> QED
      BY <1>1, <1>2, <1>3, <2>1, <3>1, <3>2, <3>3, <3>4, PlanKeeps DEF control
  <2>3. CASE ~ProbeFailed(x)
    <3> DEFINE t == [thread[x] EXCEPT !.pc = IF license = None THEN "asleep" ELSE "busy", !.lic = license]
    <3>1. thread' = [thread EXCEPT ![x] = t] /\ UNCHANGED agenda
      BY <1>15, <2>3 DEF Probe
    <3>2. t \in ThreadStates /\ t.pc # "failed"
      BY <1>2 DEF ThreadStates, PCs, SomeId
    <3> HIDE DEF t
    <3>3. /\ thread' \in [Threads -> ThreadStates] /\ thread'[x].pc # "failed"
          /\ \A y \in Threads : y # x => thread'[y] = thread[y]
      BY <1>1, <1>2, <3>1, <3>2
    <3> QED
      BY <1>1, <1>3, <2>1, <3>1, <3>3, MoveKeeps DEF control
  <2> QED
    BY <2>2, <2>3
<1>16. CASE RecheckAnswer(x)
  <2> DEFINE q == RestartTimers(thread[x].lic)
  <2>1. q \in Lists
    BY <1>2, PlanParts
  <2>2. x[1] # "sync" /\ Answer(x, "asleep", q)
    BY <1>16 DEF RecheckAnswer
  <2> HIDE DEF q
  <2> QED
    BY <1>1, <1>6, <2>1, <2>2, AnswerKeeps
<1>17. CASE SyncAttempt(x)
  <2>1. StateTypes'
    BY <1>17 DEF SyncAttempt, Untouched, IInv, Types, StateTypes, state, env
  <2>2. (GoTo(x, "busy") /\ UNCHANGED agenda) \/ (Exit(x) /\ x[1] = "sync")
    BY <1>17 DEF SyncAttempt
  <2> QED
    BY <1>4, <1>5, <1>6, <1>7, <2>1, <2>2
<1>18. CASE SyncOutcome(x)
  <2>1. StateTypes'
    BY <1>18 DEF SyncOutcome, IInv, Types, StateTypes, env
  <2>2. CASE Exit(x)
    BY <1>4, <1>7, <1>18, <2>1, <2>2 DEF SyncOutcome
  <2>3. CASE ~Exit(x)
    <3> DEFINE t == [thread[x] EXCEPT !.pc = "asleep", !.tries = Counted(@)]
    <3>1. thread' = [thread EXCEPT ![x] = t] /\ UNCHANGED agenda /\ thread[x].tries < RetryDelays
      BY <1>18, <2>3 DEF SyncOutcome, RetriesLeft
    <3>2. thread[x].tries \in 0..RetryDelays
      BY <1>2 DEF ThreadStates
    <3>3. Counted(thread[x].tries) \in 0..RetryDelays
      BY <3>1, <3>2 DEF Counted
    <3>4. t \in ThreadStates /\ t.pc # "failed"
      BY <1>2, <3>3 DEF ThreadStates, PCs
    <3> HIDE DEF t
    <3>5. /\ thread' \in [Threads -> ThreadStates] /\ thread'[x].pc # "failed"
          /\ \A y \in Threads : y # x => thread'[y] = thread[y]
      BY <1>1, <1>2, <3>1, <3>4
    <3> QED
      BY <1>1, <1>3, <2>1, <3>1, <3>5, MoveKeeps DEF control
  <2> QED
    BY <2>2, <2>3
<1> QED
  BY <1>8, <1>9, <1>10, <1>11, <1>12, <1>13, <1>14, <1>15, <1>16, <1>17, <1>18
     DEF LoopStep, TimerStep, RecheckStep, SyncStep

-----------------------------------------------------------------------------
(* The theorems                                                            *)

LEMMA InitHolds == Init => IInv
<1> SUFFICES ASSUME Init PROVE IInv
  OBVIOUS
<1>1. Threads = {} /\ Agents = Procs /\ \A p \in Procs : agenda[p] = <<>>
  BY DEF Init, Threads, Agents
<1>2. Types
  <2>1. StateTypes /\ ControlTypes
    BY DEF Init, StateTypes, ControlTypes
  <2>2. thread \in [Threads -> ThreadStates]
    BY <1>1 DEF Init, Threads
  <2>3. agenda \in [Procs \cup Threads -> Seq(Steps)]
    <3>1. <<>> \in Seq(Steps)
      OBVIOUS
    <3> QED
      BY <1>1, <3>1 DEF Init
  <2> QED
    BY <1>1, <2>1, <2>2, <2>3 DEF Types, ThreadTypes
<1>3. Core
  BY <1>1 DEF Init, Core, Switched, SpawnsFirst, SyncPlansNothing, OwnGenerations, FlagsBacked, Spawning, Idle
<1> QED
  BY <1>2, <1>3 DEF IInv

LEMMA StepHolds == IInv /\ [Next]_vars => IInv'
<1> SUFFICES ASSUME IInv, [Next]_vars
             PROVE  StateTypes' /\ ControlTypes' /\ ThreadTypes' /\ Core'
  BY DEF IInv, Types
<1>1. ASSUME UNCHANGED <<license, status, isOnline, nextRun, control, thread, agenda>>, host' \in BOOLEAN,
             host' => host
      PROVE  StateTypes' /\ ControlTypes' /\ ThreadTypes' /\ Core'
  <2>1. StateTypes'
    BY <1>1 DEF IInv, Types, StateTypes
  <2> QED
    BY <1>1, <2>1, Undisturbed DEF control
<1>2. ASSUME NEW p \in Procs, CallStep(p) \/ AgendaStep(p)
      PROVE  StateTypes' /\ ControlTypes' /\ ThreadTypes' /\ Core'
  BY <1>2, CallKeeps, AgendaKeeps
<1>3. ASSUME NEW x \in Loops, AgendaStep(x) \/ LoopStep(x)
      PROVE  StateTypes' /\ ControlTypes' /\ ThreadTypes' /\ Core'
  BY <1>3, LoopKeeps, AgendaKeeps
<1>4. CASE DropHandles
  BY <1>1, <1>4 DEF DropHandles, state, control
<1>5. CASE ServerChanges
  BY <1>1, <1>5 DEF ServerChanges, state, control, IInv, Types, StateTypes
<1>6. CASE UNCHANGED vars
  BY <1>1, <1>6 DEF vars, state, env, control, IInv, Types, StateTypes
<1> QED
  BY <1>2, <1>3, <1>4, <1>5, <1>6 DEF Next

LEMMA Invariance == Spec => []IInv
<1> QED
  BY InitHolds, StepHolds, PTL DEF Spec

(* The license state, the flags and generations, the threads and what each *)
(* agent has left to do of a start or a stop are of their types.           *)
THEOREM TypeCorrect == Spec => []TypeOK
<1>1. IInv => TypeOK
  <2> SUFFICES ASSUME IInv PROVE TypeOK
    OBVIOUS
  <2>1. Agents = Procs \cup Threads /\ \A a \in Agents : agenda[a] \in Seq(Steps)
    BY DEF IInv, Types, ThreadTypes, Agents
  <2>2. \A q \in Seq(Steps) : q \in Seq(Step)
    BY DEF Steps
  <2> QED
    BY <2>1, <2>2 DEF IInv, Types, StateTypes, ControlTypes, ThreadTypes, ThreadStates, TypeOK
<1> QED
  BY <1>1, Invariance, PTL

(* "generation counters and cancellation channels govern every loop"       *)
(* (production-hardening-audit.md): however the starts and stops of host   *)
(* calls and loops overlap, and whatever fails to spawn, a loop that no    *)
(* stop is about to reach is the one its flag and generation stand for.    *)
THEOREM NoLoopEscapes == Spec => []LiveLoopIsCurrent
<1> QED
  BY Invariance, LiveLoops, PTL

(* is_auto_validating and is_heartbeat_running tell the truth: a flag that *)
(* is set when no start or stop is under way has a running loop behind it, *)
(* also after threads and runtimes that failed to start.                   *)
THEOREM FlagsTellTheTruth == Spec => []RunningIsHonest
<1> QED
  BY Invariance, HonestFlags, PTL
=============================================================================
