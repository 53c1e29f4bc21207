----------------------------- MODULE TaskControl -----------------------------
(***************************************************************************)
(* The background loops of the SDK client (client.rs): auto-validation,    *)
(* heartbeat, the support thread with its network recheck, and the short   *)
(* artifact sync after an activation.  Each loop is a thread; the calls    *)
(* that start and stop loops overlap freely, also with the loops' own      *)
(* calls.                                                                  *)
(*                                                                         *)
(* Granularity.  A section under one of the *_cancel mutexes is one step;  *)
(* a start or a stop is several, run from the agenda of the agent (a host  *)
(* call or a loop) that makes it.  Of the license state only what the      *)
(* loops look at is kept; its commits are the subject of LicenseClient.    *)
(***************************************************************************)
EXTENDS Naturals, Sequences, FiniteSets

CONSTANTS
    Procs,       \* host tasks that call the SDK
    Ids,         \* licenses
    None,        \* no license, no agent
    Enabled,     \* the loops whose interval is not zero
    HostCalls,   \* the calls the host makes in this configuration
    SpawnFails,  \* BOOLEAN: may a thread or its runtime fail to start
    RetryDelays, \* retries of the sync after an activation (4 in the code)
    MaxCalls,    \* bound: host calls
    MaxChanges,  \* bound: changes of the server's behaviour
    MaxGen       \* bound: generations of a loop

Timers == {"auto", "heartbeat"}
Kinds == Timers \cup {"support", "sync"}
AllCalls == {"activate", "restore", "reset", "start", "stop", "drop"}

ASSUME NoneIsNoLicense == None \notin Ids
ASSUME ProcsAreNoLoops == Procs \cap (Kinds \X Nat) = {}
ASSUME EnabledType == Enabled \subseteq Kinds
ASSUME HostCallsType == HostCalls \subseteq AllCalls
ASSUME FlagsAndBounds ==
    SpawnFails \in BOOLEAN /\ {RetryDelays, MaxCalls, MaxChanges, MaxGen} \subseteq Nat

VARIABLES
    license,   \* current_license
    status,    \* status(), as far as a loop looks at it
    lock,      \* who holds state_commit_lock across several steps
    newest,    \* who made the newest license-state operation
    isOnline,  \* is_online
    nextRun,   \* next_auto_validation_at is set
    running,   \* the <loop>_running flags
    gen,       \* the <loop>_generation counters
    sender,    \* <loop>_cancel: the generation whose cancel sender is stored, or 0
    thread,    \* the threads that exist, by kind and generation
    agenda,    \* what each agent has left to do of its current start or stop
    host,      \* the host still holds a handle of the SDK
    server,    \* environment: what the API answers now
    calls,     \* host calls so far
    lastCall,  \* history: the last host call about loops
    changes    \* server changes so far

control == <<running, gen, sender>>
state == <<license, status, lock, newest, isOnline>>
env == <<host, server, calls, lastCall, changes>>
vars == <<state, nextRun, control, thread, agenda, env>>

Loops == Kinds \X (1..MaxGen)
Threads == DOMAIN thread
Agents == DOMAIN agenda
Idle(a) == agenda[a] = <<>>
Quiescent == \A a \in Agents : Idle(a)

(* The steps of a start or a stop                                          *)
Stop(k) == [do |-> "stop", kind |-> k, gen |-> 0, lic |-> None]
Signal(k, g, set) == [do |-> IF set THEN "signal_reset" ELSE "signal", kind |-> k, gen |-> g, lic |-> None]
Install(k, id) == [do |-> "install", kind |-> k, gen |-> 0, lic |-> id]
Spawn(k, g, id) == [do |-> "spawn", kind |-> k, gen |-> g, lic |-> id]
StartTasks == [do |-> "start_tasks", kind |-> "support", gen |-> 0, lic |-> None]
Commit(id, st) == [do |-> st, kind |-> "support", gen |-> 0, lic |-> id]
Decide(id) == [do |-> "decide", kind |-> "support", gen |-> 0, lic |-> id]

(* stop_background_tasks, start_auto_validation / start_heartbeat (stop    *)
(* first), start_background_tasks                                          *)
StopAll == <<Stop("sync"), Stop("auto"), Stop("heartbeat"), Stop("support")>>
Restart(k, id) == <<Stop(k), Install(k, id)>>
StartAll(id) == Restart("auto", id) \o Restart("heartbeat", id) \o <<Install("support", id)>>

Init ==
    /\ license \in Ids \cup {None}
    /\ status = IF license = None THEN "none" ELSE "pending"
    /\ lock = None /\ newest = None /\ isOnline = FALSE
    /\ nextRun = FALSE
    /\ running = [k \in Kinds |-> FALSE]
    /\ gen = [k \in Kinds |-> 0]
    /\ sender = [k \in Kinds |-> 0]
    /\ thread = [x \in {} |-> None]
    /\ agenda = [p \in Procs |-> <<>>]
    /\ host = TRUE
    /\ server \in {"grants", "denies", "down"}
    /\ calls = 0 /\ lastCall = None /\ changes = 0

-----------------------------------------------------------------------------
(* Reading the state                                                       *)

(* <loop>_should_continue                                                  *)
ShouldContinue(x) == running[x[1]] /\ gen[x[1]] = x[2]

(* Bug: a loop keeps the SDK it was started from                           *)
StrongRef(x) == TRUE

(* A loop upgrades its weak reference for one iteration only               *)
HoldsSdk(x) == thread[x].pc \in {"cycle", "busy", "probe", "after"} \/ ~Idle(x)
Alive == host \/ \E x \in Threads : HoldsSdk(x)

(* A stopping agent has taken the sender but has not sent yet              *)
BeingCancelled(x) == \E a \in Agents :
    ~Idle(a) /\ LET s == Head(agenda[a]) IN
        s.do \in {"signal", "signal_reset"} /\ s.kind = x[1] /\ s.gen = x[2]

(* cancel.changed() is ready: a signal was sent or the sender was dropped  *)
Cancelled(x) == (sender[x[1]] # x[2] /\ ~BeingCancelled(x)) \/ ~Alive

-----------------------------------------------------------------------------
(* The agenda: one step of a start or a stop                               *)

Next1(a, kind) == a \in Agents /\ ~Idle(a) /\ Head(agenda[a]).do = kind
Then(a, steps) == agenda' = [agenda EXCEPT ![a] = steps \o Tail(@)]

(* Bug: the sender stays behind                                            *)
TakeNothing(k) == sender

TakeSender(k) == [sender EXCEPT ![k] = 0]

(* stop_<loop>, under its mutex; the activation sync only has a sender     *)
StopLoop(a) == LET k == Head(agenda[a]).kind IN
    /\ Next1(a, "stop")
    /\ sender' = TakeSender(k)
    /\ gen[k] < MaxGen
    /\ IF k = "sync" THEN UNCHANGED <<running, gen>>
       ELSE running' = [running EXCEPT ![k] = FALSE] /\ gen' = [gen EXCEPT ![k] = @ + 1]
    /\ Then(a, IF sender[k] = 0 /\ ~running[k] THEN <<>>
               ELSE <<Signal(k, sender[k], k = "auto" /\ running[k])>>)
    /\ UNCHANGED <<state, nextRun, thread, env>>

(* ... and after it: the signal, and for auto-validation that was running  *)
(* the announced time                                                      *)
SendSignal(a) ==
    /\ \/ Next1(a, "signal") /\ UNCHANGED nextRun
       \/ Next1(a, "signal_reset") /\ nextRun' = FALSE
    /\ Then(a, <<>>)
    /\ UNCHANGED <<state, control, thread, env>>

(* start_<loop>, under the mutex: storing the new sender drops the old one *)
InstallLoop(a) == LET s == Head(agenda[a])  k == s.kind  g == gen[k] + 1 IN
    /\ Next1(a, "install") /\ gen[k] < MaxGen
    /\ IF k \notin Enabled \/ (k = "support" /\ running[k])
       THEN Then(a, <<>>) /\ UNCHANGED control
       ELSE /\ gen' = [gen EXCEPT ![k] = g]
            /\ running' = [running EXCEPT ![k] = k # "sync"]
            /\ sender' = [sender EXCEPT ![k] = g]
            /\ Then(a, IF k = "sync" THEN <<>> ELSE <<Spawn(k, g, s.lic)>>)
    /\ UNCHANGED <<state, nextRun, thread, env>>

(* Bug: the failure is only reported                                       *)
GiveUpQuietly(x) == <<>>

(* A failed spawn takes back what the start installed, if that is still    *)
(* what is installed when it looks                                         *)
GiveUp(x) == IF ShouldContinue(x) THEN <<Stop(x[1])>> ELSE <<>>

SpawnLoop(a) == LET s == Head(agenda[a])  x == <<s.kind, s.gen>> IN
    /\ Next1(a, "spawn")
    /\ \/ /\ thread' = [y \in Threads \cup {x} |->
                          IF y = x THEN [pc |-> "spawned", lic |-> s.lic, tries |-> 0]
                                   ELSE thread[y]]
          /\ agenda' = [y \in Agents \cup {x} |->
                          IF y = x THEN <<>>
                          ELSE IF y = a THEN Tail(agenda[a]) ELSE agenda[y]]
       \/ /\ SpawnFails /\ s.kind # "sync"
          /\ Then(a, GiveUp(x))
          /\ UNCHANGED thread
    /\ UNCHANGED <<state, nextRun, control, env>>

(* start_background_tasks reads the current license first                  *)
StartForCurrent(a) ==
    /\ Next1(a, "start_tasks")
    /\ Then(a, IF license = None THEN <<>> ELSE StartAll(license))
    /\ UNCHANGED <<state, nextRun, control, thread, env>>

(* The decision that a locked section ends with                            *)
CommitDecision(a) == LET s == Head(agenda[a]) IN
    /\ lock = a /\ a \in Agents /\ ~Idle(a) /\ s.do \in {"none", "online", "denied"}
    /\ license' = s.lic /\ status' = s.do
    /\ lock' = None /\ newest' = None
    /\ Then(a, <<>>)
    /\ UNCHANGED <<isOnline, nextRun, control, thread, env>>

(* finalize_offline_validation: a signed decision, if no newer operation   *)
(* or decision came in between                                             *)
DecideOffline(a) == LET s == Head(agenda[a]) IN
    /\ Next1(a, "decide") /\ lock = None
    /\ status' = IF newest = a /\ license = s.lic THEN "offline" ELSE status
    /\ Then(a, <<>>)
    /\ UNCHANGED <<license, lock, newest, isOnline, nextRun, control, thread, env>>

AgendaStep(a) ==
    \/ StopLoop(a) \/ SendSignal(a) \/ InstallLoop(a) \/ SpawnLoop(a)
    \/ StartForCurrent(a) \/ CommitDecision(a) \/ DecideOffline(a)

-----------------------------------------------------------------------------
(* Calls of the host                                                       *)

MayCall(p, call) ==
    /\ call \in HostCalls /\ host /\ Idle(p) /\ calls < MaxCalls
    /\ calls' = calls + 1 /\ lastCall' = call

Plan(a, steps) == agenda' = [agenda EXCEPT ![a] = steps]

(* The accepted answer to an activation, from the lock to the return       *)
Activate(p) == \E id \in Ids :
    /\ MayCall(p, "activate")
    /\ lock = None /\ lock' = p /\ newest' = p
    /\ Plan(p, StopAll \o <<Install("sync", id), Commit(id, "online"), StartTasks>>
               \o IF "sync" \in Enabled THEN <<Spawn("sync", gen["sync"] + 1, id)>> ELSE <<>>)
    /\ UNCHANGED <<license, status, isOnline, nextRun, control, thread, host, server, changes>>

Reset(p) ==
    /\ MayCall(p, "reset")
    /\ lock = None /\ lock' = p /\ newest' = None
    /\ Plan(p, StopAll \o <<Commit(None, "none")>>)
    /\ UNCHANGED <<license, status, isOnline, nextRun, control, thread, host, server, changes>>

StopTasks(p) ==
    /\ MayCall(p, "stop")
    /\ Plan(p, StopAll)
    /\ UNCHANGED <<state, nextRun, control, thread, host, server, changes>>

StartTasksCall(p) ==
    /\ MayCall(p, "start")
    /\ Plan(p, <<StartTasks>>)
    /\ UNCHANGED <<state, nextRun, control, thread, host, server, changes>>

(* restore_license of a startup candidate: confirmed online, restored from *)
(* a signed artifact, or (no artifact) only waiting for the network        *)
Restore(p) ==
    /\ MayCall(p, "restore")
    /\ status = "pending" /\ lock = None
    /\ isOnline' = (server # "down")
    /\ newest' = p
    /\ \/ server = "grants" /\ status' = "online" /\ lock' = None /\ Plan(p, <<StartTasks>>)
       \/ server = "denies" /\ lock' = p /\ Plan(p, StopAll \o <<Commit(license, "denied")>>)
                            /\ UNCHANGED status
       \/ server = "down" /\ UNCHANGED <<status, lock>>
                          /\ \/ Plan(p, <<Install("support", license)>>)
                             \/ Plan(p, <<Install("support", license), Decide(license), StartTasks>>)
    /\ UNCHANGED <<license, nextRun, control, thread, host, server, changes>>

(* The host drops its last handle: the loops must not keep the SDK alive   *)
DropHandles ==
    /\ "drop" \in HostCalls /\ host
    /\ \A p \in Procs : Idle(p)
    /\ host' = FALSE
    /\ UNCHANGED <<state, nextRun, control, thread, agenda, server, calls, lastCall, changes>>

ServerChanges ==
    /\ changes < MaxChanges
    /\ changes' = changes + 1
    /\ server' \in {"grants", "denies", "down"} \ {server}
    /\ UNCHANGED <<state, nextRun, control, thread, agenda, host, calls, lastCall>>

-----------------------------------------------------------------------------
(* The loops.  An idle loop is one that is not in the middle of a start or *)
(* a stop of its own.                                                      *)

LoopAt(x, pc) == x \in Threads /\ Idle(x) /\ thread[x].pc = pc
GoTo(x, pc) == thread' = [thread EXCEPT ![x].pc = pc]

Exit(x) ==
    /\ thread' = [y \in Threads \ {x} |-> thread[y]]
    /\ agenda' = [y \in Agents \ {x} |-> agenda[y]]

Untouched == UNCHANGED <<state, control, env>>

(* The first step of a thread; its runtime may fail to build               *)
Enter(x) ==
    /\ LoopAt(x, "spawned")
    /\ \/ /\ IF x[1] # "auto" THEN GoTo(x, "asleep") /\ UNCHANGED agenda
             ELSE IF Alive /\ ShouldContinue(x) THEN GoTo(x, "cycle") /\ UNCHANGED agenda
             ELSE Exit(x)
       \/ /\ SpawnFails /\ x[1] # "sync"
          /\ IF Alive THEN GoTo(x, "failed") /\ Plan(x, GiveUp(x)) ELSE Exit(x)
    /\ Untouched /\ UNCHANGED nextRun

(* select!: woken by its cancel channel, or by the interval; a loop that   *)
(* is woken by the interval still checks that it is the current one        *)
Cancel(x) ==
    /\ \/ LoopAt(x, "asleep") /\ Cancelled(x)
       \/ LoopAt(x, "busy") /\ x[1] = "sync" /\ Cancelled(x)
       \/ LoopAt(x, "failed")
    /\ Exit(x)
    /\ Untouched /\ UNCHANGED nextRun

Unwanted(x) == ~Alive \/ ~ShouldContinue(x)

TickTooLate(x) ==
    /\ LoopAt(x, "asleep") /\ x[1] # "sync"
    /\ Unwanted(x)
    /\ Exit(x)
    /\ Untouched /\ UNCHANGED nextRun

(* validate_key / heartbeat_key: a request about the current license is    *)
(* from now on the newest license-state operation                          *)
Send(x, pc, id) ==
    /\ thread' = [thread EXCEPT ![x].pc = pc, ![x].lic = id]
    /\ newest' = IF license = id THEN x ELSE newest
    /\ UNCHANGED <<license, status, lock, isOnline>>

TimerTick(x) ==
    /\ LoopAt(x, "asleep") /\ x[1] \in Timers
    /\ ~Unwanted(x)
    /\ lock = None
    /\ Send(x, "busy", thread[x].lic)
    /\ UNCHANGED <<agenda, nextRun, control, env>>

(* The answer to a validation or a heartbeat of license l.  "Own": it is   *)
(* still the newest operation, about the current license.  A denial stops  *)
(* the loops and is committed under the lock; an outage keeps the support  *)
(* thread going and lets a validation be decided offline.                  *)
Answer(x, back, onValid) == LET l == thread[x].lic  own == newest = x /\ license = l IN
    /\ GoTo(x, back)
    /\ isOnline' = (server # "down")
    /\ \/ /\ ~own
          /\ Plan(x, <<>>) /\ UNCHANGED <<status, lock>>
       \/ /\ own /\ server = "grants" /\ lock = None
          /\ status' = "online" /\ UNCHANGED lock
          /\ Plan(x, onValid)
       \/ /\ own /\ server = "denies" /\ lock = None
          /\ lock' = x /\ UNCHANGED status
          /\ Plan(x, StopAll \o <<Commit(l, "denied")>>)
       \/ /\ own /\ server = "down"
          /\ UNCHANGED <<status, lock>>
          /\ \/ Plan(x, <<Install("support", l)>>)
             \/ /\ x[1] # "heartbeat"
                /\ \E more \in {<<>>, onValid} :
                     Plan(x, <<Install("support", l), Decide(l)>> \o more)
    /\ UNCHANGED <<license, newest, nextRun, control, env>>

TimerAnswer(x) ==
    /\ LoopAt(x, "busy") /\ x[1] \in Timers
    /\ Answer(x, IF x[1] = "auto" THEN "after" ELSE "asleep", <<>>)

(* Auto-validation announces its next run; the announcement is outside the *)
(* mutex, after the check                                                  *)
CheckAfter(x) ==
    /\ LoopAt(x, "after")
    /\ IF ShouldContinue(x) THEN GoTo(x, "cycle") /\ UNCHANGED agenda ELSE Exit(x)
    /\ Untouched /\ UNCHANGED nextRun

Announce(x) ==
    /\ LoopAt(x, "cycle")
    /\ nextRun' = TRUE
    /\ GoTo(x, "asleep")
    /\ Untouched /\ UNCHANGED agenda

(* network_recheck_loop                                                    *)
RecheckIsDue == license # None /\ (~isOnline \/ status = "offline")

RecheckTick(x) ==
    /\ LoopAt(x, "asleep") /\ x[1] = "support"
    /\ ~Unwanted(x) /\ RecheckIsDue
    /\ GoTo(x, "probe")
    /\ Untouched /\ UNCHANGED <<agenda, nextRun>>

(* Bug: a failed probe ends the loop                                       *)
GiveUpProbing(x) == Exit(x)

(* Back to sleep until the next interval; a failed probe is a network      *)
(* error, which makes sure that the support tasks run                      *)
ProbeFailed(x) == GoTo(x, "asleep") /\ Plan(x, <<Install("support", license)>>)

Probe(x) ==
    /\ LoopAt(x, "probe") /\ x[1] = "support"
    /\ \/ /\ server = "down"
          /\ isOnline' = FALSE
          /\ ProbeFailed(x)
          /\ UNCHANGED newest
       \/ /\ server # "down" /\ lock = None
          /\ isOnline' = TRUE
          /\ thread' = [thread EXCEPT ![x].pc = IF license = None THEN "asleep" ELSE "busy",
                                      ![x].lic = license]
          /\ newest' = IF license = None THEN newest ELSE x
          /\ UNCHANGED agenda
    /\ UNCHANGED <<license, status, lock, nextRun, control, env>>

(* Bug: the timers a denial or an outage stopped stay stopped              *)
NoRestart(id) == <<>>

RestartTimers(id) == Restart("auto", id) \o Restart("heartbeat", id)

RecheckAnswer(x) ==
    /\ LoopAt(x, "busy") /\ x[1] = "support"
    /\ Answer(x, "asleep", RestartTimers(thread[x].lic))

(* Bug: attempts are not counted                                           *)
NotCounted(n) == n

Counted(n) == n + 1
RetriesLeft(x) == thread[x].tries < RetryDelays

(* sync_offline_assets_after_activation: retried a few times while the     *)
(* activation it belongs to is still cached                                *)
SyncAttempt(x) ==
    /\ LoopAt(x, "asleep") /\ x[1] = "sync" /\ ~Cancelled(x)
    /\ IF license = thread[x].lic THEN GoTo(x, "busy") /\ UNCHANGED agenda ELSE Exit(x)
    /\ Untouched /\ UNCHANGED nextRun

SyncOutcome(x) ==
    /\ LoopAt(x, "busy") /\ x[1] = "sync"
    /\ isOnline' = (server # "down")
    /\ IF server = "grants" \/ license # thread[x].lic \/ ~RetriesLeft(x)
       THEN Exit(x)
       ELSE /\ thread' = [thread EXCEPT ![x].pc = "asleep", ![x].tries = Counted(@)]
            /\ UNCHANGED agenda
    /\ UNCHANGED <<license, status, lock, newest, nextRun, control, env>>

LoopEnds(x) == Cancel(x) \/ TickTooLate(x)
TimerStep(x) == TimerTick(x) \/ TimerAnswer(x) \/ CheckAfter(x) \/ Announce(x)
RecheckStep(x) == RecheckTick(x) \/ Probe(x) \/ RecheckAnswer(x)
SyncStep(x) == SyncAttempt(x) \/ SyncOutcome(x)
LoopStep(x) == Enter(x) \/ LoopEnds(x) \/ TimerStep(x) \/ RecheckStep(x) \/ SyncStep(x)

CallStep(p) == Activate(p) \/ Restore(p) \/ Reset(p) \/ StopTasks(p) \/ StartTasksCall(p)

Next ==
    \/ \E p \in Procs : CallStep(p) \/ AgendaStep(p)
    \/ \E x \in Loops : AgendaStep(x) \/ LoopStep(x)
    \/ DropHandles \/ ServerChanges

Spec == Init /\ [][Next]_vars

-----------------------------------------------------------------------------
(* Fairness.  Every thread keeps running, and a call of the host comes to  *)
(* its end: one condition for the current loop of each kind and one for    *)
(* all the others, which have only finitely many steps left.  A request is *)
(* answered long before the next interval is over, so that two loops do    *)
(* not overtake each other's requests for ever: that is the strong         *)
(* fairness of an answer that has not been overtaken.                      *)
ThreadStep(x) == AgendaStep(x) \/ LoopStep(x)
CurrentStep(k) == \E x \in Threads : x[1] = k /\ ShouldContinue(x) /\ ThreadStep(x)
OtherStep == \E x \in Threads : ~ShouldContinue(x) /\ ThreadStep(x)
InTimeAnswer == \E x \in Threads :
    newest = x /\ (TimerAnswer(x) \/ RecheckAnswer(x))
Fairness ==
    /\ \A p \in Procs : WF_vars(AgendaStep(p))
    /\ \A k \in Kinds \ {"sync"} : WF_vars(CurrentStep(k))
    /\ WF_vars(OtherStep)
    /\ SF_vars(InTimeAnswer)
FairSpec == Spec /\ Fairness

-----------------------------------------------------------------------------
(* Properties                                                              *)

Step == [do : {"stop", "signal", "signal_reset", "install", "spawn", "start_tasks",
               "none", "online", "denied", "decide"},
         kind : Kinds, gen : Nat, lic : Ids \cup {None}]
PCs == {"spawned", "asleep", "busy", "probe", "after", "cycle", "failed"}

TypeOK ==
    /\ license \in Ids \cup {None}
    /\ status \in {"none", "pending", "online", "offline", "denied"}
    /\ isOnline \in BOOLEAN /\ nextRun \in BOOLEAN /\ host \in BOOLEAN
    /\ running \in [Kinds -> BOOLEAN]
    /\ gen \in [Kinds -> Nat]
    /\ sender \in [Kinds -> Nat]
    /\ Threads \subseteq Kinds \X (Nat \ {0})
    /\ Agents = Procs \cup Threads
    /\ \A x \in Threads : thread[x] \in [pc : PCs, lic : Ids \cup {None}, tries : 0..RetryDelays]
    /\ \A a \in Agents : agenda[a] \in Seq(Step)

(* "generation counters and cancellation channels govern every loop"       *)
(* (production-hardening-audit.md): a loop whose cancel channel has not    *)
(* fired, and is not about to, is the one its flag and its generation      *)
(* stand for; none sleeps on unnoticed after a stop or a restart.          *)
LiveLoopIsCurrent ==
    \A x \in Threads : x[1] # "sync" /\ ~Cancelled(x) /\ ~BeingCancelled(x) => ShouldContinue(x)

(* is_auto_validating / is_heartbeat_running tell the truth once no start  *)
(* or stop is under way: there is such a loop, and it has not been         *)
(* cancelled, whatever thread or runtime failed to start.                  *)
RunningIsHonest ==
    Quiescent /\ host => \A k \in Kinds : running[k] =>
        \E x \in Threads : ShouldContinue(x) /\ x[1] = k /\ ~Cancelled(x)

(* "workers capture weak SDK state" (production-hardening-audit.md): once  *)
(* the host has dropped its handles and no loop is in the middle of an     *)
(* iteration, every loop comes to its end; a sleeping loop retains nothing. *)
Asleep(x) == Idle(x) /\ thread[x].pc \in {"spawned", "asleep"}
DroppedSdkEnds == (~host /\ \A x \in Threads : Asleep(x)) ~> Threads = {}

(* The sync after an activation is "short, bounded" (client.rs): none runs *)
(* for ever, and no stale loop either.                                     *)
Over(x) == x[1] = "sync" \/ ~ShouldContinue(x)
StaleLoopsEnd == (\E x \in Threads : Over(x)) ~> (\A x \in Threads : ~Over(x))

WillRecover ==
    running["support"] /\ license # None /\ server = "grants" /\ lastCall # "stop"

(* "Network recheck loop that restores online state after outages"         *)
(* (client.rs): while the support tasks run and the server grants the      *)
(* license, an offline or pending state becomes an online one again, or    *)
(* the license changes.                                                    *)
OnlineAgain ==
    (WillRecover /\ ~isOnline) ~> (isOnline /\ status = "online") \/ ~WillRecover \/ ~host

(* ... and the timers run again, also when they never ran since launch.    *)
TimersAgain ==
    (WillRecover /\ ~isOnline) ~> (\A k \in Timers \cap Enabled : running[k]) \/ ~WillRecover \/ ~host

-----------------------------------------------------------------------------
(* What the code does not keep                                             *)

HostStopped == lastCall \in {"stop", "reset"} /\ Quiescent

(* "Stop all background tasks" (client.rs): after stop_background_tasks or *)
(* reset no validation or heartbeat loop runs.                             *)
TimersStayStopped == HostStopped => \A k \in Timers : ~running[k]

(* ... and no support thread.                                              *)
SupportStaysStopped == HostStopped => ~running["support"]

(* The loops are about the license the SDK manages: "Background heartbeats *)
(* must continue using the exact fingerprint that consumed the seat"       *)
(* (client.rs).                                                            *)
LoopsServeCurrentLicense ==
    Quiescent /\ license # None =>
        \A x \in Threads : x[1] \in Timers /\ ShouldContinue(x) => thread[x].lic = license

(* "Get the next scheduled auto-validation time" (client.rs): there is one *)
(* only while auto-validation runs.                                        *)
NextRunIsScheduled == Quiescent /\ nextRun => running["auto"]
=============================================================================
