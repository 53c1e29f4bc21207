----------------------------- MODULE LicenseClient -----------------------------
(***************************************************************************)
(* The license state machine of the SDK client (client.rs): SDK instances  *)
(* that share one durable cache, and the callers whose overlapping         *)
(* requests read and commit license state through them.                    *)
(*                                                                         *)
(* Granularity.  A section that runs under state_commit_lock is one step;  *)
(* code that runs outside it is split at every shared read or write that   *)
(* another caller could get between.  The arrival of a response is merged  *)
(* with the commit it leads to.  A response is a nondeterministic choice   *)
(* among the classes the code distinguishes.                               *)
(***************************************************************************)
EXTENDS LicenseCache, Naturals, FiniteSets

CONSTANTS
    Procs,      \* callers: host tasks, background loops, bridge commands
    Instances,  \* SDK instances (LicenseSeatInner), in one or more processes
    InstOf,     \* the instance each caller uses
    Kinds,      \* the requests callers make in this configuration
    MaxOps,     \* bound: operation numbers an instance hands out per life
    Crashes     \* BOOLEAN: may a process die and be relaunched

AllKinds == {"activate", "validate", "heartbeat", "deactivate", "sync", "restore", "reset"}

ASSUME InstOfType == InstOf \in [Procs -> Instances]
ASSUME KindsType == Kinds \subseteq AllKinds
ASSUME MaxOpsType == MaxOps \in Nat
ASSUME CrashesIsBool == Crashes \in BOOLEAN

VARIABLES
    disk,      \* the shared cache content
    mode,      \* per instance: "down", "starting" (record read), "up"
    boot,      \* the license record a starting instance has read
    runtime,   \* runtime_license_state: the process-local decision
    recovery,  \* recovery_license: the untrusted startup candidate
    opSeq,     \* operation_sequence
    stateOp,   \* current_license_state_operation
    slot,      \* current_<kind>_operation
    tasks,     \* background loops running
    call       \* per caller: the request in flight

vars == <<disk, mode, boot, runtime, recovery, opSeq, stateOp, slot, tasks, call>>

Slots == {"activation", "validation", "heartbeat", "deactivation", "sync"}
SlotOf(kind) == CASE kind = "activate"   -> "activation"
                  [] kind = "heartbeat"  -> "heartbeat"
                  [] kind = "deactivate" -> "deactivation"
                  [] kind = "sync"       -> "sync"
                  [] OTHER               -> "validation"

Sources == {"online", "signed", "failclosed"}
Grant == [id : Ids, verdict : Verdicts, source : Sources]
NoGrant == [id |-> None, verdict |-> "none", source |-> "failclosed"]

(* "restore_offline" is a restore that has gone on to its own offline      *)
(* fallback for the record it had read from the cache.                     *)
CallKinds == (AllKinds \ {"reset"}) \cup {"restore_offline"}
PCs == {"idle", "begun", "sent", "unavailable", "inspect", "found", "finalize",
        "started", "spawn", "support", "hb_ops", "hb_runtime", "hb_cache"}
Call == [pc : PCs, kind : CallKinds, op : Nat, target : Ids \cup {None},
         cached : Ids \cup {None}, expect : Nat, found : Verdicts]
Idle == [pc |-> "idle", kind |-> "validate", op |-> 0, target |-> None,
         cached |-> None, expect |-> 0, found |-> "none"]

TypeOK ==
    /\ disk \in CacheContent
    /\ mode \in [Instances -> {"down", "starting", "up"}]
    /\ boot \in [Instances -> LicenseRecord \cup {NoRecord}]
    /\ runtime \in [Instances -> Grant \cup {NoGrant}]
    /\ recovery \in [Instances -> Ids \cup {None}]
    /\ opSeq \in [Instances -> Nat]
    /\ stateOp \in [Instances -> Nat]
    /\ slot \in [Instances -> [Slots -> Nat]]
    /\ tasks \in [Instances -> SUBSET {"timers", "support"}]
    /\ call \in [Procs -> Call]

NoSlots == [s \in Slots |-> 0]

Init ==
    /\ disk = EmptyCache
    /\ mode = [i \in Instances |-> "down"]
    /\ boot = [i \in Instances |-> NoRecord]
    /\ runtime = [i \in Instances |-> NoGrant]
    /\ recovery = [i \in Instances |-> None]
    /\ opSeq = [i \in Instances |-> 0]
    /\ stateOp = [i \in Instances |-> 0]
    /\ slot = [i \in Instances |-> NoSlots]
    /\ tasks = [i \in Instances |-> {}]
    /\ call = [p \in Procs |-> Idle]

-----------------------------------------------------------------------------
(* Reading the state                                                       *)

Established(i) == runtime[i].id # None
Active(i) == runtime[i].verdict \in {"granted", "offgranted"}

(* current_license: the runtime decision, else the startup candidate       *)
Current(i) == IF Established(i) THEN runtime[i].id ELSE recovery[i]

(* ensure_current_license_operation                                        *)
IsCurrentOp(p) == LET i == InstOf[p] IN
    /\ slot[i][SlotOf(call[p].kind)] = call[p].op
    /\ stateOp[i] = call[p].op

At(p, pc, kinds) ==
    call[p].pc = pc /\ call[p].kind \in kinds

Validating == {"validate", "restore"}
(* Bugs: a commit that does not look at the numbers at all, and one that   *)
(* looks only at the slot of its own kind of request                       *)
AnswerUnchecked(p, kinds) == At(p, "sent", kinds) /\ call[p].op # 0
AnswerOwnSlotOnly(p, kinds) ==
    At(p, "sent", kinds) /\ call[p].op # 0
    /\ slot[InstOf[p]][SlotOf(call[p].kind)] = call[p].op

(* A response of a request that has local state to commit                  *)
Answer(p, kinds) == At(p, "sent", kinds) /\ call[p].op # 0 /\ IsCurrentOp(p)

-----------------------------------------------------------------------------
(* Changing the state                                                      *)

(* OperationGuard / compare_exchange(operation, 0)                         *)
Released(sl, p) ==
    [sl EXCEPT ![SlotOf(call[p].kind)] = IF @ = call[p].op THEN 0 ELSE @]

GoTo(p, pc) == call' = [call EXCEPT ![p].pc = pc]
Return(p)   == call' = [call EXCEPT ![p] = Idle]
ReleaseSlot(p) == LET i == InstOf[p] IN slot' = [slot EXCEPT ![i] = Released(@, p)]
Finish(p) == Return(p) /\ ReleaseSlot(p)

(* set_runtime_license_state: a decision supersedes the startup candidate  *)
Decide(i, id, v, src) ==
    /\ runtime' = [runtime EXCEPT ![i] = [id |-> id, verdict |-> v, source |-> src]]
    /\ recovery' = [recovery EXCEPT ![i] = None]

(* Bug: only the startup candidate is forgotten                            *)
ForgetCandidateOnly(i) ==
    /\ runtime' = runtime
    /\ recovery' = [recovery EXCEPT ![i] = None]

(* clear_runtime_license_state                                             *)
ForgetDecision(i) ==
    /\ runtime' = [runtime EXCEPT ![i] = NoGrant]
    /\ recovery' = [recovery EXCEPT ![i] = None]

(* invalidate_license_operations                                           *)
InvalidateOps(i) ==
    /\ slot' = [slot EXCEPT ![i] = NoSlots]
    /\ stateOp' = [stateOp EXCEPT ![i] = 0]

(* Bug: the loops are left running                                         *)
LeaveTasks(i) == tasks' = tasks

(* stop_background_tasks                                                   *)
StopTasks(i) == tasks' = [tasks EXCEPT ![i] = {}]

(* current_offline_sync_operation.store(0), then the caller returns        *)
CancelSync(p) == LET i == InstOf[p] IN
    slot' = [slot EXCEPT ![i] = [Released(@, p) EXCEPT !["sync"] = 0]]

SameDecision == UNCHANGED <<runtime, recovery>>
SameLife == UNCHANGED <<mode, boot, opSeq>>
Untouched == SameDecision /\ SameLife /\ UNCHANGED <<stateOp, tasks>>

(* anchor_last_seen_timestamp after an online acceptance: when it fails    *)
(* the offline assets are cleared, which may fail too                      *)
AfterAnchor(d) == {d} \cup IF Faults THEN {o.disk : o \in ClearOfflineAssets(d)} ELSE {}

-----------------------------------------------------------------------------
(* Process life                                                            *)

(* try_new reads the cached license ...                                    *)
StartRead(i) ==
    /\ mode[i] = "down"
    /\ mode' = [mode EXCEPT ![i] = "starting"]
    /\ boot' = [boot EXCEPT ![i] = disk.license]
    /\ UNCHANGED <<disk, runtime, recovery, opSeq, stateOp, slot, tasks, call>>

(* ... and, in a second cache transaction, writes it back without its      *)
(* positive decisions.  A failed write fails the construction.             *)
StartWrite(i) ==
    /\ mode[i] = "starting"
    /\ \E o \in IF boot[i].id = None THEN Ok({disk})
                ELSE StoreLicense(disk, StartupRecord(boot[i])) :
         /\ disk' = o.disk
         /\ IF o.res = "ok"
            THEN /\ mode' = [mode EXCEPT ![i] = "up"]
                 /\ recovery' = [recovery EXCEPT ![i] = boot[i].id]
            ELSE /\ mode' = [mode EXCEPT ![i] = "down"]
                 /\ UNCHANGED recovery
    /\ boot' = [boot EXCEPT ![i] = NoRecord]
    /\ UNCHANGED <<runtime, opSeq, stateOp, slot, tasks, call>>

(* The process dies; only the cache survives.                              *)
Crash(i) ==
    /\ Crashes
    /\ mode[i] # "down"
    /\ mode' = [mode EXCEPT ![i] = "down"]
    /\ boot' = [boot EXCEPT ![i] = NoRecord]
    /\ ForgetDecision(i)
    /\ InvalidateOps(i)
    /\ opSeq' = [opSeq EXCEPT ![i] = 0]
    /\ StopTasks(i)
    /\ call' = [p \in Procs |-> IF InstOf[p] = i THEN Idle ELSE call[p]]
    /\ UNCHANGED disk

(* A time bound of the grant passes: the first read after it invalidates   *)
(* the in-memory decision, once.                                           *)
Expire(i) ==
    /\ Active(i)
    /\ runtime' = [runtime EXCEPT ![i].verdict =
                      IF @ = "offgranted" THEN "offrefused" ELSE "refused"]
    /\ UNCHANGED <<disk, mode, boot, recovery, opSeq, stateOp, slot, tasks, call>>

-----------------------------------------------------------------------------
(* Beginning a request                                                     *)

MayBegin(p, kind) ==
    /\ kind \in Kinds
    /\ mode[InstOf[p]] = "up"
    /\ call[p].pc = "idle"
    /\ opSeq[InstOf[p]] < MaxOps

(* Bug: numbered after the newest operation, which invalidation resets     *)
NextAfterNewest(i) == stateOp[i] + 1

(* next_operation_id                                                       *)
NextOp(i) == opSeq[i] + 1

Begin(p, kind, pc, target, cached) ==
    call' = [call EXCEPT ![p] =
               [Idle EXCEPT !.pc = pc, !.kind = kind, !.op = NextOp(InstOf[p]),
                            !.target = target, !.cached = cached]]

(* begin_license_operation / begin_target_operation, under the lock: a     *)
(* fresh number, in the request's own slot and as the newest license       *)
(* operation                                                               *)
TakeNumber(i, s) ==
    /\ opSeq' = [opSeq EXCEPT ![i] = NextOp(i)]
    /\ slot' = [slot EXCEPT ![i][s] = NextOp(i)]
    /\ stateOp' = [stateOp EXCEPT ![i] = NextOp(i)]
    /\ UNCHANGED <<disk, mode, boot, runtime, recovery, tasks>>

BeginActivate(p) == LET i == InstOf[p] IN
    /\ MayBegin(p, "activate")
    /\ Begin(p, "activate", "sent", Current(i), None)
    /\ TakeNumber(i, "activation")

(* A request for a license this instance does not manage (no current       *)
(* license here) has number 0 and no local state to commit: it is left out *)
(* except for restore, which reads its license from the cache.             *)
BeginTargeted(p, kind) == LET i == InstOf[p] IN
    /\ kind \in {"validate", "heartbeat", "deactivate"}
    /\ MayBegin(p, kind)
    /\ Current(i) # None
    /\ Begin(p, kind, IF kind = "deactivate" THEN "begun" ELSE "sent", Current(i), None)
    /\ TakeNumber(i, SlotOf(kind))

(* deactivate_key then cancels a pending activation, outside the lock      *)
CancelActivation(p) == LET i == InstOf[p] IN
    /\ At(p, "begun", {"deactivate"})
    /\ slot' = [slot EXCEPT ![i]["activation"] = 0]
    /\ GoTo(p, "sent")
    /\ Untouched /\ UNCHANGED disk

(* restore_license: one at a time (restore_lock), only before any decision *)
(* is established, for the license the cache holds now                     *)
MayRestore(p) == LET i == InstOf[p] IN
    /\ MayBegin(p, "restore")
    /\ \A q \in Procs : InstOf[q] = i =>
          call[q].pc = "idle" \/ call[q].kind \notin {"restore", "restore_offline"}
    /\ ~Established(i)
    /\ disk.license.id # None

BeginRestore(p) == LET i == InstOf[p] IN
    /\ MayRestore(p)
    /\ Current(i) # None
    /\ Begin(p, "restore", "sent", Current(i), disk.license.id)
    /\ TakeNumber(i, "validation")

(* ... which may be a license another instance has cached meanwhile        *)
BeginForeignRestore(p) == LET i == InstOf[p] IN
    /\ MayRestore(p)
    /\ Current(i) = None
    /\ call' = [call EXCEPT ![p] =
                  [Idle EXCEPT !.pc = "sent", !.kind = "restore", !.cached = disk.license.id]]
    /\ Untouched /\ UNCHANGED <<disk, slot>>

(* sync_offline_assets / checkout_machine_file: one at a time              *)
(* (offline_request_lock), and not a license-state operation               *)
BeginSync(p) == LET i == InstOf[p] IN
    /\ MayBegin(p, "sync")
    /\ \A q \in Procs : InstOf[q] = i => call[q].pc = "idle" \/ call[q].kind # "sync"
    /\ Current(i) # None
    /\ Begin(p, "sync", "sent", Current(i), None)
    /\ opSeq' = [opSeq EXCEPT ![i] = NextOp(i)]
    /\ slot' = [slot EXCEPT ![i]["sync"] = NextOp(i)]
    /\ UNCHANGED <<disk, mode, boot, runtime, recovery, stateOp, tasks>>

-----------------------------------------------------------------------------
(* Responses without effect                                                *)

(* A rejected or unusable response, or the caller drops the future         *)
Rejected(p) ==
    /\ call[p].pc = "sent"
    /\ Finish(p)
    /\ Untouched /\ UNCHANGED disk

(* Any response to an operation that is no longer the current one          *)
Superseded(p) ==
    /\ At(p, "sent", {"activate", "validate", "restore", "heartbeat", "deactivate"})
    /\ call[p].op # 0
    /\ ~IsCurrentOp(p)
    /\ Finish(p)
    /\ Untouched /\ UNCHANGED disk

-----------------------------------------------------------------------------
(* Denials                                                                 *)

(* commit_thrown_authoritative_denial_locked.  A denial that cannot be     *)
(* written is still installed in memory, and the offline grant is retired. *)
CommitDenial(p) == LET i == InstOf[p]  id == call[p].target IN
    \E o \in UpdateValidation(disk, id, "denied") :
      \/ /\ o.res = "stale"
         /\ Finish(p)
         /\ Untouched /\ UNCHANGED disk
      \/ /\ o.res # "stale"
         /\ \E c \in IF o.res = "err" THEN ClearOfflineAssets(o.disk) ELSE {o} :
              disk' = c.disk
         /\ CancelSync(p)
         /\ StopTasks(i)
         /\ Decide(i, id, "denied", "failclosed")
         /\ Return(p)
         /\ SameLife /\ UNCHANGED stateOp

(* A thrown denial of a validation, restore or heartbeat                   *)
ThrownDenial(p) ==
    /\ Answer(p, {"validate", "restore", "heartbeat"})
    /\ CommitDenial(p)

(* record_lifecycle_authoritative_denial: a denied activation or checkout  *)
(* speaks about the current activation, whatever operation is newest       *)
LifecycleDenial(p) ==
    /\ At(p, "sent", {"activate", "sync"})
    /\ call[p].target # None
    /\ Current(InstOf[p]) = call[p].target
    /\ CommitDenial(p)

-----------------------------------------------------------------------------
(* Activation                                                              *)

(* invalidate_license_operations_except_activation                         *)
ActivateOk(p) == LET i == InstOf[p] IN
    /\ Answer(p, {"activate"})
    /\ \E id \in Ids : \E o \in CommitActivation(disk, id) :
         /\ disk' = o.disk
         /\ \/ /\ o.res = "err"
               /\ Finish(p)
               /\ Untouched
            \/ /\ o.res = "ok"
               /\ slot' = [slot EXCEPT ![i] = [NoSlots EXCEPT !["activation"] = call[p].op]]
               /\ StopTasks(i)
               /\ Decide(i, id, "granted", "online")
               /\ GoTo(p, "started")
               /\ SameLife /\ UNCHANGED stateOp

(* start_background_tasks, outside the lock: it reads the current license  *)
(* (a restore first asks whether the restored status is active) ...        *)
StartTasks(p) == LET i == InstOf[p] IN
    /\ call[p].pc = "started"
    /\ IF Current(i) # None /\ (call[p].kind = "restore" => Active(i))
       THEN GoTo(p, "spawn") /\ UNCHANGED slot
       ELSE Finish(p)
    /\ Untouched /\ UNCHANGED disk

(* ... and starts the loops for it                                         *)
SpawnTasks(p) == LET i == InstOf[p] IN
    /\ call[p].pc = "spawn"
    /\ tasks' = [tasks EXCEPT ![i] = {"timers", "support"}]
    /\ Finish(p)
    /\ SameDecision /\ SameLife /\ UNCHANGED <<disk, stateOp>>

(* start_support_tasks after an availability failure                       *)
SpawnSupport(p) == LET i == InstOf[p] IN
    /\ call[p].pc = "support"
    /\ tasks' = [tasks EXCEPT ![i] = @ \cup {"support"}]
    /\ Finish(p)
    /\ SameDecision /\ SameLife /\ UNCHANGED <<disk, stateOp>>

-----------------------------------------------------------------------------
(* Validation                                                              *)

(* What follows a validation that returned a decision: restore looks at    *)
(* the status it led to, validate just returns it                          *)
Validated(p) ==
    IF call[p].kind = "restore" THEN GoTo(p, "started") /\ UNCHANGED slot ELSE Finish(p)

ValidateOk(p) == LET i == InstOf[p]  id == call[p].target IN
    /\ Answer(p, Validating)
    /\ \E o \in UpdateValidation(disk, id, "granted") :
         \/ /\ o.res # "ok"
            /\ disk' = o.disk
            /\ Finish(p)
            /\ Untouched
         \/ /\ o.res = "ok"
            /\ disk' \in AfterAnchor(o.disk)
            /\ Decide(i, id, "granted", "online")
            /\ Validated(p)
            /\ SameLife /\ UNCHANGED <<stateOp, tasks>>

(* The answer to a request that has no local state to commit               *)
ForeignAnswer(p) ==
    /\ At(p, "sent", {"restore"})
    /\ call[p].op = 0
    /\ GoTo(p, "started")
    /\ Untouched /\ UNCHANGED <<disk, slot>>

(* valid:false in a 200 response, not a revocation: an entitlement denial  *)
(* keeps the offline grant, any other decision deletes it                  *)
ValidateRefused(p) == LET i == InstOf[p]  id == call[p].target IN
    /\ Answer(p, Validating)
    /\ \E v \in OnlineDenials : \E o \in UpdateValidation(disk, id, v) :
         \/ /\ o.res = "stale"
            /\ Finish(p)
            /\ Untouched /\ UNCHANGED disk
         \/ /\ o.res # "stale"
            /\ \E c \in IF o.res = "ok" /\ v = "denied" THEN {o} ELSE ClearOfflineAssets(o.disk) :
                 disk' = c.disk
            /\ CancelSync(p)
            /\ StopTasks(i)
            /\ Decide(i, id, v, IF o.res = "ok" THEN "online" ELSE "failclosed")
            /\ Return(p)
            /\ SameLife /\ UNCHANGED stateOp

(* valid:false with a revocation code: the decision is persisted, the      *)
(* offline grant deleted, then the whole record.  If the record cannot be  *)
(* deleted the denial stays in memory.                                     *)
ValidateRevoked(p) == LET i == InstOf[p]  id == call[p].target IN
    /\ Answer(p, Validating)
    /\ \E o \in UpdateValidation(disk, id, "refused") :
         \/ /\ o.res = "stale"
            /\ Finish(p)
            /\ Untouched /\ UNCHANGED disk
         \/ /\ o.res # "stale"
            /\ \E a \in ClearOfflineAssets(o.disk) :
               \E c \in IF o.res = "err" THEN {a} ELSE InvalidateAndClear(a.disk, id) :
                 /\ disk' = c.disk
                 /\ IF o.res = "err" \/ c.res = "err"
                    THEN Decide(i, id, "refused", "failclosed")
                    ELSE ForgetDecision(i)
            /\ CancelSync(p)
            /\ StopTasks(i)
            /\ Return(p)
            /\ SameLife /\ UNCHANGED stateOp

(* A status and code that prove the activation can no longer be used       *)
ValidateInvalidated(p) == LET i == InstOf[p] IN
    /\ Answer(p, Validating)
    /\ InvalidateOps(i)
    /\ StopTasks(i)
    /\ ForgetDecision(i)
    /\ \E o \in InvalidateAndClear(disk, call[p].target) : disk' = o.disk
    /\ Return(p)
    /\ SameLife

-----------------------------------------------------------------------------
(* Offline fallback                                                        *)

(* An availability failure, checked under the lock to be current           *)
ValidateUnavailable(p) ==
    /\ Answer(p, Validating)
    /\ GoTo(p, "unavailable")
    /\ Untouched /\ UNCHANGED <<disk, slot>>

(* Restore's own fallback, for the record it had read: after a failure of  *)
(* a request without local state, and after a 408, which validate itself   *)
(* does not answer offline                                                 *)
RestoreOffline(p) ==
    [call EXCEPT ![p].pc = "unavailable", ![p].kind = "restore_offline",
                 ![p].target = call[p].cached]

RestoreUnavailable(p) ==
    /\ At(p, "sent", {"restore"})
    /\ call[p].op # 0 => IsCurrentOp(p)
    /\ call' = RestoreOffline(p)
    /\ Untouched /\ UNCHANGED <<disk, slot>>

(* validate_offline remembers the newest license operation at its ENTRY    *)
EnterOffline(p) ==
    call' = [call EXCEPT ![p].pc = "inspect", ![p].expect = stateOp[InstOf[p]]]

(* Outside the lock: support tasks are started, then the fallback is       *)
(* entered if the cache still holds the target                             *)
Fallback(p) == LET i == InstOf[p] IN
    /\ At(p, "unavailable", Validating)
    /\ tasks' = [tasks EXCEPT ![i] = @ \cup {"support"}]
    /\ \/ Matches(disk, call[p].target) /\ EnterOffline(p) /\ UNCHANGED slot
       \/ /\ ~Matches(disk, call[p].target)
          /\ \/ call[p].kind = "validate" /\ Finish(p)
             \/ call[p].kind = "restore" /\ call' = RestoreOffline(p) /\ UNCHANGED slot
    /\ SameDecision /\ SameLife /\ UNCHANGED <<disk, stateOp>>

RestoreFallback(p) ==
    /\ At(p, "unavailable", {"restore_offline"})
    /\ IF Matches(disk, call[p].target) THEN EnterOffline(p) ELSE GoTo(p, "support")
    /\ Untouched /\ UNCHANGED <<disk, slot>>

(* Return from validate_offline, with a decision or with an error          *)
Decided(p) ==
    IF call[p].kind = "restore_offline" THEN GoTo(p, "support") /\ UNCHANGED slot
    ELSE Validated(p)
Failing(p) ==
    IF call[p].kind = "restore_offline" THEN GoTo(p, "support") /\ UNCHANGED slot
    ELSE Finish(p)

(* perform_offline_validation outside the lock: a denial installed in this *)
(* process answers; else a denial recorded in the cache is taken along;    *)
(* else the signed artifact is verified.  Verification compares activation *)
(* ids only while some license is current; every other check (signature,   *)
(* time window) may fail.  Without an artifact, or with one whose claims   *)
(* cannot be turned into a deadline or a result, there is no verdict.      *)
Inspect(p) == LET i == InstOf[p]  id == call[p].target IN
    /\ call[p].pc = "inspect"
    /\ IF runtime[i] = [id |-> id, verdict |-> "denied", source |-> "failclosed"]
       THEN Decided(p)
       ELSE IF Matches(disk, id) /\ disk.license.verdict \in OnlineDenials
       THEN /\ call' = [call EXCEPT ![p].pc = "found", ![p].found = disk.license.verdict]
            /\ UNCHANGED slot
       ELSE \/ Failing(p)
            \/ /\ disk.art # None
               /\ \E v \in {"offgranted", "offrefused"} :
                    /\ v = "offgranted" => Current(i) \in {None, disk.art}
                    /\ call' = [call EXCEPT ![p].pc = "finalize", ![p].found = v]
               /\ UNCHANGED slot
    /\ Untouched /\ UNCHANGED disk

(* The check both commits of the fallback make under the lock              *)
StillExpected(p) ==
    stateOp[InstOf[p]] = call[p].expect /\ Matches(disk, call[p].target)

InstallFoundDenial(p) == LET i == InstOf[p] IN
    /\ call[p].pc = "found"
    /\ \/ ~StillExpected(p) /\ Failing(p) /\ SameDecision
       \/ /\ StillExpected(p)
          /\ Decide(i, call[p].target, call[p].found, "failclosed")
          /\ Decided(p)
    /\ SameLife /\ UNCHANGED <<disk, stateOp, tasks>>

(* finalize_offline_validation; a verified artifact may still be refused   *)
(* for the clock watermark, its deadline or its license data               *)
FinalizeOffline(p) == LET i == InstOf[p]  id == call[p].target IN
    /\ call[p].pc = "finalize"
    /\ \/ ~StillExpected(p) /\ Failing(p) /\ SameDecision /\ UNCHANGED disk
       \/ /\ StillExpected(p)
          /\ \E v \in {call[p].found, "offrefused"} : \E o \in UpdateValidation(disk, id, v) :
               /\ disk' = o.disk
               /\ IF o.res = "ok"
                  THEN /\ Decide(i, id, v, IF v = "offgranted" THEN "signed" ELSE "failclosed")
                       /\ Decided(p)
                  ELSE SameDecision /\ Failing(p)
    /\ SameLife /\ UNCHANGED <<stateOp, tasks>>

-----------------------------------------------------------------------------
(* Heartbeat                                                               *)

HeartbeatOk(p) == LET i == InstOf[p]  id == call[p].target IN
    /\ Answer(p, {"heartbeat"})
    /\ \E o \in UpdateValidation(disk, id, "granted") :
         IF o.res = "ok"
         THEN disk' \in AfterAnchor(o.disk) /\ Decide(i, id, "granted", "online")
         ELSE disk' = o.disk /\ SameDecision
    /\ Finish(p)
    /\ SameLife /\ UNCHANGED <<stateOp, tasks>>

(* A well-formed heartbeat that reports the license inactive               *)
HeartbeatInactive(p) == LET i == InstOf[p] IN
    /\ Answer(p, {"heartbeat"})
    /\ StopTasks(i)
    /\ ForgetDecision(i)
    /\ \E o \in InvalidateAndClear(disk, call[p].target) : disk' = o.disk
    /\ Finish(p)
    /\ SameLife /\ UNCHANGED stateOp

(* An invalidation error: checked under the lock, then carried out in      *)
(* steps that do not hold it                                               *)
HeartbeatInvalidated(p) ==
    /\ Answer(p, {"heartbeat"})
    /\ GoTo(p, "hb_ops")
    /\ Untouched /\ UNCHANGED <<disk, slot>>

HeartbeatDropOps(p) == LET i == InstOf[p] IN
    /\ At(p, "hb_ops", {"heartbeat"})
    /\ InvalidateOps(i)
    /\ StopTasks(i)
    /\ GoTo(p, "hb_runtime")
    /\ SameDecision /\ SameLife /\ UNCHANGED disk

HeartbeatDropRuntime(p) == LET i == InstOf[p] IN
    /\ At(p, "hb_runtime", {"heartbeat"})
    /\ ForgetDecision(i)
    /\ GoTo(p, "hb_cache")
    /\ SameLife /\ UNCHANGED <<disk, stateOp, slot, tasks>>

HeartbeatDropCache(p) ==
    /\ At(p, "hb_cache", {"heartbeat"})
    /\ \E o \in InvalidateAndClear(disk, call[p].target) : disk' = o.disk
    /\ Finish(p)
    /\ Untouched

HeartbeatUnavailable(p) ==
    /\ Answer(p, {"heartbeat"})
    /\ GoTo(p, "support")
    /\ Untouched /\ UNCHANGED <<disk, slot>>

-----------------------------------------------------------------------------
(* Deactivation, reset, offline assets                                     *)

(* complete_local_deactivation, on success and on every error that means   *)
(* the seat is already released                                            *)
DeactivateOk(p) == LET i == InstOf[p] IN
    /\ Answer(p, {"deactivate"})
    /\ InvalidateOps(i)
    /\ StopTasks(i)
    /\ ForgetDecision(i)
    /\ \E o \in InvalidateAndClear(disk, call[p].target) : disk' = o.disk
    /\ Return(p)
    /\ SameLife

(* try_reset.  When the cleanup fails, a denial left in the cache becomes  *)
(* the recovery candidate, whichever activation it is about.               *)
Reset(p) == LET i == InstOf[p] IN
    /\ "reset" \in Kinds
    /\ mode[i] = "up"
    /\ call[p].pc = "idle"
    /\ InvalidateOps(i)
    /\ StopTasks(i)
    /\ runtime' = [runtime EXCEPT ![i] = NoGrant]
    /\ \E o \in IF Current(i) # None THEN InvalidateAndClear(disk, Current(i)) ELSE Clear(disk) :
         /\ disk' = o.disk
         /\ recovery' = [recovery EXCEPT ![i] =
              IF o.res = "err" /\ o.disk.license.verdict \in OnlineDenials \cup {"offrefused"}
              THEN o.disk.license.id ELSE None]
    /\ UNCHANGED call
    /\ SameLife

(* A checked-out artifact: its slot must still be its own, it must verify  *)
(* against the current activation, and the cache must hold the target      *)
SyncOk(p) == LET i == InstOf[p] IN
    /\ At(p, "sent", {"sync"})
    /\ slot[i]["sync"] = call[p].op
    /\ Matches(disk, call[p].target)
    /\ \E a \in Ids :
         /\ Current(i) \in {None, a}
         /\ \E o \in SetMachineFile(disk, a) : disk' = o.disk
    /\ Finish(p)
    /\ Untouched

-----------------------------------------------------------------------------
ActivateStep(p) == BeginActivate(p) \/ ActivateOk(p) \/ StartTasks(p) \/ SpawnTasks(p)
ValidateStep(p) ==
    \/ BeginRestore(p) \/ BeginForeignRestore(p)
    \/ ValidateOk(p) \/ ForeignAnswer(p) \/ ValidateRefused(p)
    \/ ValidateRevoked(p) \/ ValidateInvalidated(p)
OfflineStep(p) ==
    \/ ValidateUnavailable(p) \/ RestoreUnavailable(p) \/ Fallback(p) \/ RestoreFallback(p)
    \/ Inspect(p) \/ InstallFoundDenial(p) \/ FinalizeOffline(p) \/ SpawnSupport(p)
HeartbeatStep(p) ==
    \/ HeartbeatOk(p) \/ HeartbeatInactive(p) \/ HeartbeatInvalidated(p) \/ HeartbeatDropOps(p)
    \/ HeartbeatDropRuntime(p) \/ HeartbeatDropCache(p) \/ HeartbeatUnavailable(p)
DeactivateStep(p) == CancelActivation(p) \/ DeactivateOk(p)
SyncStep(p) == BeginSync(p) \/ SyncOk(p)
AnyStep(p) ==
    \/ \E kind \in Kinds : BeginTargeted(p, kind)
    \/ Rejected(p) \/ Superseded(p) \/ ThrownDenial(p) \/ LifecycleDenial(p) \/ Reset(p)

CallerStep(p) ==
    \/ ActivateStep(p) \/ ValidateStep(p) \/ OfflineStep(p) \/ HeartbeatStep(p)
    \/ DeactivateStep(p) \/ SyncStep(p) \/ AnyStep(p)
InstanceStep(i) == StartRead(i) \/ StartWrite(i) \/ Crash(i) \/ Expire(i)

Next ==
    \/ \E p \in Procs : CallerStep(p)
    \/ \E i \in Instances : InstanceStep(i)

Spec == Init /\ [][Next]_vars

-----------------------------------------------------------------------------
(* Properties                                                              *)

Acts(p) == call'[p] # call[p]

(* The newest license operation of an instance is about the activation the *)
(* instance manages now, or about one that has just ended: a replacement   *)
(* or reset never leaves an operation for the old activation able to       *)
(* commit (ensure_current_license_operation).                              *)
CurrentOpTargetsCurrent ==
    \A p \in Procs : LET i == InstOf[p] IN
        /\ call[p].pc \in {"begun", "sent"}
        /\ call[p].kind \in {"validate", "restore", "heartbeat", "deactivate"}
        /\ call[p].op # 0
        /\ stateOp[i] = call[p].op
        => Current(i) \in {call[p].target, None}

(* An instance grants access only on the decision the cache holds: no      *)
(* interleaving of commits leaves a grant in memory for an activation that *)
(* the cache has dropped, replaced or recorded another verdict for.        *)
GrantIsBacked ==
    \A i \in Instances : Active(i) =>
        disk.license = [id |-> runtime[i].id, verdict |-> runtime[i].verdict]

(* "A running instance never re-reads mutable cache state written by       *)
(* another process as if it were its own current license" (client.rs): the *)
(* activation an instance decides about changes only by its own activation *)
(* request.                                                                *)
DecisionsAreOwn ==
    [][\A i \in Instances :
         runtime'[i].id \notin {None, Current(i)}
         => \E p \in Procs : InstOf[p] = i /\ call[p].kind = "activate" /\ Acts(p)]_vars

(* The same in memory: the decision about one activation is never changed  *)
(* or forgotten on behalf of a request about another one.  "Rejected or    *)
(* superseded responses leave the newer/last trusted state intact"         *)
(* (crates/licenseseat/README.md).                                         *)
OtherDecisionKept ==
    [][\A p \in Procs : LET i == InstOf[p] IN
         /\ Acts(p)
         /\ call[p].kind # "activate"
         /\ runtime[i].id \notin {None, call[p].target}
         => runtime'[i] = runtime[i] \/ mode'[i] = "down"]_vars

(* The cached record of one activation is never changed or removed on      *)
(* behalf of a request about another one, whichever instance made it; only *)
(* the commit of an activation replaces it.                                *)
OtherActivationKept ==
    [][\A p \in Procs :
         /\ Acts(p)
         /\ disk.license.id \notin {None, call[p].target}
         => \/ disk'.license = disk.license
            \/ call[p].kind = "activate" /\ disk'.license.verdict = "granted"]_vars
=============================================================================
