-------------------------- MODULE LicenseClient_proof --------------------------
(***************************************************************************)
(* Type correctness of the client, and the protection of a cached record   *)
(* against requests about other activations, for any number of callers,    *)
(* instances and activations, with and without storage failures.           *)
(***************************************************************************)
EXTENDS LicenseClient, TLAPS

-----------------------------------------------------------------------------
(* What every cache transaction preserves, for any content and any failure *)

Results == {"ok", "stale", "err"}
Outcomes == [disk : CacheContent, res : Results]

(* A cached record is identified by a real activation identity.            *)
LEMMA MatchingRecord ==
    ASSUME NEW d \in CacheContent, NEW id, Matches(d, id)
    PROVE  id \in Ids /\ d.license \in LicenseRecord /\ d.license.id = id
  BY DEF Matches, CacheContent, LicenseRecord, NoRecord

LEMMA StoreType ==
    ASSUME NEW d \in CacheContent, NEW rec \in LicenseRecord
    PROVE  StoreLicense(d, rec) \subseteq Outcomes
  BY DEF StoreLicense, Ok, Failed, Outcome, Outcomes, Results, CacheContent

LEMMA SetMachineFileType ==
    ASSUME NEW d \in CacheContent, NEW id \in Ids
    PROVE  SetMachineFile(d, id) \subseteq Outcomes
  BY DEF SetMachineFile, Ok, Failed, Outcome, Outcomes, Results, CacheContent

LEMMA ClearAssetsType ==
    ASSUME NEW d \in CacheContent
    PROVE  ClearOfflineAssets(d) \subseteq Outcomes
  BY DEF ClearOfflineAssets, Ok, Failed, Outcome, Outcomes, Results, CacheContent

LEMMA ClearType ==
    ASSUME NEW d \in CacheContent
    PROVE  Clear(d) \subseteq Outcomes
  BY DEF Clear, Ok, Failed, Outcome, Outcomes, Results, CacheContent, EmptyCache

LEMMA CommitType ==
    ASSUME NEW d \in CacheContent, NEW id \in Ids
    PROVE  CommitActivation(d, id) \subseteq Outcomes
<1> DEFINE rec == [id |-> id, verdict |-> "granted"]
<1>1. rec \in LicenseRecord
  BY DEF LicenseRecord, Verdicts
<1> HIDE DEF rec
<1>2. [d EXCEPT !.license = rec] \in CacheContent
  BY <1>1 DEF CacheContent
<1>3. [[d EXCEPT !.license = rec] EXCEPT !.art = None] \in CacheContent
  BY <1>2 DEF CacheContent
<1> QED
  BY <1>2, <1>3 DEF CommitActivation, Ok, Failed, Outcome, Outcomes, Results, rec

(* A conditional update leaves a foreign record alone; otherwise it writes *)
(* the verdict for the record that is there.                               *)
LEMMA UpdateType ==
    ASSUME NEW d \in CacheContent, NEW id, NEW v \in Verdicts
    PROVE  /\ UpdateValidation(d, id, v) \subseteq Outcomes
           /\ \A o \in UpdateValidation(d, id, v) :
                /\ o.res = "stale" => o.disk = d
                /\ o.res # "stale" => Matches(d, id)
<1>1. CASE UpdateValidation(d, id, v) = Stale(d)
  BY <1>1 DEF Stale, Outcome, Outcomes, Results
<1>2. CASE /\ Matches(d, id)
           /\ UpdateValidation(d, id, v) = StoreLicense(d, [id |-> id, verdict |-> v])
  <2>1. [id |-> id, verdict |-> v] \in LicenseRecord
    BY <1>2, MatchingRecord DEF LicenseRecord
  <2>2. UpdateValidation(d, id, v) \subseteq Outcomes
    BY <1>2, <2>1, StoreType
  <2>3. \A o \in StoreLicense(d, [id |-> id, verdict |-> v]) : o.res # "stale"
    BY DEF StoreLicense, Ok, Failed, Outcome
  <2> QED
    BY <1>2, <2>2, <2>3
<1> QED
  BY <1>1, <1>2 DEF UpdateValidation

LEMMA MarkType ==
    ASSUME NEW d \in CacheContent
    PROVE  MarkInvalid(d) \subseteq CacheContent
<1>1. CASE d.license.verdict = "none"
  BY <1>1 DEF MarkInvalid
<1>2. CASE d.license.verdict # "none"
  <2>1. d.license \in LicenseRecord
    BY <1>2 DEF CacheContent, NoRecord
  <2>2. [d EXCEPT !.license.verdict = "refused"] \in CacheContent
    BY <2>1 DEF CacheContent, LicenseRecord, Verdicts
  <2> QED
    BY <1>2, <2>2 DEF MarkInvalid
<1> QED
  BY <1>1, <1>2

LEMMA InvalidateType ==
    ASSUME NEW d \in CacheContent, NEW id
    PROVE  /\ InvalidateAndClear(d, id) \subseteq Outcomes
           /\ \A o \in InvalidateAndClear(d, id) : ~Matches(d, id) => o.disk = d
<1>1. CASE ~Matches(d, id)
  BY <1>1 DEF InvalidateAndClear, Stale, Outcome, Outcomes, Results
<1>2. CASE Matches(d, id)
  BY <1>2, MarkType, ClearType DEF InvalidateAndClear
<1> QED
  BY <1>1, <1>2

LEMMA StartupType ==
    ASSUME NEW rec \in LicenseRecord
    PROVE  StartupRecord(rec) \in LicenseRecord
  BY DEF StartupRecord, LicenseRecord, Verdicts

-----------------------------------------------------------------------------
(* The parts of the type invariant                                         *)

SlotsOK    == slot \in [Instances -> [Slots -> Nat]]
CallsOK    == call \in [Procs -> Call]
DecisionOK == /\ runtime \in [Instances -> Grant \cup {NoGrant}]
              /\ recovery \in [Instances -> Ids \cup {None}]
NumbersOK  == opSeq \in [Instances -> Nat] /\ stateOp \in [Instances -> Nat]
TasksOK    == tasks \in [Instances -> SUBSET {"timers", "support"}]
LifeOK     == /\ mode \in [Instances -> {"down", "starting", "up"}]
              /\ boot \in [Instances -> LicenseRecord \cup {NoRecord}]

LEMMA TypeParts ==
    TypeOK <=> /\ disk \in CacheContent
               /\ SlotsOK /\ CallsOK /\ DecisionOK /\ NumbersOK /\ TasksOK /\ LifeOK
  BY DEF TypeOK, SlotsOK, CallsOK, DecisionOK, NumbersOK, TasksOK, LifeOK

LEMMA TypePartsPrime ==
    TypeOK' <=> /\ (disk \in CacheContent)'
                /\ SlotsOK' /\ CallsOK' /\ DecisionOK' /\ NumbersOK' /\ TasksOK' /\ LifeOK'
  BY DEF TypeOK, SlotsOK, CallsOK, DecisionOK, NumbersOK, TasksOK, LifeOK

-----------------------------------------------------------------------------
(* What the building blocks of the actions do to the types                 *)

LEMMA SlotOfType == \A kind : SlotOf(kind) \in Slots
  BY DEF SlotOf, Slots

LEMMA IdleType == Idle \in Call
  BY DEF Idle, Call, PCs, CallKinds, AllKinds, Verdicts

LEMMA InstType == \A p \in Procs : InstOf[p] \in Instances
  BY InstOfType

LEMMA ReleasedType ==
    ASSUME NEW sl \in [Slots -> Nat], NEW p
    PROVE  /\ Released(sl, p) \in [Slots -> Nat]
           /\ [Released(sl, p) EXCEPT !["sync"] = 0] \in [Slots -> Nat]
<1>1. Released(sl, p) \in [Slots -> Nat]
  BY SlotOfType DEF Released
<1> QED
  BY <1>1

LEMMA FinishType ==
    ASSUME TypeOK, NEW p \in Procs
    PROVE  /\ Return(p) => CallsOK'
           /\ ReleaseSlot(p) => SlotsOK'
           /\ CancelSync(p) => SlotsOK'
           /\ Finish(p) => CallsOK' /\ SlotsOK'
<1>1. Return(p) => CallsOK'
  BY IdleType DEF TypeOK, Return, CallsOK
<1>2. slot[InstOf[p]] \in [Slots -> Nat]
  BY InstType DEF TypeOK
<1>3. /\ Released(slot[InstOf[p]], p) \in [Slots -> Nat]
      /\ [Released(slot[InstOf[p]], p) EXCEPT !["sync"] = 0] \in [Slots -> Nat]
  BY <1>2, ReleasedType
<1>4. ReleaseSlot(p) => SlotsOK'
  BY <1>3, InstType DEF TypeOK, ReleaseSlot, SlotsOK
<1>5. CancelSync(p) => SlotsOK'
  BY <1>3, InstType DEF TypeOK, CancelSync, SlotsOK
<1> QED
  BY <1>1, <1>4, <1>5 DEF Finish

LEMMA GoToType ==
    ASSUME TypeOK, NEW p \in Procs, NEW pc \in PCs, GoTo(p, pc)
    PROVE  CallsOK'
  BY DEF TypeOK, GoTo, CallsOK, Call

LEMMA DecideType ==
    ASSUME TypeOK, NEW i \in Instances, NEW id \in Ids, NEW v \in Verdicts, NEW src \in Sources,
           Decide(i, id, v, src)
    PROVE  DecisionOK'
<1>1. [id |-> id, verdict |-> v, source |-> src] \in Grant
  BY DEF Grant
<1> QED
  BY <1>1 DEF TypeOK, Decide, DecisionOK

LEMMA ForgetType ==
    ASSUME TypeOK, NEW i \in Instances, ForgetDecision(i)
    PROVE  DecisionOK'
  BY DEF TypeOK, ForgetDecision, DecisionOK

LEMMA InvalidateOpsType ==
    ASSUME TypeOK, NEW i \in Instances, InvalidateOps(i)
    PROVE  SlotsOK' /\ stateOp' \in [Instances -> Nat]
  BY DEF TypeOK, InvalidateOps, SlotsOK, NoSlots

LEMMA StopTasksType ==
    ASSUME TypeOK, NEW i \in Instances, StopTasks(i)
    PROVE  TasksOK'
  BY DEF TypeOK, StopTasks, TasksOK

LEMMA TakeNumberType ==
    ASSUME TypeOK, NEW i \in Instances, NEW s \in Slots, TakeNumber(i, s)
    PROVE  SlotsOK' /\ NumbersOK'
<1>1. NextOp(i) \in Nat
  BY DEF TypeOK, NextOp
<1> QED
  BY <1>1 DEF TypeOK, TakeNumber, SlotsOK, NumbersOK

LEMMA CurrentType ==
    ASSUME TypeOK, NEW i \in Instances
    PROVE  Current(i) \in Ids \cup {None}
  BY DEF TypeOK, Current, Established, Grant, NoGrant

LEMMA BeginType ==
    ASSUME TypeOK, NEW p \in Procs, NEW kind \in CallKinds, NEW pc \in PCs,
           NEW target \in Ids \cup {None}, NEW cached \in Ids \cup {None},
           Begin(p, kind, pc, target, cached)
    PROVE  CallsOK'
<1>1. NextOp(InstOf[p]) \in Nat
  BY InstType DEF TypeOK, NextOp
<1>2. [Idle EXCEPT !.pc = pc, !.kind = kind, !.op = NextOp(InstOf[p]),
                   !.target = target, !.cached = cached] \in Call
  BY <1>1, IdleType DEF Call
<1> QED
  BY <1>2 DEF TypeOK, Begin, CallsOK

LEMMA AnchorType ==
    ASSUME NEW d \in CacheContent
    PROVE  /\ AfterAnchor(d) \subseteq CacheContent
           /\ \A e \in AfterAnchor(d) : e.license = d.license
<1>1. \A o \in ClearOfflineAssets(d) : o.disk \in CacheContent /\ o.disk.license = d.license
  BY DEF ClearOfflineAssets, Ok, Failed, Outcome, CacheContent
<1> QED
  BY <1>1 DEF AfterAnchor

LEMMA SameType ==
    ASSUME TypeOK
    PROVE  /\ SameDecision => DecisionOK'
           /\ SameLife => LifeOK' /\ opSeq' \in [Instances -> Nat]
           /\ Untouched => DecisionOK' /\ LifeOK' /\ NumbersOK' /\ TasksOK'
           /\ UNCHANGED stateOp => stateOp' \in [Instances -> Nat]
           /\ UNCHANGED tasks => TasksOK'
           /\ UNCHANGED slot => SlotsOK'
           /\ UNCHANGED disk => (disk \in CacheContent)'
           /\ UNCHANGED call => CallsOK'
  BY DEF TypeOK, SameDecision, SameLife, Untouched, DecisionOK, LifeOK, NumbersOK, TasksOK,
         SlotsOK, CallsOK
-----------------------------------------------------------------------------
(* Every action preserves the types                                        *)

LEMMA InitType == Init => TypeOK
  BY IdleType DEF Init, TypeOK, CacheContent, EmptyCache, NoRecord, NoSlots

LEMMA InstanceStepType ==
    ASSUME TypeOK, NEW i \in Instances, InstanceStep(i)
    PROVE  TypeOK'
<1>1. CASE StartRead(i)
  <2>1. disk.license \in LicenseRecord \cup {NoRecord}
    BY DEF TypeOK, CacheContent
  <2> QED
    BY <1>1, <2>1 DEF StartRead, TypeOK
<1>2. CASE StartWrite(i)
  <2>1. boot[i].id # None => StartupRecord(boot[i]) \in LicenseRecord
    BY StartupType DEF TypeOK, NoRecord
  <2>2. \A o \in (IF boot[i].id = None THEN Ok({disk})
                ELSE StoreLicense(disk, StartupRecord(boot[i]))) : o.disk \in CacheContent
    BY <2>1, StoreType DEF TypeOK, Ok, Outcome, Outcomes
  <2>3. boot[i].id \in Ids \cup {None}
    BY DEF TypeOK, LicenseRecord, NoRecord
  <2>4. disk' \in CacheContent
    BY <1>2, <2>2 DEF StartWrite
  <2>5. LifeOK' /\ recovery' \in [Instances -> Ids \cup {None}]
    BY <1>2, <2>3 DEF StartWrite, TypeOK, LifeOK
  <2> QED
    BY <1>2, <2>4, <2>5 DEF StartWrite, TypeOK, LifeOK
<1>3. CASE Crash(i)
  <2>1. SlotsOK' /\ stateOp' \in [Instances -> Nat] /\ DecisionOK' /\ TasksOK'
    BY <1>3, InvalidateOpsType, ForgetType, StopTasksType DEF Crash
  <2>2. CallsOK'
    BY <1>3, IdleType DEF Crash, TypeOK, CallsOK
  <2>3. LifeOK' /\ opSeq' \in [Instances -> Nat] /\ (disk \in CacheContent)'
    BY <1>3 DEF Crash, TypeOK, LifeOK
  <2> QED
    BY <2>1, <2>2, <2>3, TypePartsPrime DEF NumbersOK
<1>4. CASE Expire(i)
  <2>1. runtime[i] \in Grant
    BY <1>4 DEF Expire, Active, TypeOK, NoGrant
  <2>2. \A v \in {"offrefused", "refused"} : [runtime[i] EXCEPT !.verdict = v] \in Grant
    BY <2>1 DEF Grant, Verdicts
  <2>3. runtime' \in [Instances -> Grant \cup {NoGrant}]
    BY <1>4, <2>2 DEF Expire, TypeOK
  <2> QED
    BY <1>4, <2>3 DEF Expire, TypeOK
<1> QED
  BY <1>1, <1>2, <1>3, <1>4 DEF InstanceStep

LEMMA ActivateStepType ==
    ASSUME TypeOK, NEW p \in Procs, ActivateStep(p)
    PROVE  TypeOK'
<1> DEFINE i == InstOf[p]
<1>1. i \in Instances
  BY InstType
<1>2. CASE BeginActivate(p)
  <2>1. CallsOK'
    BY <1>1, <1>2, CurrentType, BeginType DEF BeginActivate, CallKinds, AllKinds, PCs
  <2>2. SlotsOK' /\ NumbersOK'
    BY <1>1, <1>2, TakeNumberType DEF BeginActivate, Slots
  <2> QED
    BY <1>2, <2>1, <2>2, TypeParts, TypePartsPrime, SameType
       DEF BeginActivate, TakeNumber, SameDecision, LifeOK
<1>3. CASE ActivateOk(p)
  <2>0. PICK id \in Ids : \E o \in CommitActivation(disk, id) :
          /\ disk' = o.disk
          /\ \/ o.res = "err" /\ Finish(p) /\ Untouched
             \/ /\ o.res = "ok"
                /\ slot' = [slot EXCEPT ![i] = [NoSlots EXCEPT !["activation"] = call[p].op]]
                /\ StopTasks(i)
                /\ Decide(i, id, "granted", "online")
                /\ GoTo(p, "started")
                /\ SameLife /\ UNCHANGED stateOp
    BY <1>3 DEF ActivateOk
  <2>1. PICK o \in CommitActivation(disk, id) :
          /\ disk' = o.disk
          /\ \/ o.res = "err" /\ Finish(p) /\ Untouched
             \/ /\ o.res = "ok"
                /\ slot' = [slot EXCEPT ![i] = [NoSlots EXCEPT !["activation"] = call[p].op]]
                /\ StopTasks(i)
                /\ Decide(i, id, "granted", "online")
                /\ GoTo(p, "started")
                /\ SameLife /\ UNCHANGED stateOp
    BY <2>0
  <2>2. disk' \in CacheContent
    BY <2>1, CommitType DEF TypeOK, Outcomes
  <2>3. CASE o.res = "err" /\ Finish(p) /\ Untouched
    BY <2>2, <2>3, FinishType, SameType, TypePartsPrime
  <2>4. CASE /\ slot' = [slot EXCEPT ![i] = [NoSlots EXCEPT !["activation"] = call[p].op]]
             /\ StopTasks(i)
             /\ Decide(i, id, "granted", "online")
             /\ GoTo(p, "started")
             /\ SameLife /\ UNCHANGED stateOp
    <3>1. SlotsOK'
      BY <1>1, <2>4 DEF TypeOK, SlotsOK, NoSlots, Call
    <3>2. TasksOK' /\ DecisionOK' /\ CallsOK'
      BY <1>1, <2>4, StopTasksType, DecideType, GoToType DEF Verdicts, Sources, PCs
    <3> QED
      BY <2>2, <2>4, <3>1, <3>2, SameType, TypePartsPrime DEF NumbersOK
  <2> QED
    BY <2>1, <2>3, <2>4
<1>4. CASE StartTasks(p)
  <2>1. CallsOK' /\ SlotsOK'
    BY <1>4, GoToType, FinishType, SameType DEF StartTasks, PCs
  <2> QED
    BY <1>4, <2>1, SameType, TypePartsPrime DEF StartTasks
<1>5. CASE SpawnTasks(p)
  <2>1. TasksOK'
    BY <1>1, <1>5 DEF SpawnTasks, TypeOK, TasksOK
  <2> QED
    BY <1>5, <2>1, FinishType, SameType, TypePartsPrime DEF SpawnTasks, NumbersOK
<1> QED
  BY <1>2, <1>3, <1>4, <1>5 DEF ActivateStep

LEMMA ValidatedType ==
    ASSUME TypeOK, NEW p \in Procs
    PROVE  /\ Validated(p) => CallsOK' /\ SlotsOK'
           /\ Decided(p) => CallsOK' /\ SlotsOK'
           /\ Failing(p) => CallsOK' /\ SlotsOK'
  BY GoToType, FinishType, SameType DEF Validated, Decided, Failing, PCs

LEMMA CommitDenialType ==
    ASSUME TypeOK, NEW p \in Procs, CommitDenial(p)
    PROVE  TypeOK'
<1> DEFINE i == InstOf[p]
           id == call[p].target
<1>1. i \in Instances
  BY InstType
<1>2. PICK o \in UpdateValidation(disk, id, "denied") :
        \/ /\ o.res = "stale"
           /\ Finish(p)
           /\ Untouched /\ UNCHANGED disk
        \/ /\ o.res # "stale"
           /\ \E c \in IF o.res = "err" THEN ClearOfflineAssets(o.disk) ELSE {o} :
                disk' = c.disk
           /\ CancelSync(p)
           /\ StopTasks(i)
           /\ Decide(i, id, "denied", "failclosed")
           /\ Return(p)
           /\ SameLife /\ UNCHANGED stateOp
  BY DEF CommitDenial
<1>3. o \in Outcomes /\ (o.res # "stale" => id \in Ids)
  BY UpdateType, MatchingRecord DEF TypeOK, Verdicts
<1>4. CASE o.res = "stale"
  BY <1>2, <1>4, FinishType, SameType, TypePartsPrime
<1>5. CASE o.res # "stale"
  <2>1. disk' \in CacheContent
    BY <1>2, <1>3, <1>5, ClearAssetsType DEF Outcomes
  <2>2. SlotsOK' /\ CallsOK'
    BY <1>2, <1>5, FinishType
  <2>3. TasksOK' /\ DecisionOK'
    BY <1>1, <1>2, <1>3, <1>5, StopTasksType, DecideType DEF Verdicts, Sources
  <2> QED
    BY <1>2, <1>5, <2>1, <2>2, <2>3, SameType, TypePartsPrime DEF NumbersOK
<1> QED
  BY <1>4, <1>5

LEMMA RestoreTypes ==
    ASSUME TypeOK, NEW p \in Procs
    PROVE  /\ BeginRestore(p) => TypeOK'
           /\ BeginForeignRestore(p) => TypeOK'
           /\ ForeignAnswer(p) => TypeOK'
<1> DEFINE i == InstOf[p]
<1>1. i \in Instances /\ disk.license.id \in Ids \cup {None}
  BY InstType DEF TypeOK, CacheContent, LicenseRecord, NoRecord
<1>2. CASE BeginRestore(p)
  <2>1. CallsOK'
    BY <1>1, <1>2, CurrentType, BeginType DEF BeginRestore, CallKinds, AllKinds, PCs
  <2>2. SlotsOK' /\ NumbersOK'
    BY <1>1, <1>2, TakeNumberType DEF BeginRestore, Slots
  <2> QED
    BY <1>2, <2>1, <2>2, TypeParts, TypePartsPrime, SameType
       DEF BeginRestore, TakeNumber, SameDecision, LifeOK
<1>3. CASE BeginForeignRestore(p)
  <2>1. [Idle EXCEPT !.pc = "sent", !.kind = "restore", !.cached = disk.license.id] \in Call
    BY <1>1, IdleType DEF Call, CallKinds, AllKinds, PCs
  <2>2. CallsOK'
    BY <1>3, <2>1 DEF BeginForeignRestore, TypeOK, CallsOK
  <2> QED
    BY <1>3, <2>2, SameType, TypePartsPrime DEF BeginForeignRestore
<1>4. CASE ForeignAnswer(p)
  <2>1. CallsOK'
    BY <1>4, GoToType DEF ForeignAnswer, PCs
  <2> QED
    BY <1>4, <2>1, SameType, TypePartsPrime DEF ForeignAnswer
<1> QED
  BY <1>2, <1>3, <1>4

LEMMA ValidateOkType ==
    ASSUME TypeOK, NEW p \in Procs, ValidateOk(p)
    PROVE  TypeOK'
<1> DEFINE i == InstOf[p]
           id == call[p].target
<1>1. i \in Instances
  BY InstType
<1>2. PICK o \in UpdateValidation(disk, id, "granted") :
        \/ /\ o.res # "ok"
           /\ disk' = o.disk
           /\ Finish(p)
           /\ Untouched
        \/ /\ o.res = "ok"
           /\ disk' \in AfterAnchor(o.disk)
           /\ Decide(i, id, "granted", "online")
           /\ Validated(p)
           /\ SameLife /\ UNCHANGED <<stateOp, tasks>>
  BY DEF ValidateOk
<1>3. o \in Outcomes /\ (o.res # "stale" => id \in Ids)
  BY UpdateType, MatchingRecord DEF TypeOK, Verdicts
<1>4. CASE o.res # "ok"
  BY <1>2, <1>3, <1>4, FinishType, SameType, TypePartsPrime DEF Outcomes
<1>5. CASE o.res = "ok"
  <2>1. disk' \in CacheContent
    BY <1>2, <1>3, <1>5, AnchorType DEF Outcomes
  <2>2. SlotsOK' /\ CallsOK'
    BY <1>2, <1>5, ValidatedType
  <2>3. DecisionOK'
    BY <1>1, <1>2, <1>3, <1>5, DecideType DEF Verdicts, Sources
  <2> QED
    BY <1>2, <1>5, <2>1, <2>2, <2>3, SameType, TypePartsPrime DEF NumbersOK
<1> QED
  BY <1>4, <1>5

LEMMA ValidateRefusedType ==
    ASSUME TypeOK, NEW p \in Procs, ValidateRefused(p)
    PROVE  TypeOK'
<1> DEFINE i == InstOf[p]
           id == call[p].target
           Refuse(v, o) ==
             \/ /\ o.res = "stale"
                /\ Finish(p)
                /\ Untouched /\ UNCHANGED disk
             \/ /\ o.res # "stale"
                /\ \E c \in IF o.res = "ok" /\ v = "denied" THEN {o}
                             ELSE ClearOfflineAssets(o.disk) : disk' = c.disk
                /\ CancelSync(p)
                /\ StopTasks(i)
                /\ Decide(i, id, v, IF o.res = "ok" THEN "online" ELSE "failclosed")
                /\ Return(p)
                /\ SameLife /\ UNCHANGED stateOp
<1>1. i \in Instances
  BY InstType
<1>2. PICK v \in OnlineDenials : \E o \in UpdateValidation(disk, id, v) : Refuse(v, o)
  BY DEF ValidateRefused
<1>3. PICK o \in UpdateValidation(disk, id, v) : Refuse(v, o)
  BY <1>2
<1>4. v \in Verdicts
  BY DEF OnlineDenials, Verdicts
<1>5. o \in Outcomes /\ (o.res # "stale" => id \in Ids)
  BY <1>4, UpdateType, MatchingRecord DEF TypeOK
<1>6. CASE o.res = "stale"
  BY <1>3, <1>6, FinishType, SameType, TypePartsPrime
<1>7. CASE o.res # "stale"
  <2>1. disk' \in CacheContent
    BY <1>3, <1>5, <1>7, ClearAssetsType DEF Outcomes
  <2>2. SlotsOK' /\ CallsOK'
    BY <1>3, <1>7, FinishType
  <2>3. TasksOK'
    BY <1>1, <1>3, <1>7, StopTasksType
  <2>4. (IF o.res = "ok" THEN "online" ELSE "failclosed") \in Sources
    BY DEF Sources
  <2>5. DecisionOK'
    BY <1>1, <1>3, <1>4, <1>5, <1>7, <2>4, DecideType
  <2> QED
    BY <1>3, <1>7, <2>1, <2>2, <2>3, <2>5, SameType, TypePartsPrime DEF NumbersOK
<1> QED
  BY <1>6, <1>7

LEMMA ValidateRevokedType ==
    ASSUME TypeOK, NEW p \in Procs, ValidateRevoked(p)
    PROVE  TypeOK'
<1> DEFINE i == InstOf[p]
           id == call[p].target
           Revoke(o) ==
             \E a \in ClearOfflineAssets(o.disk) :
             \E c \in IF o.res = "err" THEN {a} ELSE InvalidateAndClear(a.disk, id) :
                 /\ disk' = c.disk
                 /\ IF o.res = "err" \/ c.res = "err"
                    THEN Decide(i, id, "refused", "failclosed")
                    ELSE ForgetDecision(i)
<1>1. i \in Instances
  BY InstType
<1>2. PICK o \in UpdateValidation(disk, id, "refused") :
        \/ /\ o.res = "stale"
           /\ Finish(p)
           /\ Untouched /\ UNCHANGED disk
        \/ /\ o.res # "stale"
           /\ Revoke(o)
           /\ CancelSync(p)
           /\ StopTasks(i)
           /\ Return(p)
           /\ SameLife /\ UNCHANGED stateOp
  BY DEF ValidateRevoked
<1>3. o \in Outcomes /\ (o.res # "stale" => id \in Ids)
  BY UpdateType, MatchingRecord DEF TypeOK, Verdicts
<1>4. CASE o.res = "stale"
  BY <1>2, <1>4, FinishType, SameType, TypePartsPrime
<1>5. CASE o.res # "stale"
  <2>1. PICK a \in ClearOfflineAssets(o.disk) :
          \E c \in IF o.res = "err" THEN {a} ELSE InvalidateAndClear(a.disk, id) :
             /\ disk' = c.disk
             /\ IF o.res = "err" \/ c.res = "err"
                THEN Decide(i, id, "refused", "failclosed")
                ELSE ForgetDecision(i)
    BY <1>2, <1>5
  <2>2. a \in Outcomes
    BY <1>3, ClearAssetsType DEF Outcomes
  <2>3. disk' \in CacheContent
    BY <2>1, <2>2, InvalidateType DEF Outcomes
  <2>4. DecisionOK'
    BY <1>1, <1>3, <1>5, <2>1, DecideType, ForgetType DEF Verdicts, Sources
  <2>5. SlotsOK' /\ CallsOK' /\ TasksOK'
    BY <1>1, <1>2, <1>5, FinishType, StopTasksType
  <2> QED
    BY <1>2, <1>5, <2>3, <2>4, <2>5, SameType, TypePartsPrime DEF NumbersOK
<1> QED
  BY <1>4, <1>5

(* Dropping the activation a request is about, in memory and in the cache  *)
LEMMA DropType ==
    ASSUME TypeOK, NEW p \in Procs
    PROVE  /\ ValidateInvalidated(p) => TypeOK'
           /\ DeactivateOk(p) => TypeOK'
           /\ HeartbeatInactive(p) => TypeOK'
           /\ HeartbeatDropOps(p) => TypeOK'
           /\ HeartbeatDropRuntime(p) => TypeOK'
           /\ HeartbeatDropCache(p) => TypeOK'
<1>1. InstOf[p] \in Instances
  BY InstType
<1>2. \A o \in InvalidateAndClear(disk, call[p].target) : o.disk \in CacheContent
  BY InvalidateType DEF TypeOK, Outcomes
<1>3. CASE ValidateInvalidated(p) \/ DeactivateOk(p)
  BY <1>1, <1>2, <1>3, InvalidateOpsType, StopTasksType, ForgetType, FinishType, SameType, TypePartsPrime
     DEF ValidateInvalidated, DeactivateOk, NumbersOK
<1>4. CASE HeartbeatInactive(p)
  BY <1>1, <1>2, <1>4, StopTasksType, ForgetType, FinishType, SameType, TypePartsPrime
     DEF HeartbeatInactive, NumbersOK
<1>5. CASE HeartbeatDropOps(p)
  <2>1. CallsOK'
    BY <1>5, GoToType DEF HeartbeatDropOps, PCs
  <2> QED
    BY <1>1, <1>5, <2>1, InvalidateOpsType, StopTasksType, SameType, TypePartsPrime
       DEF HeartbeatDropOps, NumbersOK
<1>6. CASE HeartbeatDropRuntime(p)
  <2>1. CallsOK'
    BY <1>6, GoToType DEF HeartbeatDropRuntime, PCs
  <2> QED
    BY <1>1, <1>6, <2>1, ForgetType, SameType, TypePartsPrime DEF HeartbeatDropRuntime, NumbersOK
<1>7. CASE HeartbeatDropCache(p)
  BY <1>2, <1>7, FinishType, SameType, TypePartsPrime DEF HeartbeatDropCache
<1> QED
  BY <1>3, <1>4, <1>5, <1>6, <1>7

LEMMA ValidateStepType ==
    ASSUME TypeOK, NEW p \in Procs, ValidateStep(p)
    PROVE  TypeOK'
  BY RestoreTypes, ValidateOkType, ValidateRefusedType, ValidateRevokedType, DropType
     DEF ValidateStep

LEMMA OfflineEntryType ==
    ASSUME TypeOK, NEW p \in Procs
    PROVE  /\ EnterOffline(p) => CallsOK'
           /\ call' = RestoreOffline(p) => CallsOK'
<1>1. call[p] \in Call /\ stateOp[InstOf[p]] \in Nat
  BY InstType DEF TypeOK
<1>2. ASSUME EnterOffline(p) PROVE CallsOK'
  <2>1. [call[p] EXCEPT !.pc = "inspect", !.expect = stateOp[InstOf[p]]] \in Call
    BY <1>1 DEF Call, PCs
  <2> QED
    BY <1>2, <2>1 DEF EnterOffline, TypeOK, CallsOK
<1>3. ASSUME call' = RestoreOffline(p) PROVE CallsOK'
  <2>1. [call[p] EXCEPT !.pc = "unavailable", !.kind = "restore_offline",
                        !.target = call[p].cached] \in Call
    BY <1>1 DEF Call, PCs, CallKinds
  <2> QED
    BY <1>3, <2>1 DEF RestoreOffline, TypeOK, CallsOK
<1> QED
  BY <1>2, <1>3

LEMMA FoundType ==
    ASSUME TypeOK, NEW p \in Procs, NEW pc \in PCs, NEW v \in Verdicts,
           call' = [call EXCEPT ![p].pc = pc, ![p].found = v]
    PROVE  CallsOK'
<1>1. call[p] \in Call
  BY DEF TypeOK
<1>2. [call[p] EXCEPT !.pc = pc, !.found = v] \in Call
  BY <1>1 DEF Call
<1> QED
  BY <1>2 DEF TypeOK, CallsOK

LEMMA InspectType ==
    ASSUME TypeOK, NEW p \in Procs, Inspect(p)
    PROVE  TypeOK'
<1>1. Untouched /\ UNCHANGED disk
  BY DEF Inspect
<1>2. CallsOK' /\ SlotsOK'
  <2>1. CASE Decided(p) \/ Failing(p)
    BY <2>1, ValidatedType
  <2>2. ASSUME NEW v \in Verdicts, NEW pc \in PCs, UNCHANGED slot,
               call' = [call EXCEPT ![p].pc = pc, ![p].found = v]
        PROVE  CallsOK' /\ SlotsOK'
    BY <2>2, FoundType, SameType
  <2>3. \/ Decided(p) \/ Failing(p)
        \/ /\ UNCHANGED slot
           /\ \E v \in OnlineDenials \cup {"offgranted", "offrefused"} : \E pc \in {"found", "finalize"} :
                call' = [call EXCEPT ![p].pc = pc, ![p].found = v]
    BY DEF Inspect
  <2> QED
    BY <2>1, <2>2, <2>3 DEF OnlineDenials, Verdicts, PCs
<1> QED
  BY <1>1, <1>2, SameType, TypePartsPrime

LEMMA FallbackType ==
    ASSUME TypeOK, NEW p \in Procs
    PROVE  /\ Fallback(p) => TypeOK'
           /\ ValidateUnavailable(p) => TypeOK'
           /\ RestoreUnavailable(p) => TypeOK'
           /\ RestoreFallback(p) => TypeOK'
           /\ HeartbeatUnavailable(p) => TypeOK'
           /\ HeartbeatInvalidated(p) => TypeOK'
           /\ SpawnSupport(p) => TypeOK'
<1>1. \A pc \in PCs : GoTo(p, pc) => CallsOK'
  BY GoToType
<1>2. CASE Fallback(p)
  <2>1. TasksOK'
    BY <1>2, InstType DEF Fallback, TypeOK, TasksOK
  <2>2. CallsOK' /\ SlotsOK'
    BY <1>2, OfflineEntryType, FinishType, SameType DEF Fallback
  <2> QED
    BY <1>2, <2>1, <2>2, SameType, TypePartsPrime DEF Fallback, NumbersOK
<1>3. CASE ValidateUnavailable(p)
  BY <1>1, <1>3, SameType, TypePartsPrime DEF ValidateUnavailable, PCs
<1>4. CASE RestoreUnavailable(p)
  BY <1>4, OfflineEntryType, SameType, TypePartsPrime DEF RestoreUnavailable
<1>5. CASE RestoreFallback(p)
  <2>1. CallsOK'
    BY <1>1, <1>5, OfflineEntryType DEF RestoreFallback, PCs
  <2> QED
    BY <1>5, <2>1, SameType, TypePartsPrime DEF RestoreFallback
<1>6. CASE HeartbeatUnavailable(p)
  BY <1>1, <1>6, SameType, TypePartsPrime DEF HeartbeatUnavailable, PCs
<1>7. CASE HeartbeatInvalidated(p)
  BY <1>1, <1>7, SameType, TypePartsPrime DEF HeartbeatInvalidated, PCs
<1>8. CASE SpawnSupport(p)
  <2>1. TasksOK'
    BY <1>8, InstType DEF SpawnSupport, TypeOK, TasksOK
  <2> QED
    BY <1>8, <2>1, FinishType, SameType, TypePartsPrime DEF SpawnSupport, NumbersOK
<1> QED
  BY <1>2, <1>3, <1>4, <1>5, <1>6, <1>7, <1>8

LEMMA InstallFoundDenialType ==
    ASSUME TypeOK, NEW p \in Procs, InstallFoundDenial(p)
    PROVE  TypeOK'
<1>1. CallsOK' /\ SlotsOK'
  BY ValidatedType DEF InstallFoundDenial
<1>2. DecisionOK'
  <2>1. CASE SameDecision
    BY <2>1, SameType
  <2>2. CASE StillExpected(p) /\ Decide(InstOf[p], call[p].target, call[p].found, "failclosed")
    <3>1. call[p].target \in Ids
      BY <2>2, MatchingRecord DEF StillExpected, TypeOK
    <3>2. call[p].found \in Verdicts
      BY DEF TypeOK, Call
    <3> QED
      BY <2>2, <3>1, <3>2, InstType, DecideType DEF Sources
  <2> QED
    BY <2>1, <2>2 DEF InstallFoundDenial
<1> QED
  BY <1>1, <1>2, SameType, TypePartsPrime DEF InstallFoundDenial, NumbersOK

LEMMA FinalizeOfflineType ==
    ASSUME TypeOK, NEW p \in Procs, FinalizeOffline(p)
    PROVE  TypeOK'
<1> DEFINE i == InstOf[p]
           id == call[p].target
           Commit(v, o) ==
             /\ disk' = o.disk
             /\ IF o.res = "ok"
                THEN /\ Decide(i, id, v, IF v = "offgranted" THEN "signed" ELSE "failclosed")
                     /\ Decided(p)
                ELSE SameDecision /\ Failing(p)
<1>1. LifeOK' /\ NumbersOK' /\ TasksOK'
  BY SameType DEF FinalizeOffline, NumbersOK
<1>2. CASE ~StillExpected(p)
  BY <1>1, <1>2, ValidatedType, SameType, TypePartsPrime DEF FinalizeOffline
<1>3. CASE StillExpected(p)
  <2>1. PICK v \in {call[p].found, "offrefused"} : \E o \in UpdateValidation(disk, id, v) : Commit(v, o)
    BY <1>3 DEF FinalizeOffline
  <2>2. PICK o \in UpdateValidation(disk, id, v) : Commit(v, o)
    BY <2>1
  <2>3. v \in Verdicts
    <3>1. call[p].found \in Verdicts
      BY DEF TypeOK, Call
    <3> QED
      BY <3>1 DEF Verdicts
  <2>4. o \in Outcomes /\ (o.res # "stale" => id \in Ids)
    BY <2>3, UpdateType, MatchingRecord DEF TypeOK
  <2>5. CallsOK' /\ SlotsOK'
    BY <2>2, ValidatedType
  <2>6. (IF v = "offgranted" THEN "signed" ELSE "failclosed") \in Sources
    BY DEF Sources
  <2>7. DecisionOK'
    BY <2>2, <2>3, <2>4, <2>6, InstType, DecideType, SameType
  <2> QED
    BY <1>1, <2>2, <2>4, <2>5, <2>7, TypePartsPrime DEF Outcomes
<1> QED
  BY <1>2, <1>3

LEMMA OfflineStepType ==
    ASSUME TypeOK, NEW p \in Procs, OfflineStep(p)
    PROVE  TypeOK'
  BY FallbackType, InspectType, InstallFoundDenialType, FinalizeOfflineType DEF OfflineStep

LEMMA HeartbeatOkType ==
    ASSUME TypeOK, NEW p \in Procs, HeartbeatOk(p)
    PROVE  TypeOK'
<1> DEFINE i == InstOf[p]
           id == call[p].target
<1>1. PICK o \in UpdateValidation(disk, id, "granted") :
        IF o.res = "ok"
        THEN disk' \in AfterAnchor(o.disk) /\ Decide(i, id, "granted", "online")
        ELSE disk' = o.disk /\ SameDecision
  BY DEF HeartbeatOk
<1>2. o \in Outcomes /\ (o.res # "stale" => id \in Ids)
  BY UpdateType, MatchingRecord DEF TypeOK, Verdicts
<1>3. disk' \in CacheContent
  BY <1>1, <1>2, AnchorType DEF Outcomes
<1>4. DecisionOK'
  BY <1>1, <1>2, InstType, DecideType, SameType DEF Verdicts, Sources
<1> QED
  BY <1>3, <1>4, FinishType, SameType, TypePartsPrime DEF HeartbeatOk, NumbersOK

LEMMA HeartbeatStepType ==
    ASSUME TypeOK, NEW p \in Procs, HeartbeatStep(p)
    PROVE  TypeOK'
  BY HeartbeatOkType, DropType, FallbackType DEF HeartbeatStep

LEMMA BeginTargetedType ==
    ASSUME TypeOK, NEW p \in Procs, NEW kind, BeginTargeted(p, kind)
    PROVE  TypeOK'
<1>1. kind \in CallKinds
  BY DEF BeginTargeted, CallKinds, AllKinds
<1>2. (IF kind = "deactivate" THEN "begun" ELSE "sent") \in PCs
  BY DEF PCs
<1>3. CallsOK'
  BY <1>1, <1>2, InstType, CurrentType, BeginType DEF BeginTargeted
<1>4. SlotsOK' /\ NumbersOK'
  BY InstType, SlotOfType, TakeNumberType DEF BeginTargeted
<1> QED
  BY <1>3, <1>4, TypeParts, TypePartsPrime, SameType
     DEF BeginTargeted, TakeNumber, SameDecision, LifeOK

LEMMA DeactivateStepType ==
    ASSUME TypeOK, NEW p \in Procs, DeactivateStep(p)
    PROVE  TypeOK'
<1>1. CASE CancelActivation(p)
  <2>1. CallsOK'
    BY <1>1, GoToType DEF CancelActivation, PCs
  <2>2. SlotsOK'
    BY <1>1, InstType DEF CancelActivation, TypeOK, SlotsOK
  <2> QED
    BY <1>1, <2>1, <2>2, SameType, TypePartsPrime DEF CancelActivation
<1> QED
  BY <1>1, DropType DEF DeactivateStep

LEMMA SyncStepType ==
    ASSUME TypeOK, NEW p \in Procs, SyncStep(p)
    PROVE  TypeOK'
<1>1. CASE BeginSync(p)
  <2>1. CallsOK'
    BY <1>1, InstType, CurrentType, BeginType DEF BeginSync, CallKinds, AllKinds, PCs
  <2>2. NextOp(InstOf[p]) \in Nat
    BY InstType DEF NextOp, TypeOK
  <2>3. SlotsOK' /\ NumbersOK'
    BY <1>1, <2>2 DEF BeginSync, TypeOK, SlotsOK, NumbersOK
  <2> QED
    BY <1>1, <2>1, <2>3, TypeParts, TypePartsPrime, SameType
       DEF BeginSync, SameDecision, LifeOK
<1>2. CASE SyncOk(p)
  <2>1. \A a \in Ids : \A o \in SetMachineFile(disk, a) : o.disk \in CacheContent
    BY SetMachineFileType DEF TypeOK, Outcomes
  <2> QED
    BY <1>2, <2>1, FinishType, SameType, TypePartsPrime DEF SyncOk
<1> QED
  BY <1>1, <1>2 DEF SyncStep

LEMMA ResetType ==
    ASSUME TypeOK, NEW p \in Procs, Reset(p)
    PROVE  TypeOK'
<1> DEFINE i == InstOf[p]
           Cleanup == IF Current(i) # None THEN InvalidateAndClear(disk, Current(i)) ELSE Clear(disk)
<1>1. PICK o \in Cleanup :
         /\ disk' = o.disk
         /\ recovery' = [recovery EXCEPT ![i] =
              IF o.res = "err" /\ o.disk.license.verdict \in OnlineDenials \cup {"offrefused"}
              THEN o.disk.license.id ELSE None]
  BY DEF Reset
<1>2. o.disk \in CacheContent
  BY InvalidateType, ClearType DEF TypeOK, Outcomes
<1>3. o.disk.license.id \in Ids \cup {None}
  BY <1>2 DEF CacheContent, LicenseRecord, NoRecord
<1>4. DecisionOK'
  BY <1>1, <1>3 DEF Reset, TypeOK, DecisionOK
<1>5. SlotsOK' /\ stateOp' \in [Instances -> Nat] /\ TasksOK'
  BY InstType, InvalidateOpsType, StopTasksType DEF Reset
<1> QED
  BY <1>1, <1>2, <1>4, <1>5, SameType, TypePartsPrime DEF Reset, NumbersOK

LEMMA AnyStepType ==
    ASSUME TypeOK, NEW p \in Procs, AnyStep(p)
    PROVE  TypeOK'
<1>1. CASE Rejected(p) \/ Superseded(p)
  BY <1>1, FinishType, SameType, TypePartsPrime DEF Rejected, Superseded
<1>2. CASE ThrownDenial(p) \/ LifecycleDenial(p)
  BY <1>2, CommitDenialType DEF ThrownDenial, LifecycleDenial
<1> QED
  BY <1>1, <1>2, BeginTargetedType, ResetType DEF AnyStep

LEMMA NextType == TypeOK /\ [Next]_vars => TypeOK'
<1> SUFFICES ASSUME TypeOK, [Next]_vars PROVE TypeOK'
  OBVIOUS
<1>1. ASSUME NEW p \in Procs, CallerStep(p) PROVE TypeOK'
  BY <1>1, ActivateStepType, ValidateStepType, OfflineStepType, HeartbeatStepType,
     DeactivateStepType, SyncStepType, AnyStepType DEF CallerStep
<1>2. ASSUME NEW i \in Instances, InstanceStep(i) PROVE TypeOK'
  BY <1>2, InstanceStepType
<1>3. CASE UNCHANGED vars
  BY <1>3 DEF vars, TypeOK
<1> QED
  BY <1>1, <1>2, <1>3 DEF Next

(* Every reachable state is well typed: cache records carry the identity   *)
(* of an activation, and each piece of per-instance state in client.rs     *)
(* keeps its range through every handler, failure and crash.               *)
THEOREM TypeCorrect == Spec => []TypeOK
<1>1. Spec => []TypeOK
  BY InitType, NextType, PTL DEF Spec
<1> QED
  BY <1>1

-----------------------------------------------------------------------------
(* A request about one activation and the cached record of another         *)

RecordKept == disk'.license = disk.license

LEMMA CommitLeavesGrant ==
    ASSUME NEW d \in CacheContent, NEW id \in Ids
    PROVE  \A o \in CommitActivation(d, id) :
             o.disk.license = d.license \/ o.disk.license.verdict = "granted"
<1> DEFINE marker == [d EXCEPT !.license = [id |-> id, verdict |-> "granted"]]
           clean == [marker EXCEPT !.art = None]
<1>1. marker.license.verdict = "granted" /\ clean.license.verdict = "granted"
  BY DEF CacheContent
<1>2. \A o \in CommitActivation(d, id) : o.disk \in {d, marker, clean}
  <2> HIDE DEF marker, clean
  <2>1. CommitActivation(d, id) =
          Ok({clean} \cup IF Faults THEN {marker} ELSE {}) \cup Failed({d, marker})
    BY DEF CommitActivation, marker, clean
  <2> QED
    BY <2>1 DEF Ok, Failed, Outcome
<1> QED
  BY <1>1, <1>2

LEMMA ArtifactWriteKeepsRecord ==
    ASSUME NEW d \in CacheContent, NEW a \in Ids
    PROVE  \A o \in SetMachineFile(d, a) : o.disk.license = d.license
  BY DEF SetMachineFile, Ok, Failed, Outcome, CacheContent

(* Every commit about an activation is conditional on its identity still   *)
(* being the cached one.                                                   *)
LEMMA ForeignRecordKept ==
    ASSUME TypeOK, NEW p \in Procs, CallerStep(p), Acts(p),
           disk.license.id \notin {None, call[p].target}
    PROVE  RecordKept \/ (call[p].kind = "activate" /\ disk'.license.verdict = "granted")
<1> DEFINE id == call[p].target
<1>1. ~Matches(disk, id)
  BY DEF Matches
<1>2. \A v \in Verdicts : \A o \in UpdateValidation(disk, id, v) : o.res = "stale" /\ o.disk = disk
  BY <1>1, UpdateType DEF TypeOK
<1>3. \A o \in InvalidateAndClear(disk, id) : o.disk = disk
  BY <1>1, InvalidateType DEF TypeOK
<1>4. CASE UNCHANGED disk
  BY <1>4 DEF RecordKept
<1>5. CASE ActivateStep(p)
  <2>1. CASE ActivateOk(p)
    <3>1. PICK a \in Ids : \E o \in CommitActivation(disk, a) : disk' = o.disk
      BY <2>1 DEF ActivateOk
    <3>2. call[p].kind = "activate"
      BY <2>1 DEF ActivateOk, Answer, At
    <3> QED
      BY <3>1, <3>2, CommitLeavesGrant DEF RecordKept, TypeOK
  <2> QED
    BY <1>4, <1>5, <2>1 DEF ActivateStep, BeginActivate, TakeNumber, StartTasks, SpawnTasks
<1>6. CASE ValidateStep(p)
  <2>1. CASE ValidateOk(p)
    BY <1>2, <2>1 DEF ValidateOk, Verdicts, RecordKept
  <2>2. CASE ValidateRefused(p)
    BY <1>2, <2>2 DEF ValidateRefused, OnlineDenials, Verdicts, RecordKept
  <2>3. CASE ValidateRevoked(p)
    BY <1>2, <2>3 DEF ValidateRevoked, Verdicts, RecordKept
  <2>4. CASE ValidateInvalidated(p)
    BY <1>3, <2>4 DEF ValidateInvalidated, RecordKept
  <2> QED
    BY <1>4, <1>6, <2>1, <2>2, <2>3, <2>4
       DEF ValidateStep, BeginRestore, BeginForeignRestore, TakeNumber, ForeignAnswer
<1>7. CASE OfflineStep(p)
  <2>1. CASE FinalizeOffline(p)
    BY <1>1, <2>1 DEF FinalizeOffline, StillExpected, RecordKept
  <2> QED
    BY <1>4, <1>7, <2>1
       DEF OfflineStep, ValidateUnavailable, RestoreUnavailable, Fallback, RestoreFallback,
           Inspect, InstallFoundDenial, SpawnSupport
<1>8. CASE HeartbeatStep(p)
  <2>1. CASE HeartbeatOk(p)
    BY <1>2, <2>1 DEF HeartbeatOk, Verdicts, RecordKept
  <2>2. CASE HeartbeatInactive(p) \/ HeartbeatDropCache(p)
    BY <1>3, <2>2 DEF HeartbeatInactive, HeartbeatDropCache, RecordKept
  <2> QED
    BY <1>4, <1>8, <2>1, <2>2
       DEF HeartbeatStep, HeartbeatInvalidated, HeartbeatDropOps, HeartbeatDropRuntime,
           HeartbeatUnavailable
<1>9. CASE DeactivateStep(p)
  <2>1. CASE DeactivateOk(p)
    BY <1>3, <2>1 DEF DeactivateOk, RecordKept
  <2> QED
    BY <1>4, <1>9, <2>1 DEF DeactivateStep, CancelActivation
<1>10. CASE SyncStep(p)
  <2>1. CASE SyncOk(p)
    BY <2>1, ArtifactWriteKeepsRecord DEF SyncOk, RecordKept, TypeOK
  <2> QED
    BY <1>4, <1>10, <2>1 DEF SyncStep, BeginSync
<1>11. CASE AnyStep(p)
  <2>1. CASE CommitDenial(p)
    BY <1>2, <2>1 DEF CommitDenial, Verdicts, RecordKept
  <2>2. ~Reset(p)
    BY DEF Reset, Acts
  <2> QED
    BY <1>4, <1>11, <2>1, <2>2
       DEF AnyStep, BeginTargeted, TakeNumber, Rejected, Superseded, ThrownDenial, LifecycleDenial
<1> QED
  BY <1>5, <1>6, <1>7, <1>8, <1>9, <1>10, <1>11 DEF CallerStep

(* A step of one caller is no step of another.                             *)
LEMMA OnlyActorActs ==
    ASSUME TypeOK, NEW p \in Procs, NEW q \in Procs, q # p, CallerStep(q)
    PROVE  ~Acts(p)
<1> DEFINE Kept == call'[p] = call[p]
<1> SUFFICES Kept
  BY DEF Acts
<1>1. /\ \A pc : GoTo(q, pc) => Kept
      /\ Return(q) => Kept
      /\ EnterOffline(q) => Kept
      /\ call' = RestoreOffline(q) => Kept
      /\ \A kind, pc, target, cached : Begin(q, kind, pc, target, cached) => Kept
      /\ \A pc, v : call' = [call EXCEPT ![q].pc = pc, ![q].found = v] => Kept
      /\ UNCHANGED call => Kept
  BY DEF TypeOK, GoTo, Return, EnterOffline, RestoreOffline, Begin
<1>2. /\ Finish(q) => Kept
      /\ Validated(q) => Kept
      /\ Decided(q) => Kept
      /\ Failing(q) => Kept
  BY <1>1 DEF Finish, Validated, Decided, Failing
<1> HIDE DEF Kept
<1>3. CASE ActivateStep(q)
  BY <1>1, <1>2, <1>3 DEF ActivateStep, BeginActivate, ActivateOk, StartTasks, SpawnTasks
<1>4. CASE ValidateStep(q)
  <2>1. CASE BeginForeignRestore(q)
    BY <2>1 DEF BeginForeignRestore, TypeOK, Kept
  <2> QED
    BY <1>1, <1>2, <1>4, <2>1
       DEF ValidateStep, BeginRestore, ValidateOk, ForeignAnswer, ValidateRefused,
           ValidateRevoked, ValidateInvalidated
<1>5. CASE OfflineStep(q)
  <2>1. CASE Inspect(q)
    BY <1>1, <1>2, <2>1 DEF Inspect
  <2> QED
    BY <1>1, <1>2, <1>5, <2>1
       DEF OfflineStep, ValidateUnavailable, RestoreUnavailable, Fallback, RestoreFallback,
           InstallFoundDenial, FinalizeOffline, SpawnSupport
<1>6. CASE HeartbeatStep(q)
  BY <1>1, <1>2, <1>6
     DEF HeartbeatStep, HeartbeatOk, HeartbeatInactive, HeartbeatInvalidated,
         HeartbeatDropOps, HeartbeatDropRuntime, HeartbeatDropCache, HeartbeatUnavailable
<1>7. CASE DeactivateStep(q) \/ SyncStep(q)
  BY <1>1, <1>2, <1>7
     DEF DeactivateStep, CancelActivation, DeactivateOk, SyncStep, BeginSync, SyncOk
<1>8. CASE AnyStep(q)
  BY <1>1, <1>2, <1>8
     DEF AnyStep, BeginTargeted, Rejected, Superseded, ThrownDenial, LifecycleDenial,
         CommitDenial, Reset
<1> QED
  BY <1>3, <1>4, <1>5, <1>6, <1>7, <1>8 DEF CallerStep

LEMMA InstanceKeepsForeignRecord ==
    ASSUME NEW i \in Instances, InstanceStep(i), NEW p \in Procs, Acts(p)
    PROVE  RecordKept
  BY DEF InstanceStep, StartRead, StartWrite, Crash, Expire, Acts, RecordKept

(* In every execution, whatever the number of instances and callers that   *)
(* share the cache and whatever fails: no handler of client.rs changes or  *)
(* deletes the cached record of an activation its own request was not      *)
(* about, except the commit of an activation.                              *)
THEOREM OtherActivationsSafe == Spec => OtherActivationKept
<1>1. TypeOK /\ [Next]_vars =>
        [\A p \in Procs :
           /\ Acts(p)
           /\ disk.license.id \notin {None, call[p].target}
           => \/ disk'.license = disk.license
              \/ call[p].kind = "activate" /\ disk'.license.verdict = "granted"]_vars
  <2> SUFFICES ASSUME TypeOK, [Next]_vars, ~UNCHANGED vars, NEW p \in Procs, Acts(p),
                      disk.license.id \notin {None, call[p].target}
               PROVE  RecordKept \/ (call[p].kind = "activate" /\ disk'.license.verdict = "granted")
    BY DEF RecordKept
  <2>1. ASSUME NEW q \in Procs, CallerStep(q)
        PROVE  RecordKept \/ (call[p].kind = "activate" /\ disk'.license.verdict = "granted")
    BY <2>1, OnlyActorActs, ForeignRecordKept
  <2>2. ASSUME NEW i \in Instances, InstanceStep(i) PROVE RecordKept
    BY <2>2, InstanceKeepsForeignRecord
  <2> QED
    BY <2>1, <2>2 DEF Next
<1> QED
  BY <1>1, TypeCorrect, PTL DEF Spec, OtherActivationKept
=============================================================================
