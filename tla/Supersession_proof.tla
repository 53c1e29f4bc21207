-------------------------- MODULE Supersession_proof --------------------------
(***************************************************************************)
(* Overtaken responses are inert, for any number of callers, instances and *)
(* activations, with and without storage failures and crashes.  The steps  *)
(* are first reduced to what they do to the operation numbers (Numbering); *)
(* the invariant is preserved by that alone, except where a license ends.  *)
(* Then, for a single instance whose files do not fail, what the newest    *)
(* operation is about and what backs a grant; and, for one caller with     *)
(* failing files and relaunches, what an activation's denial outranks      *)
(* (the history of DenialHistory).                                         *)
(***************************************************************************)
EXTENDS Supersession, DenialHistory, LicenseClient_proof

(* What a step of caller p may do to its own call and to the numbers       *)
Starts(p) == LET i == InstOf[p] IN
    /\ call[p].pc = "idle" /\ call'[p].pc # "idle"
    /\ call'[p].op = NextOp(i)
    /\ opSeq' = [opSeq EXCEPT ![i] = NextOp(i)]
    /\ \/ stateOp' = [stateOp EXCEPT ![i] = NextOp(i)]
       \/ call'[p].kind = "sync" /\ UNCHANGED stateOp

StartsForeign(p) ==
    /\ call[p].pc = "idle" /\ call'[p].pc # "idle"
    /\ call'[p].op = 0
    /\ UNCHANGED <<opSeq, stateOp>>

Continues(p) ==
    /\ call[p].pc # "idle" /\ call'[p].pc # "idle"
    /\ call'[p].op = call[p].op
    /\ call'[p].kind \in {call[p].kind, "restore_offline"}

Stops(p) == call[p].pc # "idle" /\ call'[p] = Idle

DropsNewest(p) == stateOp' \in {stateOp, [stateOp EXCEPT ![InstOf[p]] = 0]}

Numbering(p) ==
    \/ /\ mode[InstOf[p]] = "up"
       /\ Starts(p) \/ StartsForeign(p)
    \/ /\ Continues(p) \/ Stops(p) \/ UNCHANGED call
       /\ DropsNewest(p) /\ UNCHANGED opSeq

-----------------------------------------------------------------------------
LEMMA CallMoves ==
    ASSUME TypeOK, NEW p \in Procs, call[p].pc # "idle"
    PROVE  /\ \A pc \in PCs \ {"idle"} : GoTo(p, pc) => Continues(p)
           /\ Return(p) => Stops(p)
           /\ Finish(p) => Stops(p)
           /\ Validated(p) => Continues(p) \/ Stops(p)
           /\ Decided(p) => Continues(p) \/ Stops(p)
           /\ Failing(p) => Continues(p) \/ Stops(p)
           /\ EnterOffline(p) => Continues(p)
           /\ call' = RestoreOffline(p) => Continues(p)
           /\ \A v \in Verdicts : \A pc \in {"found", "finalize"} :
                call' = [call EXCEPT ![p].pc = pc, ![p].found = v] => Continues(p)
<1>1. /\ call[p] \in Call
      /\ \A c \in Call : call' = [call EXCEPT ![p] = c] => call'[p] = c
  BY DEF TypeOK
<1>2. \A pc \in PCs \ {"idle"} : GoTo(p, pc) => Continues(p)
  BY <1>1 DEF TypeOK, GoTo, Continues, Call
<1>3. Return(p) => Stops(p)
  BY <1>1, IdleType DEF Return, Stops
<1>4. EnterOffline(p) => Continues(p)
  BY <1>1 DEF TypeOK, EnterOffline, Continues, Call
<1>5. call' = RestoreOffline(p) => Continues(p)
  BY <1>1 DEF TypeOK, RestoreOffline, Continues, Call
<1>6. \A v \in Verdicts : \A pc \in {"found", "finalize"} :
        call' = [call EXCEPT ![p].pc = pc, ![p].found = v] => Continues(p)
  BY <1>1 DEF TypeOK, Continues, Call
<1>7. Finish(p) => Stops(p)
  BY <1>3 DEF Finish
<1> QED
  BY <1>2, <1>3, <1>4, <1>5, <1>6, <1>7 DEF Validated, Decided, Failing, PCs

LEMMA NumberMoves ==
    ASSUME TypeOK, NEW p \in Procs
    PROVE  /\ Untouched => DropsNewest(p) /\ UNCHANGED opSeq
           /\ SameLife => UNCHANGED opSeq
           /\ UNCHANGED stateOp => DropsNewest(p)
           /\ InvalidateOps(InstOf[p]) => DropsNewest(p)
  BY DEF Untouched, SameLife, DropsNewest, InvalidateOps

(* The four ways of beginning a request                                    *)
LEMMA BeginNumbering ==
    ASSUME TypeOK, NEW p \in Procs
    PROVE  /\ BeginActivate(p) => Numbering(p)
           /\ \A kind : BeginTargeted(p, kind) => Numbering(p)
           /\ BeginRestore(p) => Numbering(p)
           /\ BeginSync(p) => Numbering(p)
           /\ BeginForeignRestore(p) => Numbering(p)
<1> DEFINE i == InstOf[p]
<1>1. \A kind, pc, target, cached :
        Begin(p, kind, pc, target, cached) =>
          call'[p].pc = pc /\ call'[p].op = NextOp(i) /\ call'[p].kind = kind
  BY DEF Begin, TypeOK, Idle
<1>2. BeginActivate(p) => Numbering(p)
  BY <1>1 DEF BeginActivate, MayBegin, TakeNumber, Numbering, Starts
<1>3. ASSUME NEW kind, BeginTargeted(p, kind) PROVE Numbering(p)
  <2>1. (IF kind = "deactivate" THEN "begun" ELSE "sent") # "idle"
    OBVIOUS
  <2> QED
    BY <1>1, <1>3, <2>1 DEF BeginTargeted, MayBegin, TakeNumber, Numbering, Starts
<1>4. BeginRestore(p) => Numbering(p)
  BY <1>1 DEF BeginRestore, MayRestore, MayBegin, TakeNumber, Numbering, Starts
<1>5. BeginSync(p) => Numbering(p)
  BY <1>1 DEF BeginSync, MayBegin, Numbering, Starts
<1>6. ASSUME BeginForeignRestore(p) PROVE Numbering(p)
  <2>1. call'[p].pc = "sent" /\ call'[p].op = 0
    BY <1>6 DEF BeginForeignRestore, TypeOK, Idle
  <2> QED
    BY <1>6, <2>1 DEF BeginForeignRestore, MayRestore, MayBegin, Untouched, SameLife,
                      Numbering, StartsForeign
<1> QED
  BY <1>2, <1>3, <1>4, <1>5, <1>6

LEMMA CallerNumbering ==
    ASSUME TypeOK, NEW p \in Procs, CallerStep(p)
    PROVE  Numbering(p)
<1> DEFINE Moves == Continues(p) \/ Stops(p)
<1>1. ASSUME Moves, DropsNewest(p), UNCHANGED opSeq PROVE Numbering(p)
  BY <1>1 DEF Numbering
<1>2. CASE ActivateStep(p)
  <2>1. CASE BeginActivate(p)
    BY <2>1, BeginNumbering
  <2>2. CASE ActivateOk(p)
    BY <1>1, <2>2, CallMoves, NumberMoves DEF ActivateOk, Answer, At, PCs
  <2>3. CASE StartTasks(p)
    BY <1>1, <2>3, CallMoves, NumberMoves DEF StartTasks, PCs
  <2>4. CASE SpawnTasks(p)
    BY <1>1, <2>4, CallMoves, NumberMoves DEF SpawnTasks
  <2> QED
    BY <1>2, <2>1, <2>2, <2>3, <2>4 DEF ActivateStep
<1>3. CASE ValidateStep(p)
  <2>1. CASE BeginRestore(p) \/ BeginForeignRestore(p)
    BY <2>1, BeginNumbering
  <2>2. CASE ValidateOk(p)
    BY <1>1, <2>2, CallMoves, NumberMoves DEF ValidateOk, Answer, At
  <2>3. CASE ForeignAnswer(p)
    BY <1>1, <2>3, CallMoves, NumberMoves DEF ForeignAnswer, At, PCs
  <2>4. CASE ValidateRefused(p)
    BY <1>1, <2>4, CallMoves, NumberMoves DEF ValidateRefused, Answer, At
  <2>5. CASE ValidateRevoked(p)
    BY <1>1, <2>5, CallMoves, NumberMoves DEF ValidateRevoked, Answer, At
  <2>6. CASE ValidateInvalidated(p)
    BY <1>1, <2>6, CallMoves, NumberMoves DEF ValidateInvalidated, Answer, At
  <2> QED
    BY <1>3, <2>1, <2>2, <2>3, <2>4, <2>5, <2>6 DEF ValidateStep
<1>4. CASE OfflineStep(p)
  <2>1. CASE ValidateUnavailable(p)
    BY <1>1, <2>1, CallMoves, NumberMoves DEF ValidateUnavailable, Answer, At, PCs
  <2>2. CASE RestoreUnavailable(p)
    BY <1>1, <2>2, CallMoves, NumberMoves DEF RestoreUnavailable, At
  <2>3. CASE Fallback(p)
    BY <1>1, <2>3, CallMoves, NumberMoves DEF Fallback, At
  <2>4. CASE RestoreFallback(p)
    BY <1>1, <2>4, CallMoves, NumberMoves DEF RestoreFallback, At, PCs
  <2>5. CASE Inspect(p)
    <3>1. call[p].pc # "idle" /\ DropsNewest(p) /\ UNCHANGED opSeq
      BY <2>5, NumberMoves DEF Inspect
    <3>2. \/ Decided(p) \/ Failing(p)
          \/ \E v \in Verdicts : \E pc \in {"found", "finalize"} :
                call' = [call EXCEPT ![p].pc = pc, ![p].found = v]
      BY <2>5 DEF Inspect, OnlineDenials, Verdicts
    <3> QED
      BY <1>1, <3>1, <3>2, CallMoves
  <2>6. CASE InstallFoundDenial(p)
    BY <1>1, <2>6, CallMoves, NumberMoves DEF InstallFoundDenial
  <2>7. CASE FinalizeOffline(p)
    BY <1>1, <2>7, CallMoves, NumberMoves DEF FinalizeOffline
  <2>8. CASE SpawnSupport(p)
    BY <1>1, <2>8, CallMoves, NumberMoves DEF SpawnSupport
  <2> QED
    BY <1>4, <2>1, <2>2, <2>3, <2>4, <2>5, <2>6, <2>7, <2>8 DEF OfflineStep
<1>5. CASE HeartbeatStep(p)
  <2>1. CASE HeartbeatOk(p) \/ HeartbeatInactive(p)
    BY <1>1, <2>1, CallMoves, NumberMoves DEF HeartbeatOk, HeartbeatInactive, Answer, At
  <2>2. CASE HeartbeatInvalidated(p) \/ HeartbeatUnavailable(p)
    BY <1>1, <2>2, CallMoves, NumberMoves
       DEF HeartbeatInvalidated, HeartbeatUnavailable, Answer, At, PCs
  <2>3. CASE HeartbeatDropOps(p) \/ HeartbeatDropRuntime(p)
    BY <1>1, <2>3, CallMoves, NumberMoves DEF HeartbeatDropOps, HeartbeatDropRuntime, At, PCs
  <2>4. CASE HeartbeatDropCache(p)
    BY <1>1, <2>4, CallMoves, NumberMoves DEF HeartbeatDropCache, At
  <2> QED
    BY <1>5, <2>1, <2>2, <2>3, <2>4 DEF HeartbeatStep
<1>6. CASE DeactivateStep(p)
  <2>1. CASE CancelActivation(p)
    BY <1>1, <2>1, CallMoves, NumberMoves DEF CancelActivation, At, PCs
  <2>2. CASE DeactivateOk(p)
    BY <1>1, <2>2, CallMoves, NumberMoves DEF DeactivateOk, Answer, At
  <2> QED
    BY <1>6, <2>1, <2>2 DEF DeactivateStep
<1>7. CASE SyncStep(p)
  <2>1. CASE BeginSync(p)
    BY <2>1, BeginNumbering
  <2>2. CASE SyncOk(p)
    BY <1>1, <2>2, CallMoves, NumberMoves DEF SyncOk, At
  <2> QED
    BY <1>7, <2>1, <2>2 DEF SyncStep
<1>8. CASE AnyStep(p)
  <2>1. ASSUME CommitDenial(p), call[p].pc # "idle" PROVE Numbering(p)
    BY <1>1, <2>1, CallMoves, NumberMoves DEF CommitDenial
  <2>2. CASE Rejected(p) \/ Superseded(p)
    BY <1>1, <2>2, CallMoves, NumberMoves DEF Rejected, Superseded, At
  <2>3. CASE ThrownDenial(p) \/ LifecycleDenial(p)
    BY <2>1, <2>3 DEF ThrownDenial, LifecycleDenial, Answer, At
  <2>4. CASE Reset(p)
    BY <2>4, NumberMoves DEF Reset, Numbering
  <2> QED
    BY <1>8, <2>2, <2>3, <2>4, BeginNumbering DEF AnyStep
<1> QED
  BY <1>2, <1>3, <1>4, <1>5, <1>6, <1>7, <1>8 DEF CallerStep

-----------------------------------------------------------------------------
(* The invariant                                                           *)

SInv == TypeOK /\ overtaken \subseteq Procs /\ SupersessionInv

LEMMA CallRanges ==
    ASSUME TypeOK
    PROVE  /\ \A p \in Procs : /\ InstOf[p] \in Instances
                              /\ call[p].op \in Nat
           /\ \A i \in Instances : opSeq[i] \in Nat /\ stateOp[i] \in Nat
  BY InstType DEF TypeOK, Call

LEMMA NumbersUniqueStep ==
    ASSUME SInv, TypeOK', NEW r \in Procs, Numbering(r),
           \A p \in Procs \ {r} : call'[p] = call[p]
    PROVE  NumbersUnique'
<1> DEFINE i == InstOf[r]
<1>1. /\ i \in Instances
      /\ \A p \in Procs : InstOf[p] \in Instances /\ call[p].op \in Nat
      /\ opSeq \in [Instances -> Nat] /\ stateOp \in [Instances -> Nat]
  BY CallRanges DEF SInv, TypeOK
<1>2. NumbersUnique
  BY DEF SInv, SupersessionInv
<1>3. CASE Starts(r)
  <2>1. \A j \in Instances : opSeq'[j] = IF j = i THEN opSeq[i] + 1 ELSE opSeq[j]
    BY <1>1, <1>3 DEF Starts, NextOp
  <2>2. call'[r].op = opSeq[i] + 1
    BY <1>3 DEF Starts, NextOp
  <2>3. \A j \in Instances : stateOp'[j] <= opSeq'[j]
    <3>1. CASE stateOp' = [stateOp EXCEPT ![i] = NextOp(i)]
      BY <1>1, <1>2, <2>1, <3>1 DEF NumbersUnique, NextOp
    <3>2. CASE UNCHANGED stateOp
      BY <1>1, <1>2, <2>1, <3>2 DEF NumbersUnique
    <3> QED
      BY <1>3, <3>1, <3>2 DEF Starts
  <2>4. \A p \in Procs : call'[p].op <= opSeq'[InstOf[p]]
    BY <1>1, <1>2, <2>1, <2>2 DEF NumbersUnique
  <2>5. \A p, q \in Procs :
          p # q /\ InstOf[p] = InstOf[q] /\ call'[p].op # 0 => call'[p].op # call'[q].op
    BY <1>1, <1>2, <2>2 DEF NumbersUnique
  <2> QED
    BY <2>3, <2>4, <2>5 DEF NumbersUnique
<1>4. CASE ~Starts(r)
  <2>1. UNCHANGED opSeq /\ DropsNewest(r)
    BY <1>4 DEF Numbering, StartsForeign, DropsNewest
  <2>2. call'[r].op \in {call[r].op, 0}
    BY <1>4 DEF Numbering, StartsForeign, Continues, Stops, Idle
  <2>3. \A j \in Instances : stateOp'[j] <= opSeq'[j]
    BY <1>1, <1>2, <2>1 DEF NumbersUnique, DropsNewest
  <2>4. \A p \in Procs : call'[p].op <= opSeq'[InstOf[p]]
    BY <1>1, <1>2, <2>1, <2>2 DEF NumbersUnique
  <2>5. \A p, q \in Procs :
          p # q /\ InstOf[p] = InstOf[q] /\ call'[p].op # 0 => call'[p].op # call'[q].op
    BY <1>1, <1>2, <2>2 DEF NumbersUnique
  <2> QED
    BY <2>3, <2>4, <2>5 DEF NumbersUnique
<1> QED
  BY <1>3, <1>4

LEMMA IdleStep ==
    ASSUME SInv, NEW r \in Procs, Numbering(r), UNCHANGED mode, Overtake,
           \A p \in Procs \ {r} : call'[p] = call[p]
    PROVE  IdleHoldsNothing'
<1>1. IdleHoldsNothing
  BY DEF SInv, SupersessionInv
<1>2. ASSUME NEW p \in Procs, call'[p].pc = "idle"
      PROVE  call'[p] = Idle /\ p \notin overtaken'
  <2>1. p \notin overtaken'
    BY <1>2 DEF Overtake
  <2>2. call'[p] = Idle
    BY <1>1, <1>2 DEF Numbering, Starts, StartsForeign, Continues, Stops, IdleHoldsNothing
  <2> QED
    BY <2>1, <2>2
<1>3. ASSUME NEW p \in Procs, mode'[InstOf[p]] # "up"
      PROVE  call'[p].pc = "idle"
  BY <1>1, <1>3 DEF Numbering, Starts, StartsForeign, Continues, Stops, IdleHoldsNothing, Idle
<1> QED
  BY <1>2, <1>3 DEF IdleHoldsNothing

(* When the license of an instance ends, so does the claim of every other  *)
(* request to be the newest: either the numbers are invalidated with it,   *)
(* or the request that ended it was the newest and has returned.           *)
LEMMA EndingStep ==
    ASSUME SInv, NEW r \in Procs, CallerStep(r), NEW i \in Instances, Ends(i)
    PROVE  /\ InstOf[r] = i
           /\ \/ stateOp'[i] = 0
              \/ stateOp'[i] = call[r].op /\ call'[r] = Idle
<1> DEFINE j == InstOf[r]
<1>1. j \in Instances /\ TypeOK
  BY InstType DEF SInv
<1>2. Current(i) # None /\ Current(i)' = None
  BY DEF Ends
<1>3. ASSUME SameDecision PROVE FALSE
  BY <1>2, <1>3 DEF SameDecision, Current, Established
<1>4. ASSUME NEW id \in Ids, NEW v, NEW src, Decide(j, id, v, src) PROVE FALSE
  BY <1>1, <1>2, <1>4, NoneNotAnId DEF Decide, TypeOK, Current, Established
<1>5. ASSUME ForgetDecision(j) PROVE j = i
  BY <1>1, <1>2, <1>5 DEF ForgetDecision, TypeOK, Current, Established
<1>6. ASSUME InvalidateOps(j), j = i PROVE stateOp'[i] = 0
  BY <1>1, <1>6 DEF InvalidateOps, TypeOK
<1>7. \A v \in Verdicts : \A o \in UpdateValidation(disk, call[r].target, v) :
        o.res # "stale" => call[r].target \in Ids
  BY <1>1, UpdateType, MatchingRecord DEF TypeOK
<1>8. CASE HeartbeatStep(r)
  <2>1. CASE HeartbeatInactive(r)
    <3>1. Acts(r) /\ call[r].kind = "heartbeat"
      BY <1>1, <2>1, IdleType DEF Acts, HeartbeatInactive, Answer, At, Finish, Return, TypeOK, Idle
    <3> QED
      BY <3>1 DEF Ends
  <2>2. CASE HeartbeatDropRuntime(r)
    <3>1. Acts(r) /\ call[r].kind = "heartbeat"
      BY <1>1, <2>2 DEF Acts, HeartbeatDropRuntime, At, GoTo, TypeOK, Call
    <3> QED
      BY <3>1 DEF Ends
  <2>3. CASE HeartbeatOk(r)
    BY <1>3, <1>4, <1>7, <2>3 DEF HeartbeatOk, UpdateValidation, Stale, Outcome, Verdicts
  <2> QED
    BY <1>3, <1>8, <2>1, <2>2, <2>3
       DEF HeartbeatStep, HeartbeatInvalidated, HeartbeatDropOps, HeartbeatDropCache,
           HeartbeatUnavailable, Untouched
<1>9. CASE ActivateStep(r)
  BY <1>3, <1>4, <1>9
     DEF ActivateStep, BeginActivate, TakeNumber, ActivateOk, StartTasks, SpawnTasks,
         Untouched, SameDecision
<1>10. CASE ValidateStep(r)
  <2>1. CASE ValidateOk(r)
    BY <1>3, <1>4, <1>7, <2>1 DEF ValidateOk, Untouched, Verdicts
  <2>2. CASE ValidateRefused(r)
    BY <1>3, <1>4, <1>7, <2>2 DEF ValidateRefused, Untouched, Verdicts, OnlineDenials
  <2>3. CASE ValidateRevoked(r)
    <3>1. PICK o \in UpdateValidation(disk, call[r].target, "refused") :
            \/ Untouched
            \/ /\ o.res # "stale"
               /\ Decide(j, call[r].target, "refused", "failclosed") \/ ForgetDecision(j)
               /\ Return(r) /\ UNCHANGED stateOp
      BY <2>3 DEF ValidateRevoked
    <3>2. ForgetDecision(j) /\ Return(r) /\ UNCHANGED stateOp
      BY <1>3, <1>4, <1>7, <3>1 DEF Untouched, Verdicts
    <3>3. stateOp[j] = call[r].op
      BY <2>3 DEF ValidateRevoked, Answer, IsCurrentOp
    <3>4. call'[r] = Idle
      BY <1>1, <3>2 DEF Return, TypeOK
    <3> QED
      BY <1>5, <3>2, <3>3, <3>4
  <2>4. CASE ValidateInvalidated(r)
    BY <1>5, <1>6, <2>4 DEF ValidateInvalidated
  <2> QED
    BY <1>3, <1>10, <2>1, <2>2, <2>3, <2>4
       DEF ValidateStep, BeginRestore, TakeNumber, BeginForeignRestore, ForeignAnswer,
           Untouched, SameDecision
<1>11. CASE OfflineStep(r)
  <2>1. CASE InstallFoundDenial(r) \/ FinalizeOffline(r)
    <3>1. StillExpected(r) => call[r].target \in Ids
      BY <1>1, MatchingRecord DEF StillExpected, TypeOK
    <3>2. \/ SameDecision
          \/ StillExpected(r) /\ \E v, src : Decide(j, call[r].target, v, src)
      BY <2>1 DEF InstallFoundDenial, FinalizeOffline
    <3> QED
      BY <1>3, <1>4, <3>1, <3>2
  <2> QED
    BY <1>3, <1>11, <2>1
       DEF OfflineStep, ValidateUnavailable, RestoreUnavailable, Fallback, RestoreFallback,
           Inspect, SpawnSupport, Untouched
<1>12. CASE DeactivateStep(r)
  BY <1>3, <1>5, <1>6, <1>12 DEF DeactivateStep, CancelActivation, DeactivateOk, Untouched
<1>13. CASE SyncStep(r)
  BY <1>3, <1>13 DEF SyncStep, BeginSync, SyncOk, Untouched, SameDecision
<1>14. CASE AnyStep(r)
  <2>1. CASE CommitDenial(r)
    BY <1>3, <1>4, <1>7, <2>1 DEF CommitDenial, Untouched, Verdicts
  <2>2. CASE Reset(r)
    <3>1. i = j
      BY <1>1, <1>2, <2>2 DEF Reset, TypeOK, Current, Established
    <3> QED
      BY <1>6, <2>2, <3>1 DEF Reset
  <2> QED
    BY <1>3, <1>14, <2>1, <2>2
       DEF AnyStep, BeginTargeted, TakeNumber, Rejected, Superseded, ThrownDenial,
           LifecycleDenial, Untouched, SameDecision
<1> QED
  BY <1>8, <1>9, <1>10, <1>11, <1>12, <1>13, <1>14 DEF CallerStep

LEMMA OvertakenStep ==
    ASSUME SInv, TypeOK', NEW r \in Procs, CallerStep(r), Overtake,
           \A p \in Procs \ {r} : call'[p] = call[p]
    PROVE  OvertakenIsNotNewest'
<1>1. Numbering(r)
  BY CallerNumbering DEF SInv
<1>2. /\ NumbersUnique /\ IdleHoldsNothing /\ OvertakenIsNotNewest
      /\ overtaken \subseteq Procs
  BY DEF SInv, SupersessionInv
<1>3. /\ \A p \in Procs : InstOf[p] \in Instances /\ call[p].op \in Nat
      /\ opSeq \in [Instances -> Nat] /\ stateOp \in [Instances -> Nat]
  BY CallRanges DEF SInv, TypeOK
<1> SUFFICES ASSUME NEW p \in Procs, p \in overtaken',
                    call'[p].kind \in LicenseKinds, call'[p].op # 0
             PROVE  stateOp'[InstOf[p]] # call'[p].op
  BY DEF OvertakenIsNotNewest, Overtake
<1> DEFINE i == InstOf[p]
<1>4. /\ call'[p].pc # "idle"
      /\ \/ p \in overtaken
         \/ /\ call[p].pc # "idle"
            /\ \/ \E q \in Procs : q # p /\ InstOf[q] = i /\ Begins(q)
               \/ Ends(i)
  BY DEF Overtake
<1>5. call[p].pc # "idle"
  BY <1>2, <1>4 DEF IdleHoldsNothing
<1>6. /\ call'[p].op = call[p].op
      /\ call[p].kind \in LicenseKinds
  <2>1. CASE p = r
    <3>1. Continues(p) \/ call' = call
      BY <1>1, <1>4, <1>5, <2>1 DEF Numbering, Starts, StartsForeign, Stops, Idle
    <3> QED
      BY <3>1 DEF Continues, LicenseKinds
  <2> QED
    BY <2>1
<1>7. call[p].op <= opSeq[i]
  BY <1>2 DEF NumbersUnique
<1>8. CASE p \in overtaken
  <2>1. stateOp[i] # call[p].op
    BY <1>2, <1>6, <1>8 DEF OvertakenIsNotNewest
  <2>2. stateOp'[i] \in {stateOp[i], 0, opSeq[i] + 1}
    BY <1>1, <1>3 DEF Numbering, Starts, StartsForeign, DropsNewest, NextOp
  <2> QED
    BY <1>3, <1>6, <1>7, <2>1, <2>2
<1>9. CASE Ends(i)
  <2>1. /\ InstOf[r] = i
        /\ \/ stateOp'[i] = 0
           \/ stateOp'[i] = call[r].op /\ call'[r] = Idle
    BY <1>3, <1>9, EndingStep
  <2>2. CASE stateOp'[i] = 0
    BY <2>2
  <2>3. CASE stateOp'[i] = call[r].op /\ call'[r] = Idle
    <3>1. p # r
      BY <1>4, <2>3 DEF Idle
    <3> QED
      BY <1>2, <1>6, <2>1, <2>3, <3>1 DEF NumbersUnique
  <2> QED
    BY <2>1, <2>2, <2>3
<1>10. ASSUME NEW q \in Procs, q # p, InstOf[q] = i, Begins(q)
       PROVE  stateOp'[i] # call'[p].op
  <2>1. q = r
    BY <1>10 DEF Begins
  <2>2. stateOp' = [stateOp EXCEPT ![i] = NextOp(i)]
    BY <1>1, <1>10, <2>1 DEF Begins, Numbering, Starts, StartsForeign, Continues, Stops, LicenseKinds
  <2>3. stateOp'[i] = opSeq[i] + 1
    BY <1>3, <2>2 DEF NextOp
  <2> QED
    BY <1>3, <1>6, <1>7, <2>3
<1> QED
  BY <1>4, <1>8, <1>9, <1>10

(* Requests do not start or stop their instance                            *)
LEMMA CallerKeepsLife ==
    ASSUME NEW r \in Procs, CallerStep(r)
    PROVE  UNCHANGED <<mode, boot>>
  BY DEF CallerStep, ActivateStep, BeginActivate, TakeNumber, ActivateOk, StartTasks, SpawnTasks,
         ValidateStep, BeginRestore, BeginForeignRestore, ValidateOk, ForeignAnswer,
         ValidateRefused, ValidateRevoked, ValidateInvalidated, OfflineStep,
         ValidateUnavailable, RestoreUnavailable, Fallback,
         RestoreFallback, Inspect, InstallFoundDenial, FinalizeOffline, SpawnSupport,
         HeartbeatStep, HeartbeatOk, HeartbeatInactive, HeartbeatInvalidated,
         HeartbeatDropOps, HeartbeatDropRuntime, HeartbeatDropCache, HeartbeatUnavailable,
         DeactivateStep, CancelActivation, DeactivateOk, SyncStep, BeginSync, SyncOk,
         AnyStep, BeginTargeted, Rejected, Superseded, ThrownDenial, LifecycleDenial,
         CommitDenial, Reset, Untouched, SameLife

LEMMA CallerStepInv ==
    ASSUME SInv, TypeOK', NEW r \in Procs, CallerStep(r), Overtake
    PROVE  SupersessionInv'
<1>1. TypeOK /\ Numbering(r)
  BY CallerNumbering DEF SInv
<1>2. \A p \in Procs \ {r} : call'[p] = call[p]
  BY <1>1, OnlyActorActs DEF Acts
<1>3. UNCHANGED mode
  BY CallerKeepsLife
<1> QED
  BY <1>1, <1>2, <1>3, NumbersUniqueStep, IdleStep, OvertakenStep DEF SupersessionInv

(* Starting, dying and expiring instances                                  *)
LEMMA InstanceStepInv ==
    ASSUME SInv, TypeOK', NEW i \in Instances, InstanceStep(i), Overtake
    PROVE  SupersessionInv'
<1>1. /\ TypeOK /\ NumbersUnique /\ IdleHoldsNothing /\ OvertakenIsNotNewest
      /\ overtaken \subseteq Procs
  BY DEF SInv, SupersessionInv
<1>2. \A p \in Procs : InstOf[p] \in Instances
  BY InstType
<1>3. CASE Crash(i)
  <2>1. \A p \in Procs : call'[p] = IF InstOf[p] = i THEN Idle ELSE call[p]
    BY <1>1, <1>3 DEF Crash, TypeOK
  <2>2. \A j \in Instances :
          /\ opSeq'[j] = IF j = i THEN 0 ELSE opSeq[j]
          /\ stateOp'[j] = IF j = i THEN 0 ELSE stateOp[j]
          /\ j # i => mode'[j] = mode[j] /\ Current(j)' = Current(j)
    BY <1>1, <1>3 DEF Crash, InvalidateOps, ForgetDecision, TypeOK, Current, Established
  <2>3. NumbersUnique'
    BY <1>1, <1>2, <2>1, <2>2 DEF NumbersUnique, Idle
  <2>4. IdleHoldsNothing'
    BY <1>1, <1>2, <2>1, <2>2 DEF IdleHoldsNothing, Overtake, Idle
  <2>5. \A p \in overtaken' : p \in overtaken /\ InstOf[p] # i
    BY <1>2, <2>1, <2>2 DEF Overtake, Begins, Ends, Idle
  <2>6. OvertakenIsNotNewest'
    BY <1>1, <1>2, <2>1, <2>2, <2>5 DEF OvertakenIsNotNewest
  <2> QED
    BY <2>3, <2>4, <2>6 DEF SupersessionInv
<1>4. CASE StartRead(i) \/ StartWrite(i) \/ Expire(i)
  <2>1. UNCHANGED <<call, opSeq, stateOp>>
    BY <1>4 DEF StartRead, StartWrite, Expire
  <2>2. \A j \in Instances : mode[j] = "up" => mode'[j] = "up" /\ (Current(j) # None => Current(j)' # None)
    <3>1. CASE StartRead(i)
      BY <1>1, <3>1 DEF StartRead, TypeOK, Current, Established
    <3>2. CASE StartWrite(i)
      BY <1>1, <3>2 DEF StartWrite, TypeOK, Current, Established
    <3>3. CASE Expire(i)
      BY <1>1, <3>3 DEF Expire, TypeOK, Current, Established
    <3> QED
      BY <1>4, <3>1, <3>2, <3>3
  <2>3. \A p \in overtaken' : p \in overtaken
    BY <1>1, <1>2, <2>1, <2>2 DEF Overtake, Begins, Ends, IdleHoldsNothing
  <2>4. \A p \in Procs : mode'[InstOf[p]] # "up" => call[p].pc = "idle"
    BY <1>1, <1>2, <2>2 DEF IdleHoldsNothing
  <2> QED
    BY <1>1, <2>1, <2>3, <2>4
       DEF SupersessionInv, NumbersUnique, IdleHoldsNothing, OvertakenIsNotNewest, Overtake
<1> QED
  BY <1>3, <1>4 DEF InstanceStep

LEMMA SInitInv == SInit => SInv
<1> SUFFICES ASSUME SInit PROVE SInv
  OBVIOUS
<1>1. TypeOK /\ overtaken = {}
  BY InitType DEF SInit
<1> QED
  BY <1>1, CallRanges
     DEF SInit, Init, SInv, SupersessionInv, NumbersUnique, IdleHoldsNothing,
         OvertakenIsNotNewest, Idle

LEMMA SNextInv == SInv /\ [SNext]_svars => SInv'
<1> SUFFICES ASSUME SInv, [SNext]_svars PROVE SInv'
  OBVIOUS
<1>1. CASE SNext
  <2>1. TypeOK'
    BY <1>1, NextType DEF SInv, SNext
  <2>2. overtaken' \subseteq Procs
    BY <1>1 DEF SNext, Overtake
  <2>3. SupersessionInv'
    BY <1>1, <2>1, CallerStepInv, InstanceStepInv DEF SNext, Next
  <2> QED
    BY <2>1, <2>2, <2>3 DEF SInv
<1>2. CASE UNCHANGED svars
  BY <1>2, NextType
     DEF svars, vars, SInv, TypeOK, SupersessionInv, NumbersUnique, IdleHoldsNothing, OvertakenIsNotNewest
<1> QED
  BY <1>1, <1>2

(* Operation numbers are unique and an overtaken license operation is      *)
(* never again the newest one of its instance: the test                    *)
(* ensure_current_license_operation makes under state_commit_lock can not  *)
(* succeed for it.                                                         *)
THEOREM NumbersAreSound == SSpec => []SupersessionInv
<1>1. SInv => SupersessionInv
  BY DEF SInv
<1> QED
  BY <1>1, SInitInv, SNextInv, PTL DEF SSpec

-----------------------------------------------------------------------------
(* What is left to an overtaken request whose response arrives             *)

DeniedByLifecycle(p) ==
    /\ call[p].kind = "activate"
    /\ call[p].target # None
    /\ runtime'[InstOf[p]] = [id |-> call[p].target, verdict |-> "denied", source |-> "failclosed"]

LEMMA OvertakenResponse ==
    ASSUME SInv, NEW p \in overtaken, call[p].pc = "sent", call[p].kind \in LicenseKinds,
           CallerStep(p)
    PROVE  LicenseStateKept(InstOf[p]) \/ DeniedByLifecycle(p)
<1>1. p \in Procs /\ TypeOK /\ InstOf[p] \in Instances
  BY InstType DEF SInv
<1>2. \A kinds : ~Answer(p, kinds)
  BY DEF SInv, SupersessionInv, OvertakenIsNotNewest, Answer, IsCurrentOp
<1>3. Untouched /\ UNCHANGED disk => LicenseStateKept(InstOf[p])
  BY DEF Untouched, SameDecision, LicenseStateKept
<1>4. CASE ForeignAnswer(p) \/ RestoreUnavailable(p) \/ Rejected(p) \/ Superseded(p)
  BY <1>3, <1>4 DEF ForeignAnswer, RestoreUnavailable, Rejected, Superseded
<1>5. CASE LifecycleDenial(p)
  <2>1. call[p].kind = "activate" /\ call[p].target # None
    BY <1>5 DEF LifecycleDenial, At, LicenseKinds
  <2>2. \/ Untouched /\ UNCHANGED disk
        \/ Decide(InstOf[p], call[p].target, "denied", "failclosed")
    BY <1>5 DEF LifecycleDenial, CommitDenial
  <2> QED
    BY <1>1, <1>3, <2>1, <2>2 DEF Decide, DeniedByLifecycle, TypeOK
<1>6. ~ActivateStep(p)
  BY <1>2 DEF ActivateStep, BeginActivate, MayBegin, ActivateOk, StartTasks, SpawnTasks
<1>7. CASE ValidateStep(p)
  BY <1>2, <1>4, <1>7
     DEF ValidateStep, BeginRestore, BeginForeignRestore, MayRestore, MayBegin, ValidateOk,
         ValidateRefused, ValidateRevoked, ValidateInvalidated
<1>8. CASE OfflineStep(p)
  BY <1>2, <1>4, <1>8
     DEF OfflineStep, ValidateUnavailable, Fallback, RestoreFallback, Inspect,
         InstallFoundDenial, FinalizeOffline, SpawnSupport, At
<1>9. ~HeartbeatStep(p)
  BY <1>2 DEF HeartbeatStep, HeartbeatOk, HeartbeatInactive, HeartbeatInvalidated,
              HeartbeatDropOps, HeartbeatDropRuntime, HeartbeatDropCache, HeartbeatUnavailable, At
<1>10. ~DeactivateStep(p) /\ ~SyncStep(p)
  BY <1>2 DEF DeactivateStep, CancelActivation, DeactivateOk, SyncStep, BeginSync, MayBegin,
              SyncOk, At, LicenseKinds
<1>11. CASE AnyStep(p)
  BY <1>2, <1>4, <1>5, <1>11 DEF AnyStep, BeginTargeted, MayBegin, ThrownDenial, Reset
<1> QED
  BY <1>6, <1>7, <1>8, <1>9, <1>10, <1>11 DEF CallerStep

(* "A delayed response cannot overwrite a newer state-changing operation": *)
(* whatever response an overtaken activation, validation, restore,         *)
(* heartbeat or deactivation receives, it leaves the cache and the         *)
(* decision in memory alone; only a denied activation may still install    *)
(* that denial for the activation the instance manages.                    *)
THEOREM StaleResponsesAreInert == SSpec => StaleResponseIsInert
<1>1. SInv /\ [SNext]_svars =>
        [\A p \in overtaken :
           /\ call[p].pc = "sent"
           /\ call[p].kind \in LicenseKinds
           /\ Acts(p)
           /\ mode'[InstOf[p]] = "up"
           => \/ LicenseStateKept(InstOf[p])
              \/ /\ call[p].kind = "activate"
                 /\ call[p].target # None
                 /\ runtime'[InstOf[p]] =
                      [id |-> call[p].target, verdict |-> "denied", source |-> "failclosed"]
        ]_svars
  <2> SUFFICES ASSUME SInv, SNext, NEW p \in overtaken, call[p].pc = "sent",
                      call[p].kind \in LicenseKinds, Acts(p), mode'[InstOf[p]] = "up"
               PROVE  LicenseStateKept(InstOf[p]) \/ DeniedByLifecycle(p)
    BY DEF DeniedByLifecycle
  <2>1. p \in Procs /\ TypeOK
    BY DEF SInv
  <2>2. ASSUME NEW r \in Procs, CallerStep(r)
        PROVE  LicenseStateKept(InstOf[p]) \/ DeniedByLifecycle(p)
    BY <2>1, <2>2, OnlyActorActs, OvertakenResponse
  <2>3. ASSUME NEW i \in Instances, InstanceStep(i) PROVE FALSE
    <3>1. Crash(i)
      BY <2>3 DEF InstanceStep, StartRead, StartWrite, Expire, Acts
    <3>2. InstOf[p] = i
      BY <2>1, <3>1 DEF Crash, Acts, TypeOK
    <3> QED
      BY <2>1, <3>1, <3>2 DEF Crash, TypeOK
  <2> QED
    BY <2>2, <2>3 DEF SNext, Next
<1> QED
  BY <1>1, SInitInv, SNextInv, PTL DEF SSpec, StaleResponseIsInert

-----------------------------------------------------------------------------
(* A single instance whose files do not fail                               *)

Alone == \A i, j \in Instances : i = j
Sole == Alone /\ Faults = FALSE

(* What an operation that could still commit is about                      *)
Targeted == {"validate", "restore", "heartbeat", "deactivate"}
Pending(p) ==
    /\ call[p].pc \in {"begun", "sent"} /\ call[p].kind \in Targeted
    /\ call[p].op # 0 /\ stateOp[InstOf[p]] = call[p].op
NewestIsAbout ==
    \A p \in Procs : Pending(p) =>
        /\ Current(InstOf[p]) \in {call[p].target, None}
        /\ disk.license.id \in {call[p].target, None}

(* The license of the instance and the cached one are the same, unless     *)
(* either has been dropped                                                 *)
NotAtOdds == \A i \in Instances :
    Current(i) # None /\ disk.license.id # None => Current(i) = disk.license.id

(* An instance that is not up manages nothing, and has read the record the *)
(* cache still holds                                                       *)
DownHoldsNothing == \A i \in Instances :
    /\ mode[i] # "up" => runtime[i] = NoGrant /\ recovery[i] = None
    /\ mode[i] = "starting" => boot[i] = disk.license

(* A verdict found in the cache and taken along is a denial                *)
FoundDenies == \A p \in Procs : call[p].pc = "found" => call[p].found \in OnlineDenials

SoleInv == NewestIsAbout /\ NotAtOdds /\ DownHoldsNothing /\ FoundDenies

(* What the cache does when its files do not fail                          *)
LEMMA SoundUpdate ==
    ASSUME Faults = FALSE, NEW d \in CacheContent, NEW id, NEW v \in Verdicts
    PROVE  \A o \in UpdateValidation(d, id, v) :
             \/ o.res = "stale" /\ o.disk = d
             \/ /\ o.res = "ok" /\ Matches(d, id)
                /\ o.disk.license = [id |-> id, verdict |-> v]
<1>1. CASE UpdateValidation(d, id, v) = Stale(d)
  BY <1>1 DEF Stale, Outcome
<1>2. CASE /\ Matches(d, id)
           /\ UpdateValidation(d, id, v) = StoreLicense(d, [id |-> id, verdict |-> v])
  <2> DEFINE rec == [id |-> id, verdict |-> v]
  <2>1. UpdateValidation(d, id, v) = {Outcome([d EXCEPT !.license = rec], "ok")}
    BY <1>2 DEF StoreLicense, Ok, Failed
  <2>2. [d EXCEPT !.license = rec].license = rec
    <3> HIDE DEF rec
    <3> QED
      BY DEF CacheContent
  <2> DEFINE e == [d EXCEPT !.license = rec]
  <2> HIDE DEF e
  <2>3. \A o \in UpdateValidation(d, id, v) : o.res = "ok" /\ o.disk = e
    BY <2>1 DEF Outcome, e
  <2>4. e.license = rec
    BY <2>2 DEF e
  <2> QED
    BY <1>2, <2>3, <2>4
<1> QED
  BY <1>1, <1>2 DEF UpdateValidation

LEMMA SoundClear ==
    ASSUME Faults = FALSE, NEW d \in CacheContent
    PROVE  /\ \A o \in ClearOfflineAssets(d) : o.res = "ok" /\ o.disk.license = d.license
           /\ \A o \in Clear(d) : o.res = "ok" /\ o.disk.license = NoRecord
           /\ AfterAnchor(d) = {d}
  BY DEF ClearOfflineAssets, Clear, AfterAnchor, Ok, Failed, Outcome, CacheContent, EmptyCache

LEMMA SoundInvalidate ==
    ASSUME Faults = FALSE, NEW d \in CacheContent, NEW id
    PROVE  \A o \in InvalidateAndClear(d, id) :
             /\ o.res # "err"
             /\ o.disk.license = IF Matches(d, id) THEN NoRecord ELSE d.license
<1>1. CASE ~Matches(d, id)
  BY <1>1 DEF InvalidateAndClear, Stale, Outcome
<1>2. CASE Matches(d, id)
  <2>1. \A marked \in MarkInvalid(d) :
          \A o \in Clear(marked) : o.res # "err" /\ o.disk.license = NoRecord
    <3>1. MarkInvalid(d) \subseteq CacheContent
      BY MarkType
    <3> QED
      BY <3>1, SoundClear
  <2>2. InvalidateAndClear(d, id) = UNION {Clear(marked) : marked \in MarkInvalid(d)}
    BY <1>2 DEF InvalidateAndClear
  <2> QED
    BY <1>2, <2>1, <2>2
<1> QED
  BY <1>1, <1>2

LEMMA SoundCommit ==
    ASSUME Faults = FALSE, NEW d \in CacheContent, NEW id \in Ids,
           NEW o \in CommitActivation(d, id)
    PROVE  /\ o.res = "ok"
           /\ o.disk.license = [id |-> id, verdict |-> "granted"]
<1> DEFINE rec == [id |-> id, verdict |-> "granted"]
<1>1. [[d EXCEPT !.license = rec] EXCEPT !.art = None].license = rec
  <2> HIDE DEF rec
  <2> QED
    BY DEF CacheContent
<1>2. o = Outcome([[d EXCEPT !.license = rec] EXCEPT !.art = None], "ok")
  BY DEF CommitActivation, Ok, Failed
<1> QED
  BY <1>1, <1>2 DEF Outcome

-----------------------------------------------------------------------------
(* What a step of caller p does to the cached license and the decision     *)

Keeps(p) == SameDecision /\ disk'.license = disk.license

(* it decides about the activation it is about, which the cache holds      *)
DecidesOwn(p) == LET id == call[p].target IN
    /\ Matches(disk, id)
    /\ disk'.license.id = id
    /\ \E v \in Verdicts : \E src \in Sources :
         /\ Decide(InstOf[p], id, v, src)
         /\ v \in {"granted", "offgranted"} => disk'.license = [id |-> id, verdict |-> v]

(* it is the newest operation, and installs a new activation               *)
Activates(p) ==
    /\ Answer(p, {"activate"}) /\ Acts(p)
    /\ call'[p].kind = "activate"
    /\ \E id \in Ids : /\ Decide(InstOf[p], id, "granted", "online")
                       /\ disk'.license = [id |-> id, verdict |-> "granted"]

(* it is the newest operation, and ends the activation it is about         *)
Releases(p) ==
    /\ Answer(p, Targeted)
    /\ ForgetDecision(InstOf[p])
    /\ disk'.license = IF Matches(disk, call[p].target) THEN NoRecord ELSE disk.license

(* it resets the client                                                    *)
Resets(p) == LET i == InstOf[p] IN
    /\ UNCHANGED call
    /\ ForgetDecision(i)
    /\ disk'.license = IF Current(i) = None \/ Matches(disk, Current(i))
                       THEN NoRecord ELSE disk.license

(* it carries out what a heartbeat was told, outside the lock              *)
CleansUp(p) ==
    /\ call[p].kind = "heartbeat"
    /\ SameDecision \/ ForgetDecision(InstOf[p])
    /\ disk'.license \in {disk.license, NoRecord}

Effect(p) ==
    \/ Keeps(p) \/ DecidesOwn(p) \/ Activates(p)
    \/ Releases(p) \/ Resets(p) \/ CleansUp(p)

LEMMA UntouchedKeeps ==
    ASSUME NEW p \in Procs, UNCHANGED disk
    PROVE  /\ Untouched => Keeps(p)
           /\ SameDecision => Keeps(p)
           /\ \A i, s : TakeNumber(i, s) => Keeps(p)
  BY DEF Untouched, SameDecision, TakeNumber, Keeps

LEMMA CommitDenialEffect ==
    ASSUME Faults = FALSE, TypeOK, NEW p \in Procs, CommitDenial(p)
    PROVE  Keeps(p) \/ DecidesOwn(p)
<1> DEFINE id == call[p].target
<1>1. PICK o \in UpdateValidation(disk, id, "denied") :
        \/ o.res = "stale" /\ Untouched /\ UNCHANGED disk
        \/ /\ o.res # "stale"
           /\ \E c \in IF o.res = "err" THEN ClearOfflineAssets(o.disk) ELSE {o} :
                disk' = c.disk
           /\ Decide(InstOf[p], id, "denied", "failclosed")
  BY DEF CommitDenial
<1>2. \/ o.res = "stale" /\ o.disk = disk
      \/ o.res = "ok" /\ Matches(disk, id) /\ o.disk.license = [id |-> id, verdict |-> "denied"]
  <2>1. disk \in CacheContent /\ "denied" \in Verdicts
    BY DEF TypeOK, Verdicts
  <2> QED
    BY <2>1, SoundUpdate
<1> QED
  BY <1>1, <1>2, UntouchedKeeps DEF DecidesOwn, Verdicts, Sources

LEMMA ValidateEffect ==
    ASSUME Faults = FALSE, TypeOK, NEW p \in Procs, ValidateStep(p)
    PROVE  Effect(p)
<1> DEFINE i == InstOf[p]
           id == call[p].target
<1>1. /\ disk \in CacheContent
      /\ \A v \in Verdicts : \A o \in UpdateValidation(disk, id, v) :
           /\ o.disk \in CacheContent
           /\ \/ o.res = "stale" /\ o.disk = disk
              \/ /\ o.res = "ok" /\ Matches(disk, id)
                 /\ o.disk.license = [id |-> id, verdict |-> v]
  <2>1. disk \in CacheContent
    BY DEF TypeOK
  <2>2. \A v \in Verdicts : UpdateValidation(disk, id, v) \subseteq Outcomes
    BY <2>1, UpdateType
  <2>3. ASSUME NEW v \in Verdicts
        PROVE  \A o \in UpdateValidation(disk, id, v) :
                 \/ o.res = "stale" /\ o.disk = disk
                 \/ /\ o.res = "ok" /\ Matches(disk, id)
                    /\ o.disk.license = [id |-> id, verdict |-> v]
    BY <2>1, SoundUpdate
  <2>4. \A o \in Outcomes : o.disk \in CacheContent
    BY DEF Outcomes
  <2> HIDE DEF id
  <2> QED
    BY <2>1, <2>2, <2>3, <2>4
<1>2. CASE BeginRestore(p) \/ BeginForeignRestore(p) \/ ForeignAnswer(p)
  BY <1>2, UntouchedKeeps
     DEF BeginRestore, BeginForeignRestore, ForeignAnswer, TakeNumber, Effect
<1>3. CASE ValidateOk(p)
  <2>1. PICK o \in UpdateValidation(disk, id, "granted") :
          \/ o.res # "ok" /\ disk' = o.disk /\ Untouched
          \/ /\ o.res = "ok"
             /\ disk' \in AfterAnchor(o.disk)
             /\ Decide(i, id, "granted", "online")
    BY <1>3 DEF ValidateOk
  <2>2. AfterAnchor(o.disk) = {o.disk}
    BY <1>1, SoundClear DEF Verdicts
  <2>3. CASE o.res # "ok"
    BY <1>1, <2>1, <2>3 DEF Verdicts, Untouched, Keeps, Effect
  <2>4. CASE o.res = "ok"
    BY <1>1, <2>1, <2>2, <2>4 DEF Verdicts, Sources, DecidesOwn, Effect
  <2> QED
    BY <2>3, <2>4
<1>4. CASE ValidateRefused(p)
  <2>1. PICK v \in OnlineDenials : \E o \in UpdateValidation(disk, id, v) :
          \/ o.res = "stale" /\ Untouched /\ UNCHANGED disk
          \/ /\ o.res # "stale"
             /\ \E c \in IF o.res = "ok" /\ v = "denied" THEN {o} ELSE ClearOfflineAssets(o.disk) :
                  disk' = c.disk
             /\ Decide(i, id, v, IF o.res = "ok" THEN "online" ELSE "failclosed")
    BY <1>4 DEF ValidateRefused
  <2>2. PICK o \in UpdateValidation(disk, id, v) :
          \/ o.res = "stale" /\ Untouched /\ UNCHANGED disk
          \/ /\ o.res # "stale"
             /\ \E c \in IF o.res = "ok" /\ v = "denied" THEN {o} ELSE ClearOfflineAssets(o.disk) :
                  disk' = c.disk
             /\ Decide(i, id, v, IF o.res = "ok" THEN "online" ELSE "failclosed")
    BY <2>1
  <2>3. v \in Verdicts
    BY DEF OnlineDenials, Verdicts
  <2>4. CASE o.res = "stale"
    BY <2>2, <2>4, UntouchedKeeps DEF Effect
  <2>5. CASE o.res # "stale"
    <3>1. disk'.license = o.disk.license
      <4>1. o.disk \in CacheContent
        BY <1>1, <2>3
      <4>2. \A c \in ClearOfflineAssets(o.disk) : c.disk.license = o.disk.license
        BY <4>1, SoundClear
      <4> QED
        BY <2>2, <2>5, <4>2
    <3>2. /\ Matches(disk, id) /\ o.res = "ok"
          /\ o.disk.license = [id |-> id, verdict |-> v]
      BY <1>1, <2>3, <2>5
    <3> QED
      BY <2>2, <2>3, <2>5, <3>1, <3>2 DEF Sources, DecidesOwn, Effect
  <2> QED
    BY <2>4, <2>5
<1>5. CASE ValidateRevoked(p)
  <2>1. PICK o \in UpdateValidation(disk, id, "refused") :
          \/ o.res = "stale" /\ Untouched /\ UNCHANGED disk
          \/ /\ o.res # "stale"
             /\ \E a \in ClearOfflineAssets(o.disk) :
                \E c \in IF o.res = "err" THEN {a} ELSE InvalidateAndClear(a.disk, id) :
                  /\ disk' = c.disk
                  /\ IF o.res = "err" \/ c.res = "err"
                     THEN Decide(i, id, "refused", "failclosed")
                     ELSE ForgetDecision(i)
    BY <1>5 DEF ValidateRevoked
  <2>2. CASE o.res = "stale"
    BY <2>1, <2>2, UntouchedKeeps DEF Effect
  <2>3. CASE o.res # "stale"
    <3>1. /\ o.disk \in CacheContent /\ o.res = "ok" /\ Matches(disk, id)
          /\ o.disk.license = [id |-> id, verdict |-> "refused"]
      BY <1>1, <2>3 DEF Verdicts
    <3>2. PICK a \in ClearOfflineAssets(o.disk) : \E c \in InvalidateAndClear(a.disk, id) :
            /\ disk' = c.disk
            /\ c.res # "err" => ForgetDecision(i)
      BY <2>1, <2>3, <3>1
    <3>3. a.disk \in CacheContent /\ a.disk.license = o.disk.license
      BY <3>1, SoundClear, ClearAssetsType DEF Outcomes
    <3>4. Matches(a.disk, id)
      BY <3>1, <3>3 DEF Matches
    <3>5. disk'.license = NoRecord /\ ForgetDecision(i)
      <4>1. \A c \in InvalidateAndClear(a.disk, id) : c.res # "err" /\ c.disk.license = NoRecord
        BY <3>3, <3>4, SoundInvalidate
      <4> QED
        BY <3>2, <4>1
    <3>6. Answer(p, Targeted)
      BY <1>5 DEF ValidateRevoked, Answer, At, Validating, Targeted
    <3> QED
      BY <3>1, <3>5, <3>6 DEF Releases, Effect
  <2> QED
    BY <2>2, <2>3
<1>6. CASE ValidateInvalidated(p)
  <2>1. Answer(p, Targeted)
    BY <1>6 DEF ValidateInvalidated, Answer, At, Validating, Targeted
  <2>2. \A o \in InvalidateAndClear(disk, id) :
          o.disk.license = IF Matches(disk, id) THEN NoRecord ELSE disk.license
    BY <1>1, SoundInvalidate
  <2> QED
    BY <1>6, <2>1, <2>2 DEF ValidateInvalidated, Releases, Effect
<1> QED
  BY <1>2, <1>3, <1>4, <1>5, <1>6 DEF ValidateStep

LEMMA ActivateEffect ==
    ASSUME Faults = FALSE, TypeOK, NEW p \in Procs, ActivateStep(p)
    PROVE  Effect(p)
<1>1. CASE BeginActivate(p) \/ StartTasks(p) \/ SpawnTasks(p)
  BY <1>1, UntouchedKeeps DEF BeginActivate, TakeNumber, StartTasks, SpawnTasks, Effect
<1>2. CASE ActivateOk(p)
  <2>1. PICK id \in Ids : \E o \in CommitActivation(disk, id) :
          /\ disk' = o.disk
          /\ o.res # "err" => Decide(InstOf[p], id, "granted", "online") /\ GoTo(p, "started")
    BY <1>2 DEF ActivateOk
  <2>2. \A o \in CommitActivation(disk, id) :
          o.res = "ok" /\ o.disk.license = [id |-> id, verdict |-> "granted"]
    <3>1. disk \in CacheContent
      BY DEF TypeOK
    <3> QED
      BY <3>1, SoundCommit
  <2>3. /\ disk'.license = [id |-> id, verdict |-> "granted"]
        /\ Decide(InstOf[p], id, "granted", "online") /\ GoTo(p, "started")
    BY <2>1, <2>2
  <2>4. Answer(p, {"activate"}) /\ Acts(p) /\ call'[p].kind = "activate"
    BY <1>2, <2>3 DEF ActivateOk, Answer, At, GoTo, Acts, TypeOK, Call
  <2> QED
    BY <2>3, <2>4 DEF Activates, Effect
<1> QED
  BY <1>1, <1>2 DEF ActivateStep

LEMMA OfflineEffect ==
    ASSUME Faults = FALSE, TypeOK, FoundDenies, NEW p \in Procs, OfflineStep(p)
    PROVE  Keeps(p) \/ DecidesOwn(p)
<1> DEFINE i == InstOf[p]
           id == call[p].target
<1>1. disk \in CacheContent /\ call[p].found \in Verdicts
  BY DEF TypeOK, Call
<1>2. CASE InstallFoundDenial(p)
  <2>1. CASE ~StillExpected(p)
    BY <1>2, <2>1, UntouchedKeeps DEF InstallFoundDenial
  <2>2. CASE StillExpected(p)
    <3>1. Matches(disk, id) /\ disk'.license = disk.license
      BY <1>2, <2>2 DEF InstallFoundDenial, StillExpected
    <3>2. Decide(i, id, call[p].found, "failclosed")
      BY <1>2, <2>2 DEF InstallFoundDenial
    <3>3. disk'.license.id = id
      BY <3>1 DEF Matches
    <3>4. call[p].found \notin {"granted", "offgranted"}
      BY <1>2 DEF InstallFoundDenial, FoundDenies, OnlineDenials
    <3> QED
      BY <1>1, <3>1, <3>2, <3>3, <3>4 DEF DecidesOwn, Sources
  <2> QED
    BY <2>1, <2>2
<1>3. CASE FinalizeOffline(p)
  <2>1. CASE SameDecision /\ UNCHANGED disk
    BY <2>1, UntouchedKeeps
  <2>2. CASE /\ StillExpected(p)
             /\ \E v \in {call[p].found, "offrefused"} : \E o \in UpdateValidation(disk, id, v) :
                  /\ disk' = o.disk
                  /\ IF o.res = "ok"
                     THEN Decide(i, id, v, IF v = "offgranted" THEN "signed" ELSE "failclosed")
                     ELSE SameDecision
    <3>1. PICK v \in {call[p].found, "offrefused"} : \E o \in UpdateValidation(disk, id, v) :
            /\ disk' = o.disk
            /\ IF o.res = "ok"
               THEN Decide(i, id, v, IF v = "offgranted" THEN "signed" ELSE "failclosed")
               ELSE SameDecision
      BY <2>2
    <3>2. v \in Verdicts
      BY <1>1 DEF Verdicts
    <3>3. \A o \in UpdateValidation(disk, id, v) :
            \/ o.res = "stale" /\ o.disk = disk
            \/ /\ o.res = "ok" /\ Matches(disk, id)
               /\ o.disk.license = [id |-> id, verdict |-> v]
      BY <1>1, <3>2, SoundUpdate
    <3>4. \/ UNCHANGED disk /\ SameDecision
          \/ /\ Matches(disk, id) /\ disk'.license = [id |-> id, verdict |-> v]
             /\ Decide(i, id, v, IF v = "offgranted" THEN "signed" ELSE "failclosed")
      BY <3>1, <3>3
    <3> QED
      BY <3>2, <3>4, UntouchedKeeps DEF DecidesOwn, Sources
  <2> QED
    BY <1>3, <2>1, <2>2 DEF FinalizeOffline
<1> QED
  BY <1>2, <1>3, UntouchedKeeps
     DEF OfflineStep, ValidateUnavailable, RestoreUnavailable, Fallback, RestoreFallback,
         Inspect, SpawnSupport

LEMMA HeartbeatEffect ==
    ASSUME Faults = FALSE, TypeOK, NEW p \in Procs, HeartbeatStep(p)
    PROVE  Keeps(p) \/ DecidesOwn(p) \/ CleansUp(p)
<1> DEFINE id == call[p].target
<1>1. disk \in CacheContent /\ "granted" \in Verdicts
  BY DEF TypeOK, Verdicts
<1>2. \A o \in InvalidateAndClear(disk, id) : o.disk.license \in {disk.license, NoRecord}
  BY <1>1, SoundInvalidate
<1>3. CASE HeartbeatOk(p)
  <2>1. PICK o \in UpdateValidation(disk, id, "granted") :
          IF o.res = "ok"
          THEN disk' \in AfterAnchor(o.disk) /\ Decide(InstOf[p], id, "granted", "online")
          ELSE disk' = o.disk /\ SameDecision
    BY <1>3 DEF HeartbeatOk
  <2>2. /\ o.disk \in CacheContent
        /\ \/ o.res = "stale" /\ o.disk = disk
           \/ /\ o.res = "ok" /\ Matches(disk, id)
              /\ o.disk.license = [id |-> id, verdict |-> "granted"]
    <3>1. UpdateValidation(disk, id, "granted") \subseteq Outcomes
      BY <1>1, UpdateType
    <3>2. \A c \in UpdateValidation(disk, id, "granted") :
            \/ c.res = "stale" /\ c.disk = disk
            \/ /\ c.res = "ok" /\ Matches(disk, id)
               /\ c.disk.license = [id |-> id, verdict |-> "granted"]
      BY <1>1, SoundUpdate
    <3>3. \A c \in Outcomes : c.disk \in CacheContent
      BY DEF Outcomes
    <3> HIDE DEF id
    <3> QED
      BY <3>1, <3>2, <3>3
  <2>3. AfterAnchor(o.disk) = {o.disk}
    BY <2>2, SoundClear
  <2> QED
    BY <1>1, <2>1, <2>2, <2>3, UntouchedKeeps DEF DecidesOwn, Sources
<1>4. CASE HeartbeatInactive(p)
  BY <1>2, <1>4 DEF HeartbeatInactive, Answer, At, CleansUp
<1>5. CASE HeartbeatDropRuntime(p)
  BY <1>5 DEF HeartbeatDropRuntime, At, CleansUp
<1>6. CASE HeartbeatDropCache(p)
  BY <1>2, <1>6 DEF HeartbeatDropCache, At, Untouched, CleansUp
<1> QED
  BY <1>3, <1>4, <1>5, <1>6, UntouchedKeeps
     DEF HeartbeatStep, HeartbeatInvalidated, HeartbeatDropOps, HeartbeatUnavailable

LEMMA OtherEffect ==
    ASSUME Faults = FALSE, TypeOK, NEW p \in Procs,
           DeactivateStep(p) \/ SyncStep(p) \/ AnyStep(p)
    PROVE  Effect(p)
<1> DEFINE i == InstOf[p]
<1>1. disk \in CacheContent
  BY DEF TypeOK
<1>2. \A id : \A o \in InvalidateAndClear(disk, id) :
        /\ o.res # "err"
        /\ o.disk.license = IF Matches(disk, id) THEN NoRecord ELSE disk.license
  BY <1>1, SoundInvalidate
<1>3. CASE DeactivateOk(p)
  BY <1>2, <1>3 DEF DeactivateOk, Answer, At, Targeted, Releases, Effect
<1>4. CASE SyncOk(p)
  <2>1. \A a \in Ids : \A o \in SetMachineFile(disk, a) : o.disk.license = disk.license
    BY <1>1 DEF SetMachineFile, Ok, Failed, Outcome, CacheContent
  <2> QED
    BY <1>4, <2>1 DEF SyncOk, Untouched, Keeps, Effect
<1>5. CASE Reset(p)
  <2>1. \A o \in Clear(disk) : o.res # "err" /\ o.disk.license = NoRecord
    BY <1>1, SoundClear
  <2>2. PICK o \in IF Current(i) # None THEN InvalidateAndClear(disk, Current(i)) ELSE Clear(disk) :
          /\ disk' = o.disk
          /\ recovery' = [recovery EXCEPT ![i] =
               IF o.res = "err" /\ o.disk.license.verdict \in OnlineDenials \cup {"offrefused"}
               THEN o.disk.license.id ELSE None]
    BY <1>5 DEF Reset
  <2>3. /\ o.res # "err"
        /\ o.disk.license = IF Current(i) = None \/ Matches(disk, Current(i))
                            THEN NoRecord ELSE disk.license
    BY <1>2, <2>1, <2>2
  <2>4. ForgetDecision(i) /\ UNCHANGED call
    BY <1>5, <2>2, <2>3 DEF Reset, ForgetDecision
  <2> QED
    BY <2>2, <2>3, <2>4 DEF Resets, Effect
<1>6. CASE ThrownDenial(p) \/ LifecycleDenial(p)
  BY <1>6, CommitDenialEffect DEF ThrownDenial, LifecycleDenial, Effect
<1>7. CASE \/ CancelActivation(p) \/ BeginSync(p) \/ \E kind \in Kinds : BeginTargeted(p, kind)
           \/ Rejected(p) \/ Superseded(p)
  BY <1>7, UntouchedKeeps
     DEF CancelActivation, BeginSync, BeginTargeted, TakeNumber, Rejected, Superseded,
         SameDecision, Effect
<1> QED
  BY <1>3, <1>4, <1>5, <1>6, <1>7 DEF DeactivateStep, SyncStep, AnyStep

LEMMA CallerEffect ==
    ASSUME Faults = FALSE, TypeOK, FoundDenies, NEW p \in Procs, CallerStep(p)
    PROVE  Effect(p)
  BY ActivateEffect, ValidateEffect, OfflineEffect, HeartbeatEffect, OtherEffect
     DEF CallerStep, Effect

-----------------------------------------------------------------------------
(* Which steps leave a request on its way, or with a verdict it has found  *)

Quiet(p) == call'[p].pc \notin {"begun", "sent", "found"}

LEMMA QuietMoves ==
    ASSUME TypeOK, NEW p \in Procs
    PROVE  /\ \A pc \in PCs \ {"begun", "sent", "found"} : GoTo(p, pc) => Quiet(p)
           /\ Return(p) => Quiet(p)
           /\ Finish(p) => Quiet(p)
           /\ Validated(p) => Quiet(p)
           /\ Decided(p) => Quiet(p)
           /\ Failing(p) => Quiet(p)
           /\ EnterOffline(p) => Quiet(p)
           /\ call' = RestoreOffline(p) => Quiet(p)
<1>1. /\ call[p] \in Call
      /\ \A c \in Call : call' = [call EXCEPT ![p] = c] => call'[p] = c
  BY DEF TypeOK
<1>2. \A pc \in PCs \ {"begun", "sent", "found"} : GoTo(p, pc) => Quiet(p)
  BY <1>1 DEF TypeOK, GoTo, Quiet, Call
<1>3. Return(p) => Quiet(p)
  <2>1. Return(p) => call'[p] = Idle
    BY <1>1, IdleType DEF Return
  <2> QED
    BY <2>1 DEF Quiet, Idle
<1>4. (EnterOffline(p) => Quiet(p)) /\ (call' = RestoreOffline(p) => Quiet(p))
  BY <1>1 DEF TypeOK, EnterOffline, RestoreOffline, Quiet, Call
<1> QED
  BY <1>2, <1>3, <1>4 DEF Finish, Validated, Decided, Failing, PCs

Sends(p) ==
    \/ BeginActivate(p) \/ BeginRestore(p) \/ BeginForeignRestore(p) \/ BeginSync(p)
    \/ CancelActivation(p)
    \/ \E kind \in Kinds : BeginTargeted(p, kind)

Finds(p) ==
    /\ call[p].pc = "inspect"
    /\ disk.license.verdict \in OnlineDenials
    /\ call' = [call EXCEPT ![p].pc = "found", ![p].found = disk.license.verdict]

LEMMA OnItsWay ==
    ASSUME TypeOK, NEW p \in Procs, CallerStep(p)
    PROVE  Quiet(p) \/ Sends(p) \/ Finds(p) \/ (call[p].pc = "idle" /\ UNCHANGED call)
<1>1. CASE ActivateStep(p)
  BY <1>1, QuietMoves DEF ActivateStep, ActivateOk, StartTasks, SpawnTasks, Sends, PCs
<1>2. CASE ValidateStep(p)
  BY <1>2, QuietMoves
     DEF ValidateStep, ValidateOk, ForeignAnswer, ValidateRefused, ValidateRevoked,
         ValidateInvalidated, Sends, PCs
<1>3. CASE OfflineStep(p)
  <2>1. CASE Inspect(p)
    <3>1. \A v \in Verdicts :
            call' = [call EXCEPT ![p].pc = "finalize", ![p].found = v] => Quiet(p)
      BY DEF TypeOK, Call, Quiet
    <3> QED
      BY <2>1, <3>1, QuietMoves DEF Inspect, Finds, Verdicts
  <2>2. CASE ValidateUnavailable(p) \/ RestoreUnavailable(p) \/ RestoreFallback(p)
    BY <2>2, QuietMoves DEF ValidateUnavailable, RestoreUnavailable, RestoreFallback, PCs
  <2>3. CASE Fallback(p)
    BY <2>3, QuietMoves DEF Fallback
  <2>4. CASE InstallFoundDenial(p) \/ FinalizeOffline(p) \/ SpawnSupport(p)
    BY <2>4, QuietMoves DEF InstallFoundDenial, FinalizeOffline, SpawnSupport
  <2> QED
    BY <1>3, <2>1, <2>2, <2>3, <2>4 DEF OfflineStep
<1>4. CASE HeartbeatStep(p)
  BY <1>4, QuietMoves
     DEF HeartbeatStep, HeartbeatOk, HeartbeatInactive, HeartbeatInvalidated,
         HeartbeatDropOps, HeartbeatDropRuntime, HeartbeatDropCache, HeartbeatUnavailable, PCs
<1>5. CASE DeactivateStep(p) \/ SyncStep(p)
  BY <1>5, QuietMoves DEF DeactivateStep, DeactivateOk, SyncStep, SyncOk, Sends
<1>6. CASE AnyStep(p)
  BY <1>6, QuietMoves
     DEF AnyStep, Rejected, Superseded, ThrownDenial, LifecycleDenial, CommitDenial, Reset, Sends
<1> QED
  BY <1>1, <1>2, <1>3, <1>4, <1>5, <1>6 DEF CallerStep

LEMMA BeginCall ==
    ASSUME TypeOK, NEW p \in Procs, NEW kind, NEW pc, NEW target, NEW cached,
           Begin(p, kind, pc, target, cached)
    PROVE  /\ call'[p].pc = pc /\ call'[p].kind = kind /\ call'[p].target = target
           /\ call'[p].op = NextOp(InstOf[p])
<1>1. call'[p] = [Idle EXCEPT !.pc = pc, !.kind = kind, !.op = NextOp(InstOf[p]),
                              !.target = target, !.cached = cached]
  BY DEF Begin, TypeOK
<1> QED
  BY <1>1 DEF Idle

LEMMA SendCall ==
    ASSUME TypeOK, NEW p \in Procs
    PROVE  /\ Sends(p) => call'[p].pc \in {"begun", "sent"}
           /\ Finds(p) => call'[p].pc = "found" /\ call'[p].found \in OnlineDenials
<1>1. ASSUME \E kind \in Kinds : BeginTargeted(p, kind)
      PROVE  call'[p].pc \in {"begun", "sent"}
  BY <1>1, BeginCall DEF BeginTargeted
<1>2. ASSUME BeginForeignRestore(p) PROVE call'[p].pc = "sent"
  BY <1>2 DEF BeginForeignRestore, TypeOK, Idle
<1>3. ASSUME CancelActivation(p) PROVE call'[p].pc = "sent"
  BY <1>3 DEF CancelActivation, GoTo, TypeOK, Call
<1>4. Finds(p) => call'[p].pc = "found" /\ call'[p].found \in OnlineDenials
  BY DEF Finds, TypeOK, Call
<1> QED
  BY <1>1, <1>2, <1>3, <1>4, BeginCall DEF Sends, BeginActivate, BeginRestore, BeginSync

LEMMA FoundStep ==
    ASSUME TypeOK, FoundDenies, NEW p \in Procs, CallerStep(p)
    PROVE  FoundDenies'
<1>1. \A q \in Procs \ {p} : call'[q] = call[q]
  BY OnlyActorActs DEF Acts
<1>2. call'[p].pc = "found" => call'[p].found \in OnlineDenials
  <2>1. CASE Sends(p)
    BY <2>1, SendCall
  <2>2. CASE Finds(p)
    BY <2>2, SendCall
  <2> QED
    BY <2>1, <2>2, OnItsWay DEF Quiet, FoundDenies
<1> QED
  BY <1>1, <1>2 DEF FoundDenies

(* An operation that can still commit was already able to, about the same  *)
(* activation, or has just begun, about the license of its instance.       *)
LEMMA PendingStep ==
    ASSUME SInv, NEW p \in Procs, CallerStep(p), NEW q \in Procs, Pending(q)'
    PROVE  \/ Pending(q) /\ call'[q].target = call[q].target
           \/ /\ q = p
              /\ Keeps(p)
              /\ Current(InstOf[q]) # None
              /\ call'[q].target = Current(InstOf[q])
<1>1. /\ TypeOK /\ NumbersUnique
      /\ \A r \in Procs : InstOf[r] \in Instances /\ call[r].op \in Nat
      /\ opSeq \in [Instances -> Nat] /\ stateOp \in [Instances -> Nat]
  BY CallRanges DEF SInv, SupersessionInv, TypeOK
<1>2. /\ call'[q].pc \in {"begun", "sent"} /\ call'[q].kind \in Targeted
      /\ call'[q].op # 0 /\ stateOp'[InstOf[q]] = call'[q].op
  BY DEF Pending
<1>3. CASE q # p
  <2>1. call'[q] = call[q]
    BY <1>1, <1>3, OnlyActorActs DEF Acts
  <2>2. stateOp'[InstOf[q]] \in {stateOp[InstOf[q]], 0, opSeq[InstOf[q]] + 1}
    <3>1. Numbering(p)
      BY <1>1, CallerNumbering
    <3> QED
      BY <1>1, <3>1 DEF Numbering, Starts, StartsForeign, DropsNewest, NextOp
  <2>3. call[q].op <= opSeq[InstOf[q]]
    BY <1>1 DEF NumbersUnique
  <2> QED
    BY <1>1, <1>2, <2>1, <2>2, <2>3 DEF Pending
<1>4. CASE q = p
  <2>1. Sends(p)
    <3>1. Sends(p) \/ (call[p].pc = "idle" /\ UNCHANGED call)
      BY <1>1, <1>2, <1>4, OnItsWay, SendCall DEF Quiet
    <3> QED
      BY <1>2, <1>4, <3>1
  <2>2. CASE CancelActivation(p)
    BY <1>1, <1>2, <1>4, <2>2
       DEF CancelActivation, At, GoTo, Untouched, Pending, TypeOK, Call
  <2>3. CASE BeginRestore(p)
    <3>1. Begin(p, "restore", "sent", Current(InstOf[p]), disk.license.id)
      BY <2>3 DEF BeginRestore
    <3>2. call'[p].target = Current(InstOf[p])
      BY <1>1, <3>1, BeginCall
    <3> QED
      BY <1>4, <2>3, <3>2, UntouchedKeeps DEF BeginRestore, TakeNumber
  <2>4. ASSUME NEW kind \in Kinds, BeginTargeted(p, kind)
        PROVE  /\ Keeps(p) /\ Current(InstOf[p]) # None
               /\ call'[p].target = Current(InstOf[p])
    <3>1. Begin(p, kind, IF kind = "deactivate" THEN "begun" ELSE "sent", Current(InstOf[p]), None)
      BY <2>4 DEF BeginTargeted
    <3>2. call'[p].target = Current(InstOf[p])
      BY <1>1, <3>1, BeginCall
    <3> QED
      BY <2>4, <3>2, UntouchedKeeps DEF BeginTargeted, TakeNumber
  <2>5. CASE BeginActivate(p)
    <3>1. call'[p].kind = "activate"
      BY <1>1, <2>5, BeginCall DEF BeginActivate
    <3> QED
      BY <1>2, <1>4, <3>1 DEF Targeted
  <2>6. CASE BeginSync(p)
    <3>1. call'[p].kind = "sync"
      BY <1>1, <2>6, BeginCall DEF BeginSync
    <3> QED
      BY <1>2, <1>4, <3>1 DEF Targeted
  <2>7. CASE BeginForeignRestore(p)
    <3>1. call'[p].op = 0
      BY <1>1, <2>7 DEF BeginForeignRestore, TypeOK, Idle
    <3> QED
      BY <1>2, <1>4, <3>1
  <2> QED
    BY <1>4, <2>1, <2>2, <2>3, <2>4, <2>5, <2>6, <2>7 DEF Sends
<1> QED
  BY <1>3, <1>4

-----------------------------------------------------------------------------
(* The invariant of the single instance                                    *)

LEMMA CallerRuns ==
    ASSUME NEW p \in Procs, CallerStep(p), mode[InstOf[p]] # "up" => call[p].pc = "idle"
    PROVE  mode[InstOf[p]] = "up" /\ UNCHANGED <<mode, boot>>
<1> SUFFICES ASSUME call[p].pc = "idle" PROVE mode[InstOf[p]] = "up"
  BY CallerKeepsLife
<1>1. CASE ActivateStep(p)
  BY <1>1 DEF ActivateStep, BeginActivate, MayBegin, ActivateOk, Answer, At, StartTasks, SpawnTasks
<1>2. CASE ValidateStep(p)
  BY <1>2 DEF ValidateStep, BeginRestore, BeginForeignRestore, MayRestore, MayBegin, ValidateOk,
              ForeignAnswer, ValidateRefused, ValidateRevoked, ValidateInvalidated, Answer, At
<1>3. ~OfflineStep(p)
  BY DEF OfflineStep, ValidateUnavailable, RestoreUnavailable, Fallback, RestoreFallback, Inspect,
         InstallFoundDenial, FinalizeOffline, SpawnSupport, Answer, At
<1>4. ~HeartbeatStep(p) /\ ~DeactivateStep(p)
  BY DEF HeartbeatStep, HeartbeatOk, HeartbeatInactive, HeartbeatInvalidated,
         HeartbeatDropOps, HeartbeatDropRuntime, HeartbeatDropCache, HeartbeatUnavailable,
         DeactivateStep, CancelActivation, DeactivateOk, Answer, At
<1>5. CASE SyncStep(p)
  BY <1>5 DEF SyncStep, BeginSync, MayBegin, SyncOk, At
<1>6. CASE AnyStep(p)
  BY <1>6 DEF AnyStep, BeginTargeted, MayBegin, Rejected, Superseded, ThrownDenial,
              LifecycleDenial, Reset, Answer, At
<1> QED
  BY <1>1, <1>2, <1>3, <1>4, <1>5, <1>6 DEF CallerStep

LEMMA CurrentMoves ==
    ASSUME TypeOK, NEW p \in Procs, Effect(p)
    PROVE  LET i == InstOf[p] IN
           \/ Current(i)' \in {Current(i), None} /\ disk'.license \in {disk.license, NoRecord}
           \/ \E id \in Ids : Matches(disk, id) /\ Current(i)' = id /\ disk'.license.id = id
           \/ /\ Answer(p, {"activate"}) /\ call'[p].kind = "activate"
              /\ Current(i)' = disk'.license.id
<1> DEFINE i == InstOf[p]
<1>1. i \in Instances /\ disk \in CacheContent
  BY InstType DEF TypeOK
<1>2. SameDecision => Current(i)' = Current(i)
  BY DEF SameDecision, Current, Established
<1>3. ForgetDecision(i) => Current(i)' = None
  BY <1>1 DEF ForgetDecision, TypeOK, Current, Established, NoGrant
<1>4. \A id \in Ids : \A v, src : Decide(i, id, v, src) => Current(i)' = id
  BY <1>1, NoneNotAnId DEF Decide, TypeOK, Current, Established
<1>5. CASE DecidesOwn(p)
  <2>1. call[p].target \in Ids
    BY <1>1, <1>5, MatchingRecord DEF DecidesOwn
  <2> QED
    BY <1>4, <1>5, <2>1 DEF DecidesOwn
<1>6. CASE Activates(p)
  BY <1>4, <1>6 DEF Activates
<1>7. CASE Keeps(p) \/ Releases(p) \/ Resets(p) \/ CleansUp(p)
  BY <1>2, <1>3, <1>7 DEF Keeps, Releases, Resets, CleansUp
<1> QED
  BY <1>5, <1>6, <1>7 DEF Effect

LEMMA CallerSole ==
    ASSUME Sole, SInv, SoleInv, NEW p \in Procs, CallerStep(p)
    PROVE  SoleInv'
<1> DEFINE i == InstOf[p]
<1>1. /\ TypeOK /\ NumbersUnique
      /\ i \in Instances /\ \A q \in Procs : InstOf[q] = i
      /\ \A j \in Instances : j = i
  BY InstType DEF SInv, SupersessionInv, Sole, Alone
<1>2. /\ mode[i] = "up" /\ UNCHANGED <<mode, boot>>
      /\ NewestIsAbout /\ NotAtOdds /\ FoundDenies
  BY CallerRuns DEF SoleInv, SInv, SupersessionInv, IdleHoldsNothing
<1>3. Effect(p)
  BY <1>1, <1>2, CallerEffect DEF Sole
<1>4. \/ Current(i)' \in {Current(i), None} /\ disk'.license \in {disk.license, NoRecord}
      \/ \E id \in Ids : Matches(disk, id) /\ Current(i)' = id /\ disk'.license.id = id
      \/ /\ Answer(p, {"activate"}) /\ call'[p].kind = "activate"
         /\ Current(i)' = disk'.license.id
  BY <1>1, <1>3, CurrentMoves
<1>5. NotAtOdds'
  <2>1. Current(i)' # None /\ disk'.license.id # None => Current(i)' = disk'.license.id
    BY <1>1, <1>2, <1>4 DEF NotAtOdds, NoRecord
  <2> QED
    BY <1>1, <2>1 DEF NotAtOdds
<1>6. DownHoldsNothing'
  BY <1>1, <1>2 DEF DownHoldsNothing
<1>7. FoundDenies'
  BY <1>1, <1>2, FoundStep
<1>8. ASSUME NEW q \in Procs, Pending(q)'
      PROVE  /\ Current(i)' \in {call'[q].target, None}
             /\ disk'.license.id \in {call'[q].target, None}
  <2>1. CASE /\ q = p /\ Keeps(p)
             /\ Current(i) # None /\ call'[q].target = Current(i)
    <3>1. Current(i)' = Current(i) /\ disk'.license = disk.license
      BY <2>1 DEF Keeps, SameDecision, Current, Established
    <3> QED
      BY <1>1, <1>2, <2>1, <3>1 DEF NotAtOdds
  <2>2. CASE Pending(q) /\ call'[q].target = call[q].target
    <3>1. Current(i) \in {call[q].target, None} /\ disk.license.id \in {call[q].target, None}
      BY <1>1, <1>2, <2>2 DEF NewestIsAbout
    <3>2. ~(Answer(p, {"activate"}) /\ call'[p].kind = "activate")
      <4>1. Answer(p, {"activate"}) => q = p
        BY <1>1, <2>2 DEF Answer, IsCurrentOp, Pending, NumbersUnique
      <4>2. call'[q].kind # "activate"
        BY <1>8 DEF Pending, Targeted
      <4> QED
        BY <4>1, <4>2
    <3> QED
      BY <1>4, <2>2, <3>1, <3>2, NoneNotAnId DEF Matches, NoRecord
  <2> QED
    BY <1>1, <1>8, <2>1, <2>2, PendingStep
<1>9. NewestIsAbout'
  BY <1>1, <1>8 DEF NewestIsAbout
<1> QED
  BY <1>5, <1>6, <1>7, <1>9 DEF SoleInv

(* A start takes over the identity of the record the cache holds           *)
LEMMA StartedInStep ==
    ASSUME Sole, SInv, SoleInv, NEW i \in Instances, StartWrite(i)
    PROVE  mode'[i] = "up" /\ Current(i)' = disk'.license.id
<1>1. TypeOK /\ disk \in CacheContent
  BY DEF SInv, TypeOK
<1>2. /\ mode[i] = "starting" /\ boot[i] = disk.license
      /\ runtime[i] = NoGrant /\ recovery[i] = None
      /\ UNCHANGED runtime
  BY DEF StartWrite, SoleInv, DownHoldsNothing
<1>3. mode'[i] = "up" /\ recovery'[i] = boot[i].id /\ disk'.license.id = boot[i].id
  <2>1. CASE boot[i].id = None
    BY <1>1, <1>2, <2>1 DEF StartWrite, Ok, Outcome, TypeOK
  <2>2. CASE boot[i].id # None
    <3> DEFINE rec == StartupRecord(boot[i])
    <3>1. rec.id = boot[i].id
      <4>1. boot[i] \in LicenseRecord
        BY <1>1, <2>2 DEF TypeOK, NoRecord
      <4> QED
        BY <4>1 DEF StartupRecord, LicenseRecord
    <3> HIDE DEF rec
    <3>2. StoreLicense(disk, rec) = {Outcome([disk EXCEPT !.license = rec], "ok")}
      BY DEF StoreLicense, Ok, Failed, Sole
    <3>3. [disk EXCEPT !.license = rec].license = rec
      BY <1>1 DEF CacheContent
    <3>4. \E o \in {Outcome([disk EXCEPT !.license = rec], "ok")} :
            /\ disk' = o.disk
            /\ o.res = "ok" => /\ mode' = [mode EXCEPT ![i] = "up"]
                               /\ recovery' = [recovery EXCEPT ![i] = boot[i].id]
      BY <2>2, <3>2 DEF StartWrite, rec
    <3>5. /\ disk' = [disk EXCEPT !.license = rec]
          /\ mode' = [mode EXCEPT ![i] = "up"]
          /\ recovery' = [recovery EXCEPT ![i] = boot[i].id]
      BY <3>4 DEF Outcome
    <3>6. disk'.license.id = boot[i].id
      BY <3>1, <3>3, <3>5
    <3> QED
      BY <1>1, <3>5, <3>6 DEF TypeOK
  <2> QED
    BY <2>1, <2>2
<1>4. Current(i)' = boot[i].id
  BY <1>2, <1>3 DEF Current, Established, NoGrant
<1> QED
  BY <1>3, <1>4

LEMMA InstanceSole ==
    ASSUME Sole, SInv, SoleInv, NEW i \in Instances, InstanceStep(i)
    PROVE  SoleInv'
<1>1. /\ TypeOK /\ IdleHoldsNothing /\ disk \in CacheContent
      /\ \A q \in Procs : InstOf[q] = i
      /\ \A j \in Instances : j = i
      /\ mode[i] # "up" => \A q \in Procs : call[q] = Idle
  BY InstType DEF SInv, SupersessionInv, IdleHoldsNothing, Sole, Alone, TypeOK
<1>2. NewestIsAbout /\ NotAtOdds /\ DownHoldsNothing /\ FoundDenies
  BY DEF SoleInv
<1>3. CASE StartRead(i)
  <2>1. UNCHANGED <<disk, runtime, recovery, stateOp, call>>
    BY <1>3 DEF StartRead
  <2>2. DownHoldsNothing'
    BY <1>1, <1>2, <1>3 DEF StartRead, DownHoldsNothing, TypeOK
  <2> QED
    BY <1>2, <2>1, <2>2
       DEF SoleInv, NewestIsAbout, Pending, NotAtOdds, FoundDenies, Current, Established
<1>4. CASE StartWrite(i)
  <2>1. /\ mode[i] = "starting" /\ boot[i] = disk.license
        /\ runtime[i] = NoGrant /\ recovery[i] = None
        /\ UNCHANGED <<runtime, call>>
    BY <1>2, <1>4 DEF StartWrite, DownHoldsNothing
  <2>2. mode'[i] = "up" /\ Current(i)' = disk'.license.id
    BY <1>4, StartedInStep
  <2>4. NotAtOdds'
    BY <1>1, <2>2 DEF NotAtOdds
  <2>5. DownHoldsNothing'
    BY <1>1, <2>2 DEF DownHoldsNothing
  <2>6. \A q \in Procs : call'[q].pc = "idle"
    BY <1>1, <2>1 DEF Idle
  <2> QED
    BY <2>4, <2>5, <2>6 DEF SoleInv, NewestIsAbout, Pending, FoundDenies
<1>5. CASE Crash(i)
  <2>1. /\ mode'[i] = "down" /\ runtime'[i] = NoGrant /\ recovery'[i] = None
        /\ \A q \in Procs : call'[q] = Idle
    BY <1>1, <1>5 DEF Crash, ForgetDecision, TypeOK
  <2>2. Current(i)' = None
    BY <2>1 DEF Current, Established, NoGrant
  <2> QED
    BY <1>1, <2>1, <2>2
       DEF SoleInv, NewestIsAbout, Pending, NotAtOdds, DownHoldsNothing, FoundDenies, Idle
<1>6. CASE Expire(i)
  <2>1. UNCHANGED <<disk, mode, boot, recovery, stateOp, call>>
    BY <1>6 DEF Expire
  <2>2. runtime[i] \in Grant
    BY <1>1, <1>6 DEF Expire, Active, TypeOK, NoGrant
  <2>3. runtime'[i].id = runtime[i].id
    BY <1>1, <1>6, <2>2 DEF Expire, TypeOK, Grant
  <2>4. Current(i)' = Current(i)
    BY <2>1, <2>3 DEF Current, Established
  <2>5. DownHoldsNothing'
    <3>1. mode[i] = "up"
      BY <1>2, <1>6 DEF DownHoldsNothing, Expire, Active, NoGrant
    <3> QED
      BY <1>1, <2>1, <3>1 DEF DownHoldsNothing
  <2> QED
    BY <1>1, <1>2, <2>1, <2>4, <2>5 DEF SoleInv, NewestIsAbout, Pending, NotAtOdds, FoundDenies
<1> QED
  BY <1>3, <1>4, <1>5, <1>6 DEF InstanceStep

LEMMA SoleNext == Sole /\ SInv /\ SoleInv /\ [SNext]_svars => SoleInv'
<1> SUFFICES ASSUME Sole, SInv, SoleInv, [SNext]_svars PROVE SoleInv'
  OBVIOUS
<1>1. CASE SNext
  BY <1>1, CallerSole, InstanceSole DEF SNext, Next
<1>2. CASE UNCHANGED svars
  BY <1>2 DEF svars, vars, SoleInv, NewestIsAbout, Pending, NotAtOdds, DownHoldsNothing,
              FoundDenies, Current, Established
<1> QED
  BY <1>1, <1>2

LEMMA SoleInit == SInit => SoleInv
  BY DEF SInit, Init, SoleInv, NewestIsAbout, Pending, NotAtOdds, DownHoldsNothing, FoundDenies,
         Current, Established, Idle, NoGrant

LEMMA SoleAlways == Sole => (SSpec => [](SInv /\ SoleInv))
<1> SUFFICES ASSUME Sole PROVE SSpec => [](SInv /\ SoleInv)
  OBVIOUS
<1>1. SInv /\ SoleInv /\ [SNext]_svars => SInv' /\ SoleInv'
  BY SNextInv, SoleNext
<1> QED
  BY <1>1, SInitInv, SoleInit, PTL DEF SSpec

(* As long as one instance has the cache to itself and its files do not    *)
(* fail, the newest operation is about the activation the instance         *)
(* manages: ensure_current_license_operation lets nothing commit for an    *)
(* activation that has been replaced, whatever requests overlap, and       *)
(* across relaunches.                                                      *)
THEOREM NewestIsOwn == Sole => (SSpec => []CurrentOpTargetsCurrent)
<1> SUFFICES ASSUME Sole PROVE SSpec => []CurrentOpTargetsCurrent
  OBVIOUS
<1>1. SoleInv => CurrentOpTargetsCurrent
  BY DEF SoleInv, NewestIsAbout, Pending, Targeted, CurrentOpTargetsCurrent
<1> QED
  BY <1>1, SoleAlways, PTL

-----------------------------------------------------------------------------
(* Without heartbeats memory and cache never part: what a heartbeat is     *)
(* told is carried out outside the lock.                                   *)

NoBeats == \A p \in Procs : call[p].kind # "heartbeat"
InStep == \A i \in Instances : mode[i] = "up" => Current(i) = disk.license.id
BeatlessInv == NoBeats /\ InStep /\ GrantIsBacked

Beatless == Sole /\ "heartbeat" \notin Kinds

LEMMA NoBeatsStep ==
    ASSUME "heartbeat" \notin Kinds, TypeOK, NoBeats, NEW p \in Procs, CallerStep(p)
    PROVE  NoBeats'
<1>1. \A q \in Procs \ {p} : call'[q] = call[q]
  BY OnlyActorActs DEF Acts
<1>2. call'[p].kind # "heartbeat"
  <2>1. CASE call[p].pc = "idle" /\ Sends(p)
    <3>1. CASE BeginActivate(p) \/ BeginRestore(p) \/ BeginSync(p)
      BY <3>1, BeginCall DEF BeginActivate, BeginRestore, BeginSync
    <3>2. CASE BeginForeignRestore(p)
      BY <3>2 DEF BeginForeignRestore, TypeOK, Idle
    <3>3. ASSUME NEW kind \in Kinds, BeginTargeted(p, kind) PROVE call'[p].kind # "heartbeat"
      BY <3>3, BeginCall DEF BeginTargeted
    <3> QED
      BY <2>1, <3>1, <3>2, <3>3 DEF Sends, CancelActivation, At
  <2>2. \/ Continues(p) \/ Stops(p) \/ UNCHANGED call
        \/ call[p].pc = "idle" /\ call'[p].pc # "idle"
    BY CallerNumbering DEF Numbering, Starts, StartsForeign
  <2>3. CASE call[p].pc = "idle" /\ call'[p].pc # "idle" /\ ~Sends(p)
    <3>1. CASE Finds(p)
      BY <2>3, <3>1 DEF Finds
    <3>2. CASE ~Finds(p)
      BY <2>3, <3>2 DEF CallerStep, Sends, ActivateStep, ActivateOk, StartTasks, SpawnTasks,
             ValidateStep, ValidateOk, ForeignAnswer, ValidateRefused, ValidateRevoked,
             ValidateInvalidated, OfflineStep, ValidateUnavailable, RestoreUnavailable, Fallback,
             RestoreFallback, Inspect, InstallFoundDenial, FinalizeOffline, SpawnSupport,
             HeartbeatStep, HeartbeatOk, HeartbeatInactive, HeartbeatInvalidated,
             HeartbeatDropOps, HeartbeatDropRuntime, HeartbeatDropCache, HeartbeatUnavailable,
             DeactivateStep, DeactivateOk, SyncStep, SyncOk,
             AnyStep, Rejected, Superseded, ThrownDenial, LifecycleDenial, Reset, Answer, At
    <3> QED
      BY <3>1, <3>2
  <2> QED
    BY <2>1, <2>2, <2>3 DEF Continues, Stops, Idle, NoBeats
<1> QED
  BY <1>1, <1>2 DEF NoBeats

LEMMA BeatlessStep ==
    ASSUME Beatless, SInv, SoleInv, BeatlessInv, NEW p \in Procs, CallerStep(p)
    PROVE  BeatlessInv'
<1> DEFINE i == InstOf[p]
<1>1. /\ TypeOK /\ i \in Instances /\ disk \in CacheContent
      /\ \A j \in Instances : j = i
  BY InstType DEF SInv, Beatless, Sole, Alone, TypeOK
<1>2. /\ mode[i] = "up" /\ NoBeats /\ FoundDenies /\ NewestIsAbout
      /\ Current(i) = disk.license.id
      /\ Active(i) => disk.license = [id |-> runtime[i].id, verdict |-> runtime[i].verdict]
  BY <1>1, CallerRuns
     DEF SInv, SupersessionInv, IdleHoldsNothing, SoleInv, BeatlessInv, InStep, GrantIsBacked
<1>3. Effect(p)
  BY <1>1, <1>2, CallerEffect DEF Beatless, Sole
<1>4. ForgetDecision(i) => Current(i)' = None /\ ~Active(i)'
  BY <1>1 DEF ForgetDecision, TypeOK, Current, Established, Active, NoGrant
<1>5. \A id \in Ids : \A v, src : Decide(i, id, v, src) =>
        /\ Current(i)' = id
        /\ runtime'[i].id = id /\ runtime'[i].verdict = v
  BY <1>1, NoneNotAnId DEF Decide, TypeOK, Current, Established
<1>6. /\ Current(i)' = disk'.license.id
      /\ Active(i)' => disk'.license = [id |-> runtime'[i].id, verdict |-> runtime'[i].verdict]
  <2>1. CASE Keeps(p)
    BY <1>2, <2>1 DEF Keeps, SameDecision, Current, Established, Active
  <2>2. CASE DecidesOwn(p)
    <3>1. call[p].target \in Ids
      BY <1>1, <2>2, MatchingRecord DEF DecidesOwn
    <3>2. PICK v \in Verdicts : \E src \in Sources :
            /\ Decide(i, call[p].target, v, src)
            /\ v \in {"granted", "offgranted"} =>
                 disk'.license = [id |-> call[p].target, verdict |-> v]
      BY <2>2 DEF DecidesOwn
    <3>3. /\ Current(i)' = call[p].target
          /\ runtime'[i].id = call[p].target /\ runtime'[i].verdict = v
      BY <1>5, <3>1, <3>2
    <3>4. Active(i)' => disk'.license = [id |-> runtime'[i].id, verdict |-> runtime'[i].verdict]
      BY <3>2, <3>3 DEF Active
    <3> QED
      BY <2>2, <3>3, <3>4 DEF DecidesOwn
  <2>3. CASE Activates(p)
    <3>1. PICK id \in Ids : /\ Decide(i, id, "granted", "online")
                            /\ disk'.license = [id |-> id, verdict |-> "granted"]
      BY <2>3 DEF Activates
    <3>2. Current(i)' = id /\ runtime'[i].id = id /\ runtime'[i].verdict = "granted"
      BY <1>5, <3>1
    <3> QED
      BY <3>1, <3>2
  <2>4. CASE Releases(p)
    <3>1. Pending(p)
      BY <2>4 DEF Releases, Answer, At, IsCurrentOp, Pending
    <3>2. disk.license.id \in {call[p].target, None}
      BY <1>2, <3>1 DEF NewestIsAbout
    <3>3. disk'.license.id = None
      BY <2>4, <3>2 DEF Releases, Matches, NoRecord
    <3> QED
      BY <1>4, <2>4, <3>3 DEF Releases
  <2>5. CASE Resets(p)
    <3>1. disk'.license.id = None
      BY <1>2, <2>5 DEF Resets, Matches, NoRecord
    <3> QED
      BY <1>4, <2>5, <3>1 DEF Resets
  <2>6. CASE CleansUp(p)
    BY <1>2, <2>6 DEF CleansUp, NoBeats
  <2> QED
    BY <1>3, <2>1, <2>2, <2>3, <2>4, <2>5, <2>6 DEF Effect
<1>7. InStep' /\ GrantIsBacked'
  BY <1>1, <1>6 DEF InStep, GrantIsBacked
<1>8. NoBeats'
  BY <1>1, <1>2, NoBeatsStep DEF Beatless
<1> QED
  BY <1>7, <1>8 DEF BeatlessInv

LEMMA BeatlessInstance ==
    ASSUME Beatless, SInv, SoleInv, BeatlessInv, NEW i \in Instances, InstanceStep(i)
    PROVE  BeatlessInv'
<1>1. /\ TypeOK /\ disk \in CacheContent
      /\ \A j \in Instances : j = i
      /\ NoBeats /\ DownHoldsNothing
      /\ mode[i] = "up" => Current(i) = disk.license.id
      /\ Active(i) => disk.license = [id |-> runtime[i].id, verdict |-> runtime[i].verdict]
  BY DEF SInv, Beatless, Sole, Alone, TypeOK, BeatlessInv, InStep, GrantIsBacked, SoleInv
<1>2. NoBeats'
  BY <1>1 DEF InstanceStep, StartRead, StartWrite, Crash, Expire, NoBeats, Idle
<1>3. /\ mode'[i] = "up" => Current(i)' = disk'.license.id
      /\ Active(i)' => disk'.license = [id |-> runtime'[i].id, verdict |-> runtime'[i].verdict]
  <2>1. CASE StartRead(i)
    BY <1>1, <2>1 DEF StartRead, TypeOK, Active
  <2>2. CASE StartWrite(i)
    <3>1. ~Active(i)'
      BY <1>1, <2>2 DEF StartWrite, DownHoldsNothing, Active, NoGrant
    <3>2. Current(i)' = disk'.license.id
      BY <2>2, StartedInStep DEF Beatless
    <3> QED
      BY <3>1, <3>2
  <2>3. CASE Crash(i)
    BY <1>1, <2>3 DEF Crash, ForgetDecision, TypeOK, Active, NoGrant
  <2>4. CASE Expire(i)
    <3>1. runtime[i] \in Grant
      BY <1>1, <2>4 DEF Expire, Active, TypeOK, NoGrant
    <3>2. runtime'[i].id = runtime[i].id /\ ~Active(i)'
      BY <1>1, <2>4, <3>1 DEF Expire, Active, TypeOK, Grant
    <3>3. Current(i)' = Current(i)
      BY <2>4, <3>2 DEF Expire, Current, Established
    <3> QED
      BY <1>1, <2>4, <3>2, <3>3 DEF Expire
  <2> QED
    BY <2>1, <2>2, <2>3, <2>4 DEF InstanceStep
<1> QED
  BY <1>1, <1>2, <1>3 DEF BeatlessInv, InStep, GrantIsBacked

LEMMA BeatlessNext == Beatless /\ SInv /\ SoleInv /\ BeatlessInv /\ [SNext]_svars => BeatlessInv'
<1> SUFFICES ASSUME Beatless, SInv, SoleInv, BeatlessInv, [SNext]_svars PROVE BeatlessInv'
  OBVIOUS
<1>1. CASE SNext
  BY <1>1, BeatlessStep, BeatlessInstance DEF SNext, Next
<1>2. CASE UNCHANGED svars
  BY <1>2 DEF svars, vars, BeatlessInv, NoBeats, InStep, GrantIsBacked, Active,
              Current, Established
<1> QED
  BY <1>1, <1>2

LEMMA BeatlessInit == SInit => BeatlessInv
  BY DEF SInit, Init, BeatlessInv, NoBeats, InStep, GrantIsBacked, Active, Idle, NoGrant

LEMMA BeatlessAlways == Beatless => (SSpec => [](SInv /\ SoleInv /\ BeatlessInv))
<1> SUFFICES ASSUME Beatless PROVE SSpec => [](SInv /\ SoleInv /\ BeatlessInv)
  OBVIOUS
<1>1. Sole
  BY DEF Beatless
<1>2. SInv /\ SoleInv /\ BeatlessInv /\ [SNext]_svars => BeatlessInv'
  BY BeatlessNext
<1> QED
  BY <1>1, <1>2, SoleAlways, BeatlessInit, PTL DEF SSpec

(* Access is granted in memory only on the decision the cache holds: no    *)
(* overlap of activations, validations, restores, deactivations, resets    *)
(* and offline fallbacks of one instance, and no relaunch, leaves a grant  *)
(* for a license the cache has dropped, replaced or decided otherwise.     *)
THEOREM GrantsAreBacked == Beatless => (SSpec => []GrantIsBacked)
<1> SUFFICES ASSUME Beatless PROVE SSpec => []GrantIsBacked
  OBVIOUS
<1>1. BeatlessInv => GrantIsBacked
  BY DEF BeatlessInv
<1> QED
  BY <1>1, BeatlessAlways, PTL

(* The activation an instance decides about changes only by its own        *)
(* activation request: a late answer never brings a replaced license back. *)
THEOREM OwnDecisionsOnly == Beatless => (SSpec => DecisionsAreOwn)
<1> SUFFICES ASSUME Beatless PROVE SSpec => DecisionsAreOwn
  OBVIOUS
<1>1. ASSUME SInv, SoleInv, BeatlessInv, SNext, NEW i \in Instances,
             runtime'[i].id \notin {None, Current(i)}
      PROVE  \E p \in Procs : InstOf[p] = i /\ call[p].kind = "activate" /\ Acts(p)
  <2>1. /\ TypeOK /\ disk \in CacheContent /\ \A j \in Instances : j = i
        /\ \A p \in Procs : InstOf[p] = i
    BY <1>1, InstType DEF SInv, TypeOK, Beatless, Sole, Alone
  <2>2. runtime'[i].id # runtime[i].id
    BY <1>1 DEF Current, Established
  <2>3. ASSUME NEW p \in Procs, CallerStep(p)
        PROVE  call[p].kind = "activate" /\ Acts(p)
    <3>1. Effect(p) /\ Current(i) = disk.license.id
      BY <1>1, <2>1, <2>3, CallerEffect, CallerRuns
         DEF SInv, SupersessionInv, IdleHoldsNothing, SoleInv, Beatless, Sole, BeatlessInv, InStep
    <3>2. CASE Activates(p)
      BY <3>2 DEF Activates, Answer, At
    <3>3. CASE DecidesOwn(p)
      BY <1>1, <2>1, <3>1, <3>3 DEF DecidesOwn, Decide, Matches, TypeOK
    <3>4. ASSUME ForgetDecision(i) PROVE FALSE
      BY <1>1, <2>1, <3>4 DEF ForgetDecision, TypeOK, NoGrant
    <3>5. ASSUME SameDecision PROVE FALSE
      BY <2>2, <3>5 DEF SameDecision
    <3> QED
      BY <2>1, <3>1, <3>2, <3>3, <3>4, <3>5 DEF Effect, Keeps, Releases, Resets, CleansUp
  <2>4. ASSUME NEW j \in Instances, InstanceStep(j) PROVE FALSE
    <3>1. j = i
      BY <2>1
    <3>2. ~Expire(i)
      <4> SUFFICES ASSUME Expire(i) PROVE FALSE
        OBVIOUS
      <4>1. runtime[i] \in Grant
        BY <2>1 DEF Expire, Active, TypeOK, NoGrant
      <4> QED
        BY <2>1, <2>2, <4>1 DEF Expire, TypeOK, Grant
    <3>3. ~Crash(i)
      BY <1>1, <2>1 DEF Crash, ForgetDecision, TypeOK, NoGrant
    <3> QED
      BY <2>2, <2>4, <3>1, <3>2, <3>3 DEF InstanceStep, StartRead, StartWrite
  <2> QED
    BY <1>1, <2>1, <2>3, <2>4 DEF SNext, Next
<1>2. SInv /\ SoleInv /\ BeatlessInv /\ [SNext]_svars =>
        [\A i \in Instances :
           runtime'[i].id \notin {None, Current(i)}
           => \E p \in Procs : InstOf[p] = i /\ call[p].kind = "activate" /\ Acts(p)]_vars
  BY <1>1 DEF svars
<1> QED
  BY <1>2, BeatlessAlways, PTL DEF SSpec, DecisionsAreOwn

(* A request about one activation never changes or forgets the decision    *)
(* about another: "rejected or superseded responses leave the newer/last   *)
(* trusted state intact".                                                  *)
THEOREM DecisionsStand == Beatless => (SSpec => OtherDecisionKept)
<1> SUFFICES ASSUME Beatless PROVE SSpec => OtherDecisionKept
  OBVIOUS
<1>1. ASSUME SInv, SoleInv, BeatlessInv, SNext, NEW p \in Procs, Acts(p),
             call[p].kind # "activate", runtime[InstOf[p]].id \notin {None, call[p].target}
      PROVE  LET i == InstOf[p] IN runtime'[i] = runtime[i] \/ mode'[i] = "down"
  <2> DEFINE i == InstOf[p]
  <2>1. /\ TypeOK /\ disk \in CacheContent /\ i \in Instances
        /\ \A j \in Instances : j = i
    BY <1>1, InstType DEF SInv, TypeOK, Beatless, Sole, Alone
  <2>2. Current(i) \notin {None, call[p].target}
    BY <1>1 DEF Current, Established
  <2>3. CASE CallerStep(p)
    <3>1. Effect(p)
      BY <1>1, <2>1, <2>3, CallerEffect DEF SoleInv, Beatless, Sole
    <3>2. ~DecidesOwn(p)
      BY <1>1, <2>1, <2>2 DEF DecidesOwn, Matches, SoleInv, NotAtOdds
    <3>3. ~Releases(p)
      BY <1>1, <2>2 DEF Releases, Answer, At, IsCurrentOp, Pending, SoleInv, NewestIsAbout
    <3>4. ~Activates(p) /\ ~CleansUp(p) /\ ~Resets(p)
      BY <1>1 DEF Activates, Answer, At, CleansUp, Resets, Acts, BeatlessInv, NoBeats
    <3> QED
      BY <3>1, <3>2, <3>3, <3>4 DEF Effect, Keeps, SameDecision
  <2>4. ASSUME NEW q \in Procs, q # p, CallerStep(q) PROVE FALSE
    BY <1>1, <2>1, <2>4, OnlyActorActs
  <2>5. ASSUME NEW j \in Instances, InstanceStep(j)
        PROVE  runtime'[i] = runtime[i] \/ mode'[i] = "down"
    <3>1. j = i
      BY <2>1
    <3>2. CASE Crash(i)
      BY <2>1, <3>2 DEF Crash, TypeOK
    <3> QED
      BY <1>1, <2>5, <3>1, <3>2 DEF InstanceStep, StartRead, StartWrite, Expire, Acts
  <2> QED
    BY <1>1, <2>3, <2>4, <2>5 DEF SNext, Next
<1>2. SInv /\ SoleInv /\ BeatlessInv /\ [SNext]_svars =>
        [\A p \in Procs : LET i == InstOf[p] IN
           /\ Acts(p)
           /\ call[p].kind # "activate"
           /\ runtime[i].id \notin {None, call[p].target}
           => runtime'[i] = runtime[i] \/ mode'[i] = "down"]_vars
  BY <1>1 DEF svars
<1> QED
  BY <1>2, BeatlessAlways, PTL DEF SSpec, OtherDecisionKept

-----------------------------------------------------------------------------
(* One caller of a single instance: what is left are sequences of requests *)
(* with failing files, and relaunches                                      *)

OneCaller == Alone /\ \A p, q \in Procs : p = q

(* A barred activation that is still cached has its denial recorded        *)
BarredIsDenied ==
    disk.license.id \in barred => disk.license.verdict \in OnlineDenials

(* The cache does not change while an offline fallback has looked at it    *)
FallbackSawCache == \A p \in Procs :
    /\ call[p].pc = "found" =>
         /\ call[p].found \in OnlineDenials
         /\ Matches(disk, call[p].target) => disk.license.verdict = call[p].found
    /\ call[p].pc = "finalize" =>
         /\ call[p].found \in {"offgranted", "offrefused"}
         /\ Matches(disk, call[p].target) => disk.license.verdict \notin OnlineDenials

Licensed(i) ==
    Current(i) # None /\ runtime[i].verdict # "denied" /\ disk.license.verdict # "denied"

(* Loops run, or are about to be started, for a license that is not denied *)
LoopsAreLicensed ==
    /\ \A i \in Instances : "timers" \in tasks[i] => Licensed(i)
    /\ \A p \in Procs :
         /\ call[p].pc = "spawn" => Licensed(InstOf[p])
         /\ call[p].pc = "started" /\ call[p].kind # "restore" => Licensed(InstOf[p])
         /\ call[p].pc = "hb_runtime" => "timers" \notin tasks[InstOf[p]]
    /\ \A i \in Instances : Active(i) => disk.license.verdict # "denied"

(* An instance that is not up does nothing                                 *)
DownIsStill ==
    /\ \A p \in Procs : mode[InstOf[p]] # "up" => call[p].pc = "idle"
    /\ \A i \in Instances :
         /\ mode[i] # "up" => "timers" \notin tasks[i] /\ runtime[i] = NoGrant
         /\ mode[i] = "starting" => boot[i] = disk.license

DenialInv == BarredIsDenied /\ FallbackSawCache /\ LoopsAreLicensed /\ DownIsStill
DInv == TypeOK /\ barred \subseteq Ids /\ DenialInv

-----------------------------------------------------------------------------
(* What the cache does when its files may fail                             *)

(* A write that is not an online grant never replaces a recorded denial    *)
Moves(was, now) ==
    \/ now = was
    \/ now = NoRecord
    \/ now.verdict = "granted"
    \/ now.verdict \in OnlineDenials
    \/ now.id = was.id /\ was.verdict \notin OnlineDenials

LEMMA FaultyStore ==
    ASSUME NEW d \in CacheContent, NEW rec
    PROVE  \A o \in StoreLicense(d, rec) :
             /\ o.disk.license \in {d.license, rec}
             /\ o.res = "ok" => o.disk.license = rec
<1>1. [d EXCEPT !.license = rec].license = rec
  BY DEF CacheContent
<1> DEFINE e == [d EXCEPT !.license = rec]
<1> HIDE DEF e
<1>2. e.license = rec
  BY <1>1 DEF e
<1>3. StoreLicense(d, rec) \subseteq {Outcome(e, "ok"), Outcome(d, "err"), Outcome(e, "err")}
  BY DEF StoreLicense, Ok, Failed, e
<1> QED
  BY <1>2, <1>3 DEF Outcome

LEMMA FaultyUpdate ==
    ASSUME NEW d \in CacheContent, NEW id, NEW v
    PROVE  \A o \in UpdateValidation(d, id, v) :
             \/ o.res = "stale" /\ o.disk = d
             \/ /\ Matches(d, id)
                /\ \/ o.disk.license = d.license
                   \/ o.disk.license.id = id /\ o.disk.license.verdict = v
                /\ o.res = "ok" => o.disk.license.id = id /\ o.disk.license.verdict = v
<1>1. CASE UpdateValidation(d, id, v) = Stale(d)
  BY <1>1 DEF Stale, Outcome
<1>2. CASE /\ Matches(d, id)
           /\ UpdateValidation(d, id, v) = StoreLicense(d, [id |-> id, verdict |-> v])
  <2> DEFINE rec == [id |-> id, verdict |-> v]
  <2>1. rec.id = id /\ rec.verdict = v
    OBVIOUS
  <2>2. \A o \in UpdateValidation(d, id, v) :
          /\ o.disk.license \in {d.license, rec}
          /\ o.res = "ok" => o.disk.license = rec
    BY <1>2, FaultyStore
  <2> HIDE DEF rec
  <2> QED
    BY <1>2, <2>1, <2>2
<1> QED
  BY <1>1, <1>2 DEF UpdateValidation

LEMMA FaultyClear ==
    ASSUME NEW d \in CacheContent
    PROVE  /\ \A o \in ClearOfflineAssets(d) : o.disk.license = d.license
           /\ \A o \in Clear(d) : o.disk.license \in {d.license, NoRecord}
  BY DEF ClearOfflineAssets, Clear, Ok, Failed, Outcome, CacheContent, EmptyCache

LEMMA FaultyInvalidate ==
    ASSUME NEW d \in CacheContent, NEW id
    PROVE  \A o \in InvalidateAndClear(d, id) :
             \/ o.disk.license \in {d.license, NoRecord}
             \/ o.disk.license.verdict = "refused"
<1>1. CASE ~Matches(d, id)
  BY <1>1 DEF InvalidateAndClear, Stale, Outcome
<1>2. CASE Matches(d, id)
  <2>1. \A m \in MarkInvalid(d) :
          m \in CacheContent /\ (m.license = d.license \/ m.license.verdict = "refused")
    <3>1. [d EXCEPT !.license.verdict = "refused"].license.verdict = "refused"
      BY DEF CacheContent, LicenseRecord, NoRecord
    <3>2. MarkInvalid(d) \subseteq {d, [d EXCEPT !.license.verdict = "refused"]}
      BY DEF MarkInvalid
    <3>3. MarkInvalid(d) \subseteq CacheContent
      BY MarkType
    <3> QED
      BY <3>1, <3>2, <3>3
  <2>2. \A m \in MarkInvalid(d) : \A o \in Clear(m) : o.disk.license \in {m.license, NoRecord}
    BY <2>1, FaultyClear
  <2>3. InvalidateAndClear(d, id) = UNION {Clear(m) : m \in MarkInvalid(d)}
    BY <1>2 DEF InvalidateAndClear
  <2> QED
    BY <2>1, <2>2, <2>3
<1> QED
  BY <1>1, <1>2

LEMMA FaultyCommit ==
    ASSUME NEW d \in CacheContent, NEW id \in Ids
    PROVE  \A o \in CommitActivation(d, id) :
             /\ o.disk.license = d.license \/ o.disk.license.verdict = "granted"
             /\ o.res # "err" => o.disk.license.verdict = "granted"
<1> DEFINE rec == [id |-> id, verdict |-> "granted"]
           marker == [d EXCEPT !.license = rec]
           clean == [marker EXCEPT !.art = None]
<1>1. marker.license.verdict = "granted" /\ clean.license.verdict = "granted"
  BY DEF CacheContent
<1>2. CommitActivation(d, id) \subseteq
        {Outcome(clean, "ok"), Outcome(marker, "ok"), Outcome(d, "err"), Outcome(marker, "err")}
  BY DEF CommitActivation, Ok, Failed
<1> HIDE DEF marker, clean
<1> QED
  BY <1>1, <1>2 DEF Outcome

-----------------------------------------------------------------------------
(* What a step of the only caller does to the loops and the record         *)

(* It leaves the caller nowhere special ...                                *)
Plain(p) ==
    /\ call'[p].pc \notin {"found", "finalize", "spawn", "hb_runtime"}
    /\ call'[p].pc = "started" => call'[p].kind = "restore"

Undenied(i) == Active(i) => disk.license.verdict # "denied"

(* ... and stops the loops, or keeps what they are licensed by             *)
Retires(p) == "timers" \notin tasks'[InstOf[p]] /\ Undenied(InstOf[p])'
Carries(p) == LET i == InstOf[p] IN
    /\ "timers" \in tasks'[i] => "timers" \in tasks[i]
    /\ Licensed(i) => Licensed(i)'
    /\ Undenied(i)'

Calm(p) == Moves(disk.license, disk'.license) /\ Plain(p) /\ (Retires(p) \/ Carries(p))

LEMMA PlainMoves ==
    ASSUME TypeOK, NEW p \in Procs
    PROVE  /\ \A pc \in PCs \ {"found", "finalize", "spawn", "hb_runtime", "started"} :
                GoTo(p, pc) => Plain(p)
           /\ call[p].kind = "restore" /\ GoTo(p, "started") => Plain(p)
           /\ Return(p) => Plain(p)
           /\ Finish(p) => Plain(p)
           /\ Validated(p) => Plain(p)
           /\ Decided(p) => Plain(p)
           /\ Failing(p) => Plain(p)
           /\ EnterOffline(p) => Plain(p)
           /\ call' = RestoreOffline(p) => Plain(p)
           /\ \A kind, target, cached : \A pc \in {"begun", "sent"} :
                Begin(p, kind, pc, target, cached) => Plain(p)
<1>1. /\ call[p] \in Call
      /\ \A c : call' = [call EXCEPT ![p] = c] => call'[p] = c
  BY DEF TypeOK
<1>2. /\ \A pc \in PCs \ {"found", "finalize", "spawn", "hb_runtime", "started"} :
           GoTo(p, pc) => Plain(p)
      /\ call[p].kind = "restore" /\ GoTo(p, "started") => Plain(p)
  BY <1>1 DEF TypeOK, GoTo, Plain, Call
<1>3. Return(p) => Plain(p)
  <2>1. Return(p) => call'[p] = Idle
    BY <1>1 DEF Return
  <2> QED
    BY <2>1 DEF Plain, Idle
<1>4. (EnterOffline(p) => Plain(p)) /\ (call' = RestoreOffline(p) => Plain(p))
  BY <1>1 DEF TypeOK, EnterOffline, RestoreOffline, Plain, Call
<1>5. ASSUME NEW kind, NEW target, NEW cached, NEW pc \in {"begun", "sent"},
             Begin(p, kind, pc, target, cached)
      PROVE  Plain(p)
  BY <1>1, <1>5 DEF Begin, Idle, Plain
<1> QED
  BY <1>2, <1>3, <1>4, <1>5 DEF Finish, Validated, Decided, Failing, PCs

LEMMA Rests ==
    ASSUME TypeOK, LoopsAreLicensed, NEW p \in Procs
    PROVE  LET i == InstOf[p] IN
           /\ /\ SameDecision /\ tasks'[i] \subseteq tasks[i] \cup {"support"}
              /\ disk'.license = disk.license \/ disk'.license.verdict # "denied"
              => Carries(p)
           /\ \A id \in Ids : \A v, src :
                /\ Decide(i, id, v, src) /\ UNCHANGED tasks
                /\ v # "denied" /\ disk'.license.verdict # "denied"
                => Carries(p)
           /\ StopTasks(i) /\ ForgetDecision(i) => Retires(p)
           /\ \A id, src : \A v \in OnlineDenials : StopTasks(i) /\ Decide(i, id, v, src) => Retires(p)
<1> DEFINE i == InstOf[p]
<1>1. i \in Instances /\ Undenied(i)
  BY InstType DEF LoopsAreLicensed, Undenied
<1>2. /\ SameDecision /\ tasks'[i] \subseteq tasks[i] \cup {"support"}
      /\ disk'.license = disk.license \/ disk'.license.verdict # "denied"
      => Carries(p)
  BY <1>1 DEF SameDecision, Carries, Licensed, Undenied, Current, Established, Active
<1>3. ASSUME NEW id \in Ids, NEW v, NEW src,
             Decide(i, id, v, src) /\ UNCHANGED tasks,
             v # "denied" /\ disk'.license.verdict # "denied"
      PROVE  Carries(p)
  <2>1. runtime'[i].id = id /\ runtime'[i].verdict = v
    BY <1>1, <1>3 DEF Decide, TypeOK
  <2> QED
    BY <1>1, <1>3, <2>1, NoneNotAnId DEF Carries, Licensed, Undenied, Current, Established
<1>4. StopTasks(i) => "timers" \notin tasks'[i]
  BY <1>1 DEF StopTasks, TypeOK
<1>5. ForgetDecision(i) => ~Active(i)'
  BY <1>1 DEF ForgetDecision, TypeOK, Active, NoGrant
<1>6. \A id, src : \A v \in OnlineDenials : Decide(i, id, v, src) => ~Active(i)'
  BY <1>1 DEF Decide, TypeOK, Active, OnlineDenials
<1> QED
  BY <1>2, <1>3, <1>4, <1>5, <1>6 DEF Retires, Undenied

LEMMA CalmWrites ==
    ASSUME TypeOK, LoopsAreLicensed, NEW p \in Procs
    PROVE  /\ \A id : \A v \in Verdicts : \A o \in UpdateValidation(disk, id, v) :
                /\ o.disk \in CacheContent
                /\ o.res \in {"ok", "stale", "err"}
                /\ \/ o.res = "stale" /\ o.disk = disk
                   \/ /\ Matches(disk, id) /\ id \in Ids
                      /\ \/ o.disk.license = disk.license
                         \/ o.disk.license.id = id /\ o.disk.license.verdict = v
                      /\ o.res = "ok" => o.disk.license.id = id /\ o.disk.license.verdict = v
           /\ \A id : \A o \in InvalidateAndClear(disk, id) :
                \/ o.disk.license \in {disk.license, NoRecord}
                \/ o.disk.license.verdict = "refused"
<1>1. disk \in CacheContent
  BY DEF TypeOK
<1>2. \A id : \A v \in Verdicts : UpdateValidation(disk, id, v) \subseteq Outcomes
  BY <1>1, UpdateType
<1>3. \A id : Matches(disk, id) => id \in Ids
  BY <1>1, MatchingRecord
<1>4. \A o \in Outcomes : o.disk \in CacheContent /\ o.res \in {"ok", "stale", "err"}
  BY DEF Outcomes, Results
<1>5. ASSUME NEW id, NEW v \in Verdicts, NEW o \in UpdateValidation(disk, id, v)
      PROVE  \/ o.res = "stale" /\ o.disk = disk
             \/ /\ Matches(disk, id)
                /\ \/ o.disk.license = disk.license
                   \/ o.disk.license.id = id /\ o.disk.license.verdict = v
                /\ o.res = "ok" => o.disk.license.id = id /\ o.disk.license.verdict = v
  BY <1>1, FaultyUpdate
<1>6. ASSUME NEW id, NEW v \in Verdicts, NEW o \in UpdateValidation(disk, id, v)
      PROVE  o.disk \in CacheContent /\ o.res \in {"ok", "stale", "err"}
  BY <1>2, <1>4
<1>7. \A id : \A o \in InvalidateAndClear(disk, id) :
        \/ o.disk.license \in {disk.license, NoRecord}
        \/ o.disk.license.verdict = "refused"
  BY <1>1, FaultyInvalidate
<1> QED
  BY <1>3, <1>5, <1>6, <1>7

LEMMA CommitDenialCalm ==
    ASSUME TypeOK, LoopsAreLicensed, NEW p \in Procs, CommitDenial(p)
    PROVE  Calm(p)
<1> DEFINE i == InstOf[p]
           id == call[p].target
<1>1. PICK o \in UpdateValidation(disk, id, "denied") :
        \/ o.res = "stale" /\ Finish(p) /\ Untouched /\ UNCHANGED disk
        \/ /\ o.res # "stale"
           /\ \E c \in IF o.res = "err" THEN ClearOfflineAssets(o.disk) ELSE {o} :
                disk' = c.disk
           /\ StopTasks(i)
           /\ Decide(i, id, "denied", "failclosed")
           /\ Return(p)
  BY DEF CommitDenial
<1>2. /\ o.disk \in CacheContent
      /\ \/ o.res = "stale" /\ o.disk = disk
         \/ o.disk.license = disk.license \/ o.disk.license.verdict = "denied"
  BY CalmWrites DEF Verdicts
<1>3. CASE o.res = "stale"
  BY <1>1, <1>3, PlainMoves, Rests DEF Calm, Moves, Untouched, SameDecision
<1>4. CASE o.res # "stale"
  <2>1. disk'.license = o.disk.license
    BY <1>1, <1>2, <1>4, FaultyClear
  <2>2. StopTasks(i) /\ Decide(i, id, "denied", "failclosed") /\ Return(p)
    BY <1>1, <1>4
  <2>3. Plain(p) /\ Retires(p)
    BY <2>2, PlainMoves, Rests DEF OnlineDenials
  <2> QED
    BY <1>2, <1>4, <2>1, <2>3 DEF Calm, Moves, OnlineDenials
<1> QED
  BY <1>3, <1>4

LEMMA ValidateCalm ==
    ASSUME TypeOK, LoopsAreLicensed, NEW p \in Procs, ValidateStep(p)
    PROVE  Calm(p)
<1> DEFINE i == InstOf[p]
           id == call[p].target
<1>1. CASE BeginRestore(p) \/ BeginForeignRestore(p)
  <2>1. Plain(p)
    <3>1. CASE BeginRestore(p)
      BY <3>1, PlainMoves DEF BeginRestore
    <3>2. CASE BeginForeignRestore(p)
      <4>1. call'[p].pc = "sent"
        BY <3>2 DEF BeginForeignRestore, Idle, TypeOK
      <4> QED
        BY <4>1 DEF Plain
    <3> QED
      BY <1>1, <3>1, <3>2
  <2>2. SameDecision /\ UNCHANGED <<disk, tasks>>
    BY <1>1 DEF BeginRestore, BeginForeignRestore, TakeNumber, Untouched, SameDecision
  <2> QED
    BY <2>1, <2>2, Rests DEF Calm, Moves
<1>2. CASE ForeignAnswer(p)
  BY <1>2, PlainMoves, Rests DEF ForeignAnswer, At, Untouched, Calm, Moves
<1>3. CASE ValidateOk(p)
  <2>1. PICK o \in UpdateValidation(disk, id, "granted") :
          \/ o.res # "ok" /\ disk' = o.disk /\ Finish(p) /\ Untouched
          \/ /\ o.res = "ok"
             /\ disk' \in AfterAnchor(o.disk)
             /\ Decide(i, id, "granted", "online")
             /\ Validated(p) /\ UNCHANGED tasks
    BY <1>3 DEF ValidateOk
  <2>2. /\ o.disk \in CacheContent
        /\ o.disk.license = disk.license \/ o.disk.license.verdict = "granted"
        /\ o.res = "ok" => id \in Ids /\ o.disk.license.verdict = "granted"
    BY CalmWrites DEF Verdicts
  <2>3. CASE o.res # "ok"
    BY <2>1, <2>2, <2>3, PlainMoves, Rests DEF Untouched, Calm, Moves
  <2>4. CASE o.res = "ok"
    <3>1. disk'.license = o.disk.license
      BY <2>1, <2>2, <2>4, AnchorType
    <3> QED
      BY <2>1, <2>2, <2>4, <3>1, PlainMoves, Rests DEF Calm, Moves
  <2> QED
    BY <2>3, <2>4
<1>4. CASE ValidateRefused(p)
  <2>1. PICK v \in OnlineDenials : \E o \in UpdateValidation(disk, id, v) :
          \/ o.res = "stale" /\ Finish(p) /\ Untouched /\ UNCHANGED disk
          \/ /\ o.res # "stale"
             /\ \E c \in IF o.res = "ok" /\ v = "denied" THEN {o} ELSE ClearOfflineAssets(o.disk) :
                  disk' = c.disk
             /\ StopTasks(i)
             /\ Decide(i, id, v, IF o.res = "ok" THEN "online" ELSE "failclosed")
             /\ Return(p)
    BY <1>4 DEF ValidateRefused
  <2>2. PICK o \in UpdateValidation(disk, id, v) :
          \/ o.res = "stale" /\ Finish(p) /\ Untouched /\ UNCHANGED disk
          \/ /\ o.res # "stale"
             /\ \E c \in IF o.res = "ok" /\ v = "denied" THEN {o} ELSE ClearOfflineAssets(o.disk) :
                  disk' = c.disk
             /\ StopTasks(i)
             /\ Decide(i, id, v, IF o.res = "ok" THEN "online" ELSE "failclosed")
             /\ Return(p)
    BY <2>1
  <2>3. /\ o.disk \in CacheContent
        /\ \/ o.res = "stale"
           \/ o.disk.license = disk.license \/ o.disk.license.verdict = v
    <3>1. v \in Verdicts
      BY DEF OnlineDenials, Verdicts
    <3> QED
      BY <3>1, CalmWrites
  <2>4. CASE o.res = "stale"
    BY <2>2, <2>4, PlainMoves, Rests DEF Untouched, Calm, Moves
  <2>5. CASE o.res # "stale"
    <3>1. disk'.license = o.disk.license
      <4>1. \A c \in ClearOfflineAssets(o.disk) : c.disk.license = o.disk.license
        BY <2>3, FaultyClear
      <4> QED
        BY <2>2, <2>5, <4>1
    <3>2. Plain(p) /\ Retires(p)
      BY <2>2, <2>5, PlainMoves, Rests
    <3> QED
      BY <2>3, <2>5, <3>1, <3>2 DEF Calm, Moves
  <2> QED
    BY <2>4, <2>5
<1>5. CASE ValidateRevoked(p)
  <2>1. PICK o \in UpdateValidation(disk, id, "refused") :
          \/ o.res = "stale" /\ Finish(p) /\ Untouched /\ UNCHANGED disk
          \/ /\ o.res # "stale"
             /\ \E a \in ClearOfflineAssets(o.disk) :
                \E c \in IF o.res = "err" THEN {a} ELSE InvalidateAndClear(a.disk, id) :
                  /\ disk' = c.disk
                  /\ IF o.res = "err" \/ c.res = "err"
                     THEN Decide(i, id, "refused", "failclosed")
                     ELSE ForgetDecision(i)
             /\ StopTasks(i) /\ Return(p)
    BY <1>5 DEF ValidateRevoked
  <2>2. /\ o.disk \in CacheContent
        /\ \/ o.res = "stale"
           \/ o.disk.license = disk.license \/ o.disk.license.verdict = "refused"
    BY CalmWrites DEF Verdicts
  <2>3. CASE o.res = "stale"
    BY <2>1, <2>3, PlainMoves, Rests DEF Untouched, Calm, Moves
  <2>4. CASE o.res # "stale"
    <3>1. PICK a \in ClearOfflineAssets(o.disk) :
            \E c \in IF o.res = "err" THEN {a} ELSE InvalidateAndClear(a.disk, id) :
                  /\ disk' = c.disk
                  /\ Decide(i, id, "refused", "failclosed") \/ ForgetDecision(i)
      BY <2>1, <2>4
    <3>2. a.disk \in CacheContent /\ a.disk.license = o.disk.license
      BY <2>2, FaultyClear, ClearAssetsType DEF Outcomes
    <3>3. \A c \in InvalidateAndClear(a.disk, id) :
            \/ c.disk.license \in {a.disk.license, NoRecord}
            \/ c.disk.license.verdict = "refused"
      BY <3>2, FaultyInvalidate
    <3>4. Moves(disk.license, disk'.license)
      BY <2>2, <2>4, <3>1, <3>2, <3>3 DEF Moves, OnlineDenials
    <3>5. Plain(p) /\ Retires(p)
      BY <2>1, <2>4, <3>1, PlainMoves, Rests DEF OnlineDenials
    <3> QED
      BY <3>4, <3>5 DEF Calm
  <2> QED
    BY <2>3, <2>4
<1>6. CASE ValidateInvalidated(p)
  <2>1. /\ StopTasks(i) /\ ForgetDecision(i) /\ Return(p)
        /\ \E o \in InvalidateAndClear(disk, id) : disk' = o.disk
    BY <1>6 DEF ValidateInvalidated
  <2>2. Moves(disk.license, disk'.license)
    BY <2>1, CalmWrites DEF Moves, OnlineDenials
  <2> QED
    BY <2>1, <2>2, PlainMoves, Rests DEF Calm
<1> QED
  BY <1>1, <1>2, <1>3, <1>4, <1>5, <1>6 DEF ValidateStep

LEMMA OfflineCalm ==
    ASSUME TypeOK, LoopsAreLicensed, FallbackSawCache, NEW p \in Procs,
           OfflineStep(p), ~Inspect(p)
    PROVE  Calm(p)
<1> DEFINE i == InstOf[p]
           id == call[p].target
<1>1. i \in Instances /\ disk \in CacheContent /\ call[p].found \in Verdicts
  BY InstType DEF TypeOK, Call
<1>2. CASE ValidateUnavailable(p) \/ RestoreUnavailable(p) \/ RestoreFallback(p)
  <2>1. Plain(p)
    BY <1>2, PlainMoves DEF ValidateUnavailable, RestoreUnavailable, RestoreFallback, PCs
  <2>2. SameDecision /\ UNCHANGED <<disk, tasks>>
    BY <1>2 DEF ValidateUnavailable, RestoreUnavailable, RestoreFallback, Untouched
  <2> QED
    BY <2>1, <2>2, Rests DEF Calm, Moves
<1>3. CASE Fallback(p) \/ SpawnSupport(p)
  <2>1. Plain(p)
    BY <1>3, PlainMoves DEF Fallback, SpawnSupport
  <2>2. SameDecision /\ UNCHANGED disk /\ tasks'[i] \subseteq tasks[i] \cup {"support"}
    BY <1>1, <1>3 DEF Fallback, SpawnSupport, TypeOK
  <2> QED
    BY <2>1, <2>2, Rests DEF Calm, Moves
<1>4. CASE InstallFoundDenial(p)
  <2>1. Plain(p) /\ UNCHANGED <<disk, tasks>>
    BY <1>4, PlainMoves DEF InstallFoundDenial
  <2>2. CASE SameDecision
    BY <2>1, <2>2, Rests DEF Calm, Moves
  <2>3. CASE StillExpected(p) /\ Decide(i, id, call[p].found, "failclosed")
    <3>1. /\ id \in Ids
          /\ call[p].found \in OnlineDenials /\ disk.license.verdict = call[p].found
      BY <1>1, <1>4, <2>3, MatchingRecord
         DEF StillExpected, InstallFoundDenial, FallbackSawCache
    <3>2. CASE call[p].found # "denied"
      BY <2>1, <2>3, <3>1, <3>2, Rests DEF Calm, Moves
    <3>3. CASE call[p].found = "denied"
      <4>1. "timers" \notin tasks'[i]
        BY <1>1, <2>1, <3>1, <3>3 DEF LoopsAreLicensed, Licensed
      <4>2. ~Active(i)'
        BY <1>1, <2>3, <3>3 DEF Decide, TypeOK, Active
      <4> QED
        BY <2>1, <4>1, <4>2 DEF Calm, Moves, Retires, Undenied
    <3> QED
      BY <3>2, <3>3
  <2> QED
    BY <1>4, <2>2, <2>3 DEF InstallFoundDenial
<1>5. CASE FinalizeOffline(p)
  <2>1. Plain(p) /\ UNCHANGED tasks
    BY <1>5, PlainMoves DEF FinalizeOffline
  <2>2. CASE SameDecision /\ UNCHANGED disk
    BY <2>1, <2>2, Rests DEF Calm, Moves
  <2>3. CASE \E v \in {call[p].found, "offrefused"} : \E o \in UpdateValidation(disk, id, v) :
               /\ disk' = o.disk
               /\ IF o.res = "ok"
                  THEN \E src : Decide(i, id, v, src)
                  ELSE SameDecision
    <3>1. PICK v \in {call[p].found, "offrefused"} : \E o \in UpdateValidation(disk, id, v) :
            /\ disk' = o.disk
            /\ IF o.res = "ok" THEN \E src : Decide(i, id, v, src) ELSE SameDecision
      BY <2>3
    <3>2. /\ v \in {"offgranted", "offrefused"} /\ v \in Verdicts
          /\ Matches(disk, id) => disk.license.verdict \notin OnlineDenials
      BY <1>1, <1>5 DEF FinalizeOffline, FallbackSawCache, Verdicts
    <3>3. PICK o \in UpdateValidation(disk, id, v) :
            /\ disk' = o.disk
            /\ IF o.res = "ok" THEN \E src : Decide(i, id, v, src) ELSE SameDecision
      BY <3>1
    <3>4. \/ o.res = "stale" /\ o.disk = disk
          \/ /\ Matches(disk, id) /\ id \in Ids
             /\ \/ o.disk.license = disk.license
                \/ o.disk.license.id = id /\ o.disk.license.verdict = v
             /\ o.res = "ok" => o.disk.license.verdict = v
      BY <3>2, CalmWrites
    <3>5. Moves(disk.license, disk'.license)
      BY <3>2, <3>3, <3>4 DEF Moves, Matches
    <3>6. Carries(p)
      BY <2>1, <3>2, <3>3, <3>4, Rests
    <3> QED
      BY <2>1, <3>5, <3>6 DEF Calm
  <2> QED
    BY <1>5, <2>2, <2>3 DEF FinalizeOffline
<1> QED
  BY <1>2, <1>3, <1>4, <1>5 DEF OfflineStep

LEMMA HeartbeatCalm ==
    ASSUME TypeOK, LoopsAreLicensed, NEW p \in Procs, HeartbeatStep(p), ~HeartbeatDropOps(p)
    PROVE  Calm(p)
<1> DEFINE i == InstOf[p]
           id == call[p].target
<1>1. i \in Instances
  BY InstType
<1>2. CASE HeartbeatOk(p)
  <2>1. PICK o \in UpdateValidation(disk, id, "granted") :
          IF o.res = "ok"
          THEN disk' \in AfterAnchor(o.disk) /\ Decide(i, id, "granted", "online")
          ELSE disk' = o.disk /\ SameDecision
    BY <1>2 DEF HeartbeatOk
  <2>2. /\ o.disk \in CacheContent
        /\ o.disk.license = disk.license \/ o.disk.license.verdict = "granted"
        /\ o.res = "ok" => id \in Ids /\ o.disk.license.verdict = "granted"
    BY CalmWrites DEF Verdicts
  <2>3. disk'.license = o.disk.license
    BY <2>1, <2>2, AnchorType
  <2>4. Plain(p) /\ UNCHANGED tasks
    BY <1>2, PlainMoves DEF HeartbeatOk
  <2>5. Carries(p)
    BY <2>1, <2>2, <2>3, <2>4, Rests
  <2> QED
    BY <2>2, <2>3, <2>4, <2>5 DEF Calm, Moves
<1>3. CASE HeartbeatInactive(p)
  <2>1. /\ StopTasks(i) /\ ForgetDecision(i) /\ Finish(p)
        /\ \E o \in InvalidateAndClear(disk, id) : disk' = o.disk
    BY <1>3 DEF HeartbeatInactive
  <2>2. Moves(disk.license, disk'.license)
    BY <2>1, CalmWrites DEF Moves, OnlineDenials
  <2> QED
    BY <2>1, <2>2, PlainMoves, Rests DEF Calm
<1>4. CASE HeartbeatDropRuntime(p)
  <2>1. Plain(p)
    BY <1>4, PlainMoves DEF HeartbeatDropRuntime, PCs
  <2>2. "timers" \notin tasks'[i] /\ UNCHANGED disk
    BY <1>4 DEF HeartbeatDropRuntime, At, LoopsAreLicensed
  <2>3. ~Active(i)'
    BY <1>1, <1>4 DEF HeartbeatDropRuntime, ForgetDecision, TypeOK, Active, NoGrant
  <2> QED
    BY <2>1, <2>2, <2>3 DEF Calm, Moves, Retires, Undenied
<1>5. CASE HeartbeatDropCache(p)
  <2>1. /\ Finish(p) /\ SameDecision /\ UNCHANGED tasks
        /\ \E o \in InvalidateAndClear(disk, id) : disk' = o.disk
    BY <1>5 DEF HeartbeatDropCache, Untouched
  <2>2. /\ Moves(disk.license, disk'.license)
        /\ disk'.license = disk.license \/ disk'.license.verdict # "denied"
    BY <2>1, CalmWrites DEF Moves, OnlineDenials, NoRecord
  <2> QED
    BY <2>1, <2>2, PlainMoves, Rests DEF Calm
<1>6. CASE HeartbeatInvalidated(p) \/ HeartbeatUnavailable(p)
  <2>1. Plain(p) /\ SameDecision /\ UNCHANGED <<disk, tasks>>
    BY <1>6, PlainMoves DEF HeartbeatInvalidated, HeartbeatUnavailable, Untouched, PCs
  <2> QED
    BY <2>1, Rests DEF Calm, Moves
<1> QED
  BY <1>2, <1>3, <1>4, <1>5, <1>6 DEF HeartbeatStep

LEMMA OtherCalm ==
    ASSUME TypeOK, LoopsAreLicensed, NEW p \in Procs,
           DeactivateStep(p) \/ SyncStep(p) \/ AnyStep(p)
    PROVE  Calm(p)
<1> DEFINE i == InstOf[p]
<1>1. i \in Instances /\ disk \in CacheContent
  BY InstType DEF TypeOK
<1>2. CASE DeactivateOk(p)
  <2>1. /\ StopTasks(i) /\ ForgetDecision(i) /\ Return(p)
        /\ \E o \in InvalidateAndClear(disk, call[p].target) : disk' = o.disk
    BY <1>2 DEF DeactivateOk
  <2>2. Moves(disk.license, disk'.license)
    BY <2>1, CalmWrites DEF Moves, OnlineDenials
  <2> QED
    BY <2>1, <2>2, PlainMoves, Rests DEF Calm
<1>3. CASE SyncOk(p)
  <2>1. \A a \in Ids : \A o \in SetMachineFile(disk, a) : o.disk.license = disk.license
    BY <1>1 DEF SetMachineFile, Ok, Failed, Outcome, CacheContent
  <2>2. disk'.license = disk.license /\ SameDecision /\ UNCHANGED tasks /\ Finish(p)
    BY <1>3, <2>1 DEF SyncOk, Untouched
  <2> QED
    BY <2>2, PlainMoves, Rests DEF Calm, Moves
<1>4. CASE Reset(p)
  <2>1. PICK o \in IF Current(i) # None THEN InvalidateAndClear(disk, Current(i)) ELSE Clear(disk) :
          disk' = o.disk
    BY <1>4 DEF Reset
  <2>2. \A c \in Clear(disk) : c.disk.license \in {disk.license, NoRecord}
    BY <1>1, FaultyClear
  <2>3. Moves(disk.license, disk'.license)
    BY <2>1, <2>2, CalmWrites DEF Moves, OnlineDenials
  <2>4. Plain(p)
    BY <1>4 DEF Reset, Plain
  <2>5. "timers" \notin tasks'[i] /\ ~Active(i)'
    BY <1>1, <1>4 DEF Reset, StopTasks, TypeOK, Active, NoGrant
  <2> QED
    BY <2>3, <2>4, <2>5 DEF Calm, Retires, Undenied
<1>5. CASE ThrownDenial(p) \/ LifecycleDenial(p)
  BY <1>5, CommitDenialCalm DEF ThrownDenial, LifecycleDenial
<1>6. CASE CancelActivation(p) \/ Rejected(p) \/ Superseded(p)
  <2>1. Plain(p) /\ SameDecision /\ UNCHANGED <<disk, tasks>>
    BY <1>6, PlainMoves DEF CancelActivation, Rejected, Superseded, Untouched, PCs
  <2> QED
    BY <2>1, Rests DEF Calm, Moves
<1>7. CASE BeginSync(p) \/ \E kind \in Kinds : BeginTargeted(p, kind)
  <2>1. Plain(p)
    BY <1>7, PlainMoves DEF BeginSync, BeginTargeted
  <2>2. SameDecision /\ UNCHANGED <<disk, tasks>>
    BY <1>7 DEF BeginSync, BeginTargeted, TakeNumber, SameDecision
  <2> QED
    BY <2>1, <2>2, Rests DEF Calm, Moves
<1> QED
  BY <1>2, <1>3, <1>4, <1>5, <1>6, <1>7 DEF DeactivateStep, SyncStep, AnyStep

(* The commit of an activation stops the loops and is about to start new   *)
(* ones, for a license that was just granted                               *)
Installs(p) == LET i == InstOf[p] IN
    /\ Moves(disk.license, disk'.license)
    /\ "timers" \notin tasks'[i] /\ Licensed(i)' /\ Undenied(i)'
    /\ call'[p].pc = "started"

LEMMA ActivateCalm ==
    ASSUME TypeOK, LoopsAreLicensed, NEW p \in Procs, BeginActivate(p) \/ ActivateOk(p)
    PROVE  Calm(p) \/ Installs(p)
<1> DEFINE i == InstOf[p]
<1>1. i \in Instances /\ disk \in CacheContent
  BY InstType DEF TypeOK
<1>2. CASE BeginActivate(p)
  <2>1. Plain(p) /\ SameDecision /\ UNCHANGED <<disk, tasks>>
    BY <1>2, PlainMoves DEF BeginActivate, TakeNumber, SameDecision
  <2> QED
    BY <2>1, Rests DEF Calm, Moves
<1>3. CASE ActivateOk(p)
  <2>1. PICK id \in Ids : \E o \in CommitActivation(disk, id) :
          /\ disk' = o.disk
          /\ \/ Finish(p) /\ Untouched
             \/ /\ o.res # "err"
                /\ StopTasks(i)
                /\ Decide(i, id, "granted", "online")
                /\ GoTo(p, "started")
    BY <1>3 DEF ActivateOk
  <2>2. PICK o \in CommitActivation(disk, id) :
          /\ disk' = o.disk
          /\ \/ Finish(p) /\ Untouched
             \/ /\ o.res # "err"
                /\ StopTasks(i)
                /\ Decide(i, id, "granted", "online")
                /\ GoTo(p, "started")
    BY <2>1
  <2>3. /\ o.disk.license = disk.license \/ o.disk.license.verdict = "granted"
        /\ o.res # "err" => o.disk.license.verdict = "granted"
    BY <1>1, FaultyCommit
  <2>4. CASE Finish(p) /\ Untouched
    BY <2>2, <2>3, <2>4, PlainMoves, Rests DEF Untouched, Calm, Moves
  <2>5. CASE /\ o.res # "err"
             /\ StopTasks(i)
             /\ Decide(i, id, "granted", "online")
             /\ GoTo(p, "started")
    <3>1. runtime'[i].id = id /\ runtime'[i].verdict = "granted"
      BY <1>1, <2>5 DEF Decide, TypeOK
    <3>2. Licensed(i)' /\ Undenied(i)'
      BY <2>2, <2>3, <2>5, <3>1, NoneNotAnId DEF Licensed, Undenied, Current, Established
    <3>3. "timers" \notin tasks'[i]
      BY <1>1, <2>5 DEF StopTasks, TypeOK
    <3>4. call'[p].pc = "started"
      BY <2>5 DEF GoTo, TypeOK, Call
    <3> QED
      BY <2>2, <2>3, <2>5, <3>2, <3>3, <3>4 DEF Installs, Moves
  <2> QED
    BY <2>2, <2>4, <2>5
<1> QED
  BY <1>2, <1>3

(* The four steps that leave the caller somewhere special change nothing   *)
(* else that matters                                                       *)
LEMMA SpecialMoves ==
    ASSUME TypeOK, NEW p \in Procs
    PROVE  LET i == InstOf[p] IN
           /\ StartTasks(p) =>
                /\ SameDecision /\ UNCHANGED <<disk, tasks>>
                /\ \/ call'[p].pc = "idle"
                   \/ /\ call'[p].pc = "spawn" /\ call[p].pc = "started"
                      /\ Current(i) # None /\ (call[p].kind = "restore" => Active(i))
           /\ SpawnTasks(p) =>
                SameDecision /\ UNCHANGED disk /\ call[p].pc = "spawn" /\ call'[p].pc = "idle"
           /\ HeartbeatDropOps(p) =>
                /\ SameDecision /\ UNCHANGED disk
                /\ "timers" \notin tasks'[i] /\ call'[p].pc = "hb_runtime"
           /\ Inspect(p) =>
                /\ SameDecision /\ UNCHANGED <<disk, tasks>>
                /\ \/ Plain(p)
                   \/ /\ call'[p].pc = "found" /\ call'[p].found = disk.license.verdict
                      /\ disk.license.verdict \in OnlineDenials
                   \/ /\ call'[p].pc = "finalize"
                      /\ call'[p].found \in {"offgranted", "offrefused"}
                      /\ call'[p].target = call[p].target
                      /\ Matches(disk, call[p].target) => disk.license.verdict \notin OnlineDenials
<1> DEFINE i == InstOf[p]
<1>1. i \in Instances /\ call[p] \in Call
  BY InstType DEF TypeOK
<1>2. Finish(p) => call'[p].pc = "idle"
  BY DEF Finish, Return, TypeOK, Idle
<1>3. /\ GoTo(p, "spawn") => call'[p].pc = "spawn"
      /\ GoTo(p, "hb_runtime") => call'[p].pc = "hb_runtime"
  BY <1>1 DEF GoTo, TypeOK, Call
<1>4. ASSUME Inspect(p)
      PROVE  \/ Plain(p)
             \/ /\ call'[p].pc = "found" /\ call'[p].found = disk.license.verdict
                /\ disk.license.verdict \in OnlineDenials
             \/ /\ call'[p].pc = "finalize"
                /\ call'[p].found \in {"offgranted", "offrefused"}
                /\ call'[p].target = call[p].target
                /\ Matches(disk, call[p].target) => disk.license.verdict \notin OnlineDenials
  <2>1. \A v : call' = [call EXCEPT ![p].pc = "found", ![p].found = v] =>
                 call'[p].pc = "found" /\ call'[p].found = v
    BY <1>1 DEF TypeOK, Call
  <2>2. \A v : call' = [call EXCEPT ![p].pc = "finalize", ![p].found = v] =>
                 /\ call'[p].pc = "finalize" /\ call'[p].found = v
                 /\ call'[p].target = call[p].target
    BY <1>1 DEF TypeOK, Call
  <2> QED
    BY <1>4, <2>1, <2>2, PlainMoves DEF Inspect
<1> QED
  BY <1>1, <1>2, <1>3, <1>4
     DEF StartTasks, SpawnTasks, HeartbeatDropOps, Inspect, Untouched, StopTasks, TypeOK

LEMMA MovesBarred ==
    ASSUME TypeOK, TypeOK', barred \subseteq Ids, BarredIsDenied, Bar,
           Moves(disk.license, disk'.license)
    PROVE  barred' \subseteq Ids /\ BarredIsDenied'
<1>1. /\ disk.license \in LicenseRecord \cup {NoRecord}
      /\ disk'.license \in LicenseRecord \cup {NoRecord}
  BY DEF TypeOK, CacheContent
<1>2. CASE disk'.license = disk.license
  BY <1>2 DEF Bar, BarredIsDenied
<1>3. CASE disk'.license # disk.license
  <2>1. barred' = {id \in Ids :
          /\ disk'.license # [id |-> id, verdict |-> "granted"]
          /\ \/ id \in barred
             \/ id = disk.license.id /\ id # disk'.license.id
             \/ id = disk'.license.id /\ disk'.license.verdict \in OnlineDenials}
    BY <1>3 DEF Bar
  <2>2. ASSUME disk'.license.id \in barred' PROVE disk'.license.verdict \in OnlineDenials
    <3>1. /\ disk'.license.id \in Ids
          /\ disk'.license # [id |-> disk'.license.id, verdict |-> "granted"]
          /\ \/ disk'.license.id \in barred
             \/ disk'.license.verdict \in OnlineDenials
      BY <2>1, <2>2
    <3>2. disk'.license # NoRecord /\ disk'.license.verdict # "granted"
      BY <1>1, <3>1, NoneNotAnId DEF LicenseRecord, NoRecord
    <3> QED
      BY <1>3, <3>1, <3>2 DEF Moves, BarredIsDenied
  <2> QED
    BY <2>1, <2>2 DEF BarredIsDenied
<1> QED
  BY <1>2, <1>3

(* A start writes back the record it has read, without its positive        *)
(* decisions                                                               *)
LEMMA StartMoves ==
    ASSUME TypeOK, NEW i \in Instances, StartWrite(i), boot[i] = disk.license
    PROVE  Moves(disk.license, disk'.license)
<1>1. CASE boot[i].id = None
  BY <1>1 DEF StartWrite, Ok, Outcome, Moves
<1>2. CASE boot[i].id # None
  <2>1. \E o \in StoreLicense(disk, StartupRecord(disk.license)) : disk' = o.disk
    BY <1>2 DEF StartWrite
  <2>2. disk \in CacheContent
    BY DEF TypeOK
  <2>3. disk'.license \in {disk.license, StartupRecord(disk.license)}
    BY <2>1, <2>2, FaultyStore
  <2>4. Moves(disk.license, StartupRecord(disk.license))
    BY <2>2 DEF StartupRecord, Moves, OnlineDenials, CacheContent, LicenseRecord, NoRecord
  <2> QED
    BY <2>3, <2>4 DEF Moves
<1> QED
  BY <1>1, <1>2

LEMMA CallerCalm ==
    ASSUME TypeOK, LoopsAreLicensed, FallbackSawCache, NEW p \in Procs, CallerStep(p)
    PROVE  /\ \/ Calm(p) \/ Installs(p)
              \/ StartTasks(p) \/ SpawnTasks(p) \/ HeartbeatDropOps(p) \/ Inspect(p)
           /\ Moves(disk.license, disk'.license)
<1>1. \/ Calm(p) \/ Installs(p)
      \/ StartTasks(p) \/ SpawnTasks(p) \/ HeartbeatDropOps(p) \/ Inspect(p)
  BY ActivateCalm, ValidateCalm, OfflineCalm, HeartbeatCalm, OtherCalm
     DEF CallerStep, ActivateStep
<1>2. Moves(disk.license, disk'.license)
  BY <1>1, SpecialMoves DEF Calm, Installs, Moves
<1> QED
  BY <1>1, <1>2

LEMMA CallerDenial ==
    ASSUME OneCaller, TypeOK, TypeOK', barred \subseteq Ids, DenialInv, Bar,
           NEW p \in Procs, CallerStep(p)
    PROVE  barred' \subseteq Ids /\ DenialInv'
<1> DEFINE i == InstOf[p]
<1>1. /\ i \in Instances /\ \A j \in Instances : j = i
      /\ \A q \in Procs : q = p
  BY InstType DEF OneCaller, Alone
<1>2. BarredIsDenied /\ FallbackSawCache /\ LoopsAreLicensed /\ DownIsStill
  BY DEF DenialInv
<1>3. mode[i] = "up" /\ UNCHANGED <<mode, boot>>
  BY <1>2, CallerRuns DEF DownIsStill
<1>4. DownIsStill'
  BY <1>1, <1>3 DEF DownIsStill
<1>5. \/ Calm(p) \/ Installs(p)
      \/ StartTasks(p) \/ SpawnTasks(p) \/ HeartbeatDropOps(p) \/ Inspect(p)
  BY <1>2, CallerCalm
<1>6. barred' \subseteq Ids /\ BarredIsDenied'
  BY <1>2, CallerCalm, MovesBarred
<1>7. FallbackSawCache'
  <2>1. CASE call'[p].pc \notin {"found", "finalize"}
    BY <1>1, <2>1 DEF FallbackSawCache
  <2>2. CASE Inspect(p)
    BY <1>1, <2>2, SpecialMoves DEF FallbackSawCache, Plain, Matches
  <2> QED
    BY <1>5, <2>1, <2>2, SpecialMoves DEF Calm, Plain, Installs
<1>8. LoopsAreLicensed'
  <2>1. SameDecision /\ UNCHANGED disk =>
          /\ Licensed(i)' <=> Licensed(i)
          /\ Undenied(i)' <=> Undenied(i)
    BY DEF SameDecision, Licensed, Undenied, Current, Established, Active
  <2>2. Undenied(i) /\ ("timers" \in tasks[i] => Licensed(i))
    BY <1>1, <1>2 DEF LoopsAreLicensed, Undenied
  <2>3. SUFFICES /\ "timers" \in tasks'[i] => Licensed(i)'
                 /\ call'[p].pc = "spawn" => Licensed(i)'
                 /\ call'[p].pc = "started" /\ call'[p].kind # "restore" => Licensed(i)'
                 /\ call'[p].pc = "hb_runtime" => "timers" \notin tasks'[i]
                 /\ Undenied(i)'
    BY <1>1 DEF LoopsAreLicensed, Undenied
  <2>4. CASE Calm(p)
    BY <2>2, <2>4 DEF Calm, Plain, Retires, Carries
  <2>5. CASE Installs(p)
    BY <2>5 DEF Installs
  <2>6. CASE StartTasks(p)
    <3>1. /\ SameDecision /\ UNCHANGED <<disk, tasks>>
          /\ \/ call'[p].pc = "idle"
             \/ /\ call'[p].pc = "spawn" /\ call[p].pc = "started"
                /\ Current(i) # None /\ (call[p].kind = "restore" => Active(i))
      BY <2>6, SpecialMoves
    <3>2. call'[p].pc = "spawn" => Licensed(i)
      BY <1>1, <1>2, <2>2, <3>1 DEF LoopsAreLicensed, Licensed, Undenied, Active
    <3> QED
      BY <2>1, <2>2, <3>1, <3>2
  <2>7. CASE SpawnTasks(p)
    BY <1>1, <1>2, <2>1, <2>2, <2>7, SpecialMoves DEF LoopsAreLicensed
  <2>8. CASE HeartbeatDropOps(p)
    BY <2>1, <2>2, <2>8, SpecialMoves
  <2>9. CASE Inspect(p)
    BY <2>1, <2>2, <2>9, SpecialMoves DEF Plain
  <2> QED
    BY <1>5, <2>4, <2>5, <2>6, <2>7, <2>8, <2>9
<1> QED
  BY <1>4, <1>6, <1>7, <1>8 DEF DenialInv

LEMMA InstanceDenial ==
    ASSUME OneCaller, TypeOK, TypeOK', barred \subseteq Ids, DenialInv, Bar,
           NEW i \in Instances, InstanceStep(i)
    PROVE  barred' \subseteq Ids /\ DenialInv'
<1>1. /\ \A j \in Instances : j = i
      /\ \A q \in Procs : InstOf[q] = i
  BY InstType DEF OneCaller, Alone
<1>2. BarredIsDenied /\ FallbackSawCache /\ LoopsAreLicensed /\ DownIsStill
  BY DEF DenialInv
<1>3. mode[i] # "up" =>
        /\ \A q \in Procs : call[q].pc = "idle"
        /\ "timers" \notin tasks[i] /\ runtime[i] = NoGrant
  BY <1>1, <1>2 DEF DownIsStill
<1>4. CASE StartRead(i)
  <2>1. UNCHANGED <<disk, runtime, recovery, tasks, call>>
    BY <1>4 DEF StartRead
  <2>2. barred' \subseteq Ids /\ BarredIsDenied'
    BY <1>2, <2>1, MovesBarred DEF Moves
  <2>3. DownIsStill'
    BY <1>1, <1>3, <1>4, <2>1 DEF StartRead, TypeOK, DownIsStill
  <2> QED
    BY <1>2, <2>1, <2>2, <2>3
       DEF DenialInv, FallbackSawCache, LoopsAreLicensed, Licensed, Current, Established, Active
<1>5. CASE StartWrite(i)
  <2>1. /\ mode[i] = "starting" /\ boot[i] = disk.license
        /\ mode'[i] \in {"up", "down"}
        /\ UNCHANGED <<runtime, tasks, call>>
    BY <1>1, <1>2, <1>5 DEF StartWrite, DownIsStill, TypeOK
  <2>2. Moves(disk.license, disk'.license)
    BY <1>5, <2>1, StartMoves
  <2>3. barred' \subseteq Ids /\ BarredIsDenied'
    BY <1>2, <2>2, MovesBarred
  <2>4. /\ \A q \in Procs : call'[q].pc = "idle"
        /\ "timers" \notin tasks'[i] /\ runtime'[i] = NoGrant
    BY <1>3, <2>1
  <2>5. DownIsStill'
    BY <1>1, <2>1, <2>4 DEF DownIsStill
  <2>6. ~Active(i)'
    BY <2>4 DEF Active, NoGrant
  <2> QED
    BY <1>1, <2>3, <2>4, <2>5, <2>6 DEF DenialInv, FallbackSawCache, LoopsAreLicensed
<1>6. CASE Crash(i)
  <2>1. /\ mode'[i] = "down" /\ runtime'[i] = NoGrant /\ "timers" \notin tasks'[i]
        /\ \A q \in Procs : call'[q] = Idle
        /\ UNCHANGED disk
    BY <1>1, <1>6 DEF Crash, ForgetDecision, StopTasks, TypeOK
  <2>2. barred' \subseteq Ids /\ BarredIsDenied'
    BY <1>2, <2>1, MovesBarred DEF Moves
  <2>3. ~Active(i)'
    BY <2>1 DEF Active, NoGrant
  <2> QED
    BY <1>1, <2>1, <2>2, <2>3
       DEF DenialInv, FallbackSawCache, LoopsAreLicensed, DownIsStill, Idle
<1>7. CASE Expire(i)
  <2>1. /\ UNCHANGED <<disk, mode, boot, recovery, tasks, call>>
        /\ Active(i) /\ runtime[i] # NoGrant
    BY <1>7 DEF Expire, Active, NoGrant
  <2>2. runtime[i] \in Grant
    BY <2>1 DEF TypeOK
  <2>3. /\ runtime'[i].id = runtime[i].id
        /\ runtime'[i].verdict \in {"refused", "offrefused"}
    BY <1>7, <2>2 DEF Expire, TypeOK, Grant
  <2>4. barred' \subseteq Ids /\ BarredIsDenied'
    BY <1>2, <2>1, MovesBarred DEF Moves
  <2>5. mode[i] = "up"
    BY <1>3, <2>1
  <2>6. DownIsStill'
    BY <1>1, <2>1, <2>5 DEF DownIsStill
  <2>7. ~Active(i)' /\ (Licensed(i) => Licensed(i)')
    BY <2>1, <2>3 DEF Active, Licensed, Current, Established
  <2>8. LoopsAreLicensed'
    BY <1>1, <1>2, <2>1, <2>7 DEF LoopsAreLicensed
  <2> QED
    BY <1>2, <2>1, <2>4, <2>6, <2>8 DEF DenialInv, FallbackSawCache
<1> QED
  BY <1>4, <1>5, <1>6, <1>7 DEF InstanceStep

LEMMA DNextInv == OneCaller /\ DInv /\ [DNext]_dvars => DInv'
<1> SUFFICES ASSUME OneCaller, DInv, [DNext]_dvars PROVE DInv'
  OBVIOUS
<1>1. TypeOK /\ barred \subseteq Ids /\ DenialInv
  BY DEF DInv
<1>2. TypeOK'
  BY <1>1, NextType DEF DNext, dvars
<1>3. CASE DNext
  BY <1>1, <1>2, <1>3, CallerDenial, InstanceDenial DEF DNext, Next, DInv
<1>4. CASE UNCHANGED dvars
  BY <1>1, <1>2, <1>4
     DEF dvars, vars, DInv, DenialInv, BarredIsDenied, FallbackSawCache, LoopsAreLicensed,
         DownIsStill, Licensed, Current, Established, Active
<1> QED
  BY <1>3, <1>4

LEMMA DInitInv == DInit => DInv
<1> SUFFICES ASSUME DInit PROVE DInv
  OBVIOUS
<1>1. TypeOK /\ barred \subseteq Ids
  BY InitType DEF DInit
<1>2. DenialInv
  BY InstType DEF DInit, Init, DenialInv, BarredIsDenied, FallbackSawCache, LoopsAreLicensed,
         DownIsStill, Active, NoGrant, Idle
<1> QED
  BY <1>1, <1>2 DEF DInv

LEMMA DenialAlways == OneCaller => (DSpec => []DInv)
<1> SUFFICES ASSUME OneCaller PROVE DSpec => []DInv
  OBVIOUS
<1>1. DInv /\ [DNext]_dvars => DInv'
  BY DNextInv
<1> QED
  BY <1>1, DInitInv, PTL DEF DSpec

(* With one caller, the loops that validate and heartbeat run only while   *)
(* the instance has a license that is not denied, whatever file operations *)
(* fail and however often the process is relaunched.                       *)
THEOREM LoopsHaveALicense == OneCaller => (DSpec => []NoTimersWithoutLicense)
<1> SUFFICES ASSUME OneCaller PROVE DSpec => []NoTimersWithoutLicense
  OBVIOUS
<1>1. DInv => NoTimersWithoutLicense
  BY DEF DInv, DenialInv, LoopsAreLicensed, Licensed, NoTimersWithoutLicense
<1> QED
  BY <1>1, DenialAlways, PTL

(* Only the commit of the offline fallback installs an offline grant.      *)
LEMMA OnlyArtifactsGrantOffline ==
    ASSUME TypeOK, FallbackSawCache, NEW p \in Procs, CallerStep(p),
           NEW i \in Instances, runtime'[i] # runtime[i], runtime'[i].verdict = "offgranted"
    PROVE  /\ call[p].pc = "finalize" /\ Matches(disk, call[p].target)
           /\ runtime'[i].id = call[p].target
<1>1. ~SameDecision
  BY DEF SameDecision
<1>2. \A j : ~ForgetDecision(j)
  BY DEF ForgetDecision, TypeOK, NoGrant
<1>3. \A j, id, v, src : Decide(j, id, v, src) => runtime'[i].id = id /\ v = "offgranted"
  BY DEF Decide, TypeOK
<1>4. ~CommitDenial(p)
  BY <1>1, <1>3 DEF CommitDenial, Untouched
<1>5. ~ActivateStep(p)
  BY <1>1, <1>3 DEF ActivateStep, BeginActivate, TakeNumber, ActivateOk, StartTasks, SpawnTasks,
                    Untouched, SameDecision
<1>6. ~ValidateStep(p)
  <2>1. ~ValidateRefused(p)
    BY <1>1, <1>3 DEF ValidateRefused, Untouched, OnlineDenials
  <2>2. ~ValidateRevoked(p)
    BY <1>1, <1>2, <1>3 DEF ValidateRevoked, Untouched
  <2> QED
    BY <1>1, <1>2, <1>3, <2>1, <2>2
       DEF ValidateStep, BeginRestore, BeginForeignRestore, TakeNumber, ValidateOk, ForeignAnswer,
           ValidateInvalidated, Untouched, SameDecision
<1>7. CASE OfflineStep(p)
  <2>1. ~InstallFoundDenial(p)
    BY <1>1, <1>3 DEF InstallFoundDenial, FallbackSawCache, OnlineDenials
  <2>2. CASE FinalizeOffline(p)
    BY <1>1, <1>3, <2>2 DEF FinalizeOffline, StillExpected
  <2> QED
    BY <1>1, <1>7, <2>1, <2>2
       DEF OfflineStep, ValidateUnavailable, RestoreUnavailable, Fallback, RestoreFallback,
           Inspect, SpawnSupport, Untouched, SameDecision
<1>8. ~HeartbeatStep(p)
  BY <1>1, <1>2, <1>3
     DEF HeartbeatStep, HeartbeatOk, HeartbeatInactive, HeartbeatInvalidated, HeartbeatDropOps,
         HeartbeatDropRuntime, HeartbeatDropCache, HeartbeatUnavailable, Untouched
<1>9. ~DeactivateStep(p) /\ ~SyncStep(p)
  BY <1>1, <1>2
     DEF DeactivateStep, CancelActivation, DeactivateOk, SyncStep, BeginSync, SyncOk, Untouched,
         SameDecision
<1>10. ~AnyStep(p)
  <2>1. ~Reset(p)
    BY DEF Reset, TypeOK, NoGrant
  <2> QED
    BY <1>1, <1>4, <2>1
       DEF AnyStep, BeginTargeted, TakeNumber, Rejected, Superseded, ThrownDenial,
           LifecycleDenial, Untouched, SameDecision
<1> QED
  BY <1>5, <1>6, <1>7, <1>8, <1>9, <1>10 DEF CallerStep

(* With one caller, no signed artifact grants access for an activation     *)
(* whose denial or removal the cache recorded after the last online grant, *)
(* whatever file operations fail and however often the process is          *)
(* relaunched.                                                             *)
THEOREM DenialsOutrankArtifacts == OneCaller => (DSpec => DenialOutranksArtifact)
<1> SUFFICES ASSUME OneCaller PROVE DSpec => DenialOutranksArtifact
  OBVIOUS
<1>1. ASSUME DInv, DNext, NEW i \in Instances,
             runtime'[i] # runtime[i], runtime'[i].verdict = "offgranted"
      PROVE  runtime'[i].id \notin barred
  <2>1. TypeOK /\ FallbackSawCache /\ BarredIsDenied
    BY <1>1 DEF DInv, DenialInv
  <2>2. ASSUME NEW p \in Procs, CallerStep(p)
        PROVE  runtime'[i].id \notin barred
    <3>1. /\ call[p].pc = "finalize" /\ Matches(disk, call[p].target)
          /\ runtime'[i].id = call[p].target
      BY <1>1, <2>1, <2>2, OnlyArtifactsGrantOffline
    <3> QED
      BY <2>1, <3>1 DEF FallbackSawCache, BarredIsDenied, Matches
  <2>3. ASSUME NEW j \in Instances, InstanceStep(j) PROVE FALSE
    <3>1. CASE Expire(j)
      <4>1. runtime[j] \in Grant
        BY <2>1, <3>1 DEF Expire, Active, TypeOK, NoGrant
      <4> QED
        BY <1>1, <2>1, <3>1, <4>1 DEF Expire, TypeOK, Grant
    <3>2. CASE Crash(j)
      BY <1>1, <2>1, <3>2 DEF Crash, ForgetDecision, TypeOK, NoGrant
    <3> QED
      BY <1>1, <2>3, <3>1, <3>2 DEF InstanceStep, StartRead, StartWrite
  <2> QED
    BY <1>1, <2>2, <2>3 DEF DNext, Next
<1>2. DInv /\ [DNext]_dvars =>
        [\A i \in Instances :
           runtime'[i] # runtime[i] /\ runtime'[i].verdict = "offgranted"
           => runtime'[i].id \notin barred]_dvars
  BY <1>1
<1> QED
  BY <1>2, DenialAlways, PTL DEF DSpec, DenialOutranksArtifact

(* With one caller, no offline verdict and no relaunch takes a recorded    *)
(* authoritative denial out of the cached record of its activation.        *)
THEOREM RecordedDenialsStand ==
    OneCaller => (DSpec => OfflineNeverReplacesDenial /\ StartupKeepsDenial)
<1> SUFFICES ASSUME OneCaller
             PROVE  DSpec => OfflineNeverReplacesDenial /\ StartupKeepsDenial
  OBVIOUS
<1>1. ASSUME DInv, DNext, disk.license.verdict = "denied", disk'.license.id = disk.license.id
      PROVE  disk'.license.verdict \notin {"offgranted", "offrefused", "none"}
  <2>1. /\ TypeOK /\ LoopsAreLicensed /\ FallbackSawCache /\ DownIsStill
        /\ disk \in CacheContent
    BY <1>1 DEF DInv, DenialInv, TypeOK
  <2>2. Moves(disk.license, disk'.license)
    <3>1. CASE \E p \in Procs : CallerStep(p)
      BY <2>1, <3>1, CallerCalm
    <3>2. ASSUME NEW i \in Instances, InstanceStep(i) PROVE Moves(disk.license, disk'.license)
      <4>1. CASE StartWrite(i)
        <5>1. boot[i] = disk.license
          BY <2>1, <4>1 DEF StartWrite, DownIsStill
        <5> QED
          BY <2>1, <4>1, <5>1, StartMoves
      <4> QED
        BY <3>2, <4>1 DEF InstanceStep, StartRead, Crash, Expire, Moves
    <3> QED
      BY <1>1, <3>1, <3>2 DEF DNext, Next
  <2>3. disk.license.id # None
    BY <1>1, <2>1, NoneNotAnId DEF CacheContent, LicenseRecord, NoRecord
  <2> QED
    BY <1>1, <2>2, <2>3 DEF Moves, OnlineDenials, NoRecord
<1>2. DInv /\ [DNext]_dvars =>
        /\ [disk.license.verdict = "denied" /\ disk'.license.id = disk.license.id
              => disk'.license.verdict \notin {"offgranted", "offrefused"}]_dvars
        /\ [disk.license.verdict = "denied" /\ disk'.license.id = disk.license.id
              => disk'.license.verdict # "none"]_dvars
  BY <1>1
<1> QED
  BY <1>2, DenialAlways, PTL DEF DSpec, OfflineNeverReplacesDenial, StartupKeepsDenial
=============================================================================
