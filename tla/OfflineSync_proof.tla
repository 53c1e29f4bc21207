--------------------------- MODULE OfflineSync_proof ---------------------------
(***************************************************************************)
(* Proofs about OfflineSync, for any number of callers, activations and    *)
(* keys, and any number of changes of the environment: its types, and the  *)
(* two promises a host relies on, StartupTrust and ReadyIsTrue.            *)
(***************************************************************************)
EXTENDS OfflineSync, TLAPS

(* Before the first answer nothing is trusted but the pin, and no caller   *)
(* has an artifact in hand                                                 *)
Fresh == ~contacted =>
    trusted = {} /\ \A s \in Syncers : call[s].pc \notin {"keyless", "checking"}

(* An offline grant rests on a key that is trusted still                   *)
Based == grant = "offline" => basis # None /\ Resolve(basis)

(* What a caller is about: a license it began with, tokens only where they *)
(* are enabled, an artifact with its key - and, while its operation is the *)
(* current one, the present license                                        *)
AimedOne(s) == LET c == call[s] IN
    /\ c.pc # "idle" => c.expected # None
    /\ c.form = "token" => Legacy
    /\ c.pc = "checking" => Resolve(c.got.key)
    /\ c.pc \in {"sent", "keyless", "checking"} /\ current = s => c.target = license
Aimed == \A s \in Syncers : AimedOne(s)

(* A caller about to report has stored an artifact that is still good, or  *)
(* there is no license to report it for                                    *)
StoredIsUsable ==
    (\E s \in Syncers : At(s, "stored")) /\ ~lost /\ license # None => Acceptable # {}

IInv == TypeOK /\ Fresh /\ Based /\ Aimed /\ StoredIsUsable /\ ReadyIsTrue

-----------------------------------------------------------------------------
(* Steps                                                                   *)

(* A request that failed leaves its caller idle or about to ask for a token *)
LEMMA FailedCalls ==
    ASSUME TypeOK, NEW s \in Syncers, NEW d \in BOOLEAN, Failed(s, d)
    PROVE  /\ holder' \in Syncers \cup {None}
           /\ call' \in [Syncers -> Calls]
           /\ \A t \in Syncers : t # s => call'[t] = call[t]
           /\ call'[s].pc \in {"idle", "waiting"}
           /\ call'[s].pc # "idle" => call'[s].expected = call[s].expected
           /\ call'[s].form = "token" => Legacy
<1>1. holder' \in Syncers \cup {None}
  BY DEF Failed, EndTurn, Released, TypeOK
<1>2. call[s] \in Calls
  BY DEF TypeOK
<1>3. Idle \in Calls /\ [Idle EXCEPT !.pc = "waiting", !.expected = call[s].expected, !.form = "token"] \in Calls
  BY <1>2 DEF Idle, Calls, Forms
<1>4. call' \in [Syncers -> Calls]
  BY <1>3 DEF Failed, TypeOK
<1>5. QED
  BY <1>1, <1>4 DEF Failed, TypeOK, Idle

(* What a step does to the one call it is about *)
LEMMA CallForms ==
    /\ Idle \in Calls
    /\ \A e \in Ids \cup {None} : [Idle EXCEPT !.pc = "waiting", !.expected = e] \in Calls
    /\ \A c \in Calls, t \in Ids \cup {None} : [c EXCEPT !.pc = "sent", !.target = t] \in Calls
    /\ \A c \in Calls, p \in {"keyless", "checking"}, a \in Artifact : [c EXCEPT !.pc = p, !.got = a] \in Calls
    /\ \A c \in Calls : [c EXCEPT !.pc = "checking"] \in Calls
    /\ \A e \in Ids \cup {None} : [Idle EXCEPT !.pc = "stored", !.expected = e] \in Calls
  BY DEF Calls, Idle, Forms

(* The files that a fallback relies on *)
LEMMA ChosenFile ==
    ASSUME TypeOK, Acceptable # {}
    PROVE  file[Chosen].key \in Keys /\ Resolve(file[Chosen].key)
<1>1. Chosen \in Acceptable
  BY DEF Chosen, Acceptable, Consulted, Forms
<1>2. Chosen \in Forms /\ file[Chosen] # NoArtifact /\ Resolve(file[Chosen].key)
  BY <1>1 DEF Acceptable, Consulted, Verifies
<1>3. QED
  BY <1>2 DEF TypeOK, Artifact

(* A removal of files *)
LEMMA WithoutTyped ==
    ASSUME TypeOK, NEW gone \in SUBSET Forms
    PROVE  Without(gone) \in [Forms -> Artifact \cup {NoArtifact}]
  BY DEF Without, TypeOK

LEMMA ClearedFiles == \A gone \in Cleared : gone \in SUBSET Forms
  BY DEF Cleared, Forms

(* The calls that a step is not about *)
LEMMA OthersAimed ==
    ASSUME Aimed, license' = license, pin' = pin, trusted \subseteq trusted',
           NEW s \in Syncers,
           \A t \in Syncers : t # s => call'[t] = call[t] /\ (current' = t => current = t),
           NEW t \in Syncers, t # s
    PROVE  AimedOne(t)'
  BY DEF Aimed, AimedOne, Resolve

(* The types are kept by every step *)
LEMMA TypeStep ==
    ASSUME TypeOK, Next
    PROVE  TypeOK'
<1> USE NoneIsNothing, LegacyIsBool, ChangesBound, LoopIsSyncer
<1>1. ASSUME NEW s \in Syncers, StartSync(s) PROVE TypeOK'
  <2>1. call' \in [Syncers -> Calls] /\ \A t \in Syncers : t # s => call'[t] = call[t]
    BY <1>1, CallForms DEF StartSync, TypeOK
  <2>2. call'[s].pc = "waiting"
    BY <1>1 DEF StartSync, TypeOK, Idle
  <2>3. QED
    BY <1>1, <2>1, <2>2 DEF StartSync, TypeOK, keys, decision, sync, world, report, Lose
<1>2. ASSUME NEW s \in Syncers, Begin(s) PROVE TypeOK'
  <2>1. call' = [call EXCEPT ![s] = [call[s] EXCEPT !.pc = "sent", !.target = license]]
    BY <1>2 DEF Begin, TypeOK
  <2>2. call[s] \in Calls
    BY DEF TypeOK
  <2>3. call' \in [Syncers -> Calls] /\ \A t \in Syncers : t # s => call'[t] = call[t]
    <3>1. [call[s] EXCEPT !.pc = "sent", !.target = license] \in Calls
      BY <2>2, CallForms DEF TypeOK
    <3>2. QED
      BY <2>1, <3>1 DEF TypeOK
  <2>4. call'[s].pc = "sent"
    BY <2>1, <2>2 DEF Calls, TypeOK
  <2>5. QED
    BY <1>2, <2>3, <2>4 DEF Begin, TypeOK, keys, decision, sync, world, report, Lose
<1>3. ASSUME NEW s \in Syncers, Issued(s) PROVE TypeOK'
  <2>1. PICK id \in Ids : LET a == [id |-> id, key |-> issuing, open |-> TRUE] IN
         \/ Failed(s, FALSE) /\ current' = Closed(s)
         \/ /\ call' = [call EXCEPT ![s].pc = IF Resolve(a.key) THEN "checking" ELSE "keyless", ![s].got = a]
            /\ UNCHANGED <<holder, current>>
    BY <1>3 DEF Issued, TypeOK
  <2> DEFINE a == [id |-> id, key |-> issuing, open |-> TRUE]
  <2>2. a \in Artifact
    BY DEF Artifact, TypeOK
  <2>3. CASE Failed(s, FALSE) /\ current' = Closed(s)
    BY <1>3, <2>3, FailedCalls DEF Issued, TypeOK, Closed, keys, decision, sync, world, report, Lose
  <2>4. ASSUME call' = [call EXCEPT ![s].pc = IF Resolve(a.key) THEN "checking" ELSE "keyless", ![s].got = a],
               UNCHANGED <<holder, current>>
        PROVE  TypeOK'
    <3>1. PICK p \in {"keyless", "checking"} : call' = [call EXCEPT ![s] = [call[s] EXCEPT !.pc = p, !.got = a]]
      BY <2>4 DEF TypeOK
    <3>2. call[s] \in Calls
      BY DEF TypeOK
    <3>3. call' \in [Syncers -> Calls] /\ \A t \in Syncers : t # s => call'[t] = call[t]
      BY <3>1, <3>2, <2>2, CallForms DEF TypeOK
    <3>4. call'[s].got = a
      BY <3>1, <3>2 DEF Calls, TypeOK
    <3>5. QED
      BY <1>3, <2>2, <2>4, <3>3, <3>4 DEF Issued, TypeOK, keys, decision, sync, world, report, Lose
  <2>5. QED
    BY <2>1, <2>3, <2>4
<1>4. ASSUME NEW s \in Syncers, Denied(s) PROVE TypeOK'
  BY <1>4, FailedCalls DEF Denied, TypeOK, At, Closed, Released, Changes, keys, decision, sync, world, report, Lose
<1>5. ASSUME NEW s \in Syncers, Unanswered(s) PROVE TypeOK'
  BY <1>5, FailedCalls DEF Unanswered, TypeOK, At, Closed, Released, Changes, keys, decision, sync, world, report, Lose
<1>6. ASSUME NEW s \in Syncers, FetchKey(s) PROVE TypeOK'
  <2>1. call' = [call EXCEPT ![s] = [call[s] EXCEPT !.pc = "checking"]]
    BY <1>6 DEF FetchKey, TypeOK
  <2>2. call[s] \in Calls /\ call[s].got \in Artifact /\ call[s].got.key \in Keys
    BY <1>6 DEF FetchKey, TypeOK, At, Artifact
  <2>3. call' \in [Syncers -> Calls] /\ \A t \in Syncers : t # s => call'[t] = call[t]
    BY <2>1, <2>2, CallForms DEF TypeOK
  <2>4. call'[s].got = call[s].got
    BY <2>1, <2>2 DEF Calls, TypeOK
  <2>5. QED
    BY <1>6, <2>2, <2>3, <2>4 DEF FetchKey, Remember, TypeOK, keys, decision, sync, world, report, Lose
<1>7. ASSUME NEW s \in Syncers, Store(s) PROVE TypeOK'
  <2>1. call[s] \in Calls
    BY DEF TypeOK
  <2>2. call[s].form \in Forms /\ call[s].got \in Artifact \cup {NoArtifact}
        /\ call[s].expected \in Ids \cup {None}
    BY <2>1 DEF Calls
  <2>3. call' \in [Syncers -> Calls] /\ \A t \in Syncers : t # s => call'[t] = call[t]
    BY <1>7, <2>2, CallForms DEF Store, TypeOK
  <2>4. call'[s].pc = "stored"
    BY <1>7 DEF Store, TypeOK, Idle
  <2>5. file' \in [Forms -> Artifact \cup {NoArtifact}] /\ lost' \in BOOLEAN
    BY <1>7, <2>2 DEF Store, TypeOK
  <2>6. QED
    BY <1>7, <2>3, <2>4, <2>5 DEF Store, TypeOK, Closed, EndTurn, Released, keys, decision, sync, world
<1>8. ASSUME NEW s \in Syncers, Report(s) PROVE TypeOK'
  <2>1. call' \in [Syncers -> Calls] /\ \A t \in Syncers : t # s => call'[t] = call[t]
    BY <1>8, CallForms DEF Report, TypeOK
  <2>2. call'[s].pc = "idle"
    BY <1>8 DEF Report, TypeOK, Idle
  <2>3. QED
    BY <1>8, <2>1, <2>2 DEF Report, TypeOK, keys, decision, sync, world
<1>9. ASSUME NEW s \in Syncers, NotStored(s) PROVE TypeOK'
  <2>1. /\ holder' \in Syncers \cup {None} /\ call' \in [Syncers -> Calls]
        /\ \A t \in Syncers : t # s => call'[t] = call[t]
        /\ call'[s].pc \in {"idle", "waiting"}
    BY <1>9, FailedCalls DEF NotStored
  <2>2. UNCHANGED <<keys, file, decision, world, contacted, report>> /\ current' = Closed(s)
    BY <1>9 DEF NotStored
  <2>3. QED
    BY <2>1, <2>2 DEF TypeOK, Closed, keys, decision, world, report
<1>10. ASSUME NEW s \in Syncers, WriteFails(s) PROVE TypeOK'
  <2>1. Checked(s) => At(s, "checking")
    BY DEF Checked
  <2>2. call[s] \in Calls /\ call[s].got \in Artifact /\ call[s].got.key \in Keys /\ call[s].form \in Forms
    BY <1>10, <2>1 DEF WriteFails, TypeOK, At, Artifact, Calls
  <2>3. file' \in [Forms -> Artifact \cup {NoArtifact}] /\ saved' \subseteq Keys
    BY <1>10, <2>2 DEF WriteFails, TypeOK
  <2>4. changes' \in 0 .. MaxChanges
    BY <1>10 DEF WriteFails, TypeOK
  <2>5. QED
    <3>1. /\ holder' \in Syncers \cup {None} /\ call' \in [Syncers -> Calls]
          /\ \A t \in Syncers : t # s => call'[t] = call[t]
          /\ call'[s].pc \in {"idle", "waiting"}
      BY <1>10, FailedCalls DEF WriteFails
    <3>2. UNCHANGED <<pin, trusted, decision, issuing, up, contacted, report>> /\ current' = Closed(s)
      BY <1>10 DEF WriteFails
    <3>3. QED
      BY <2>3, <2>4, <3>1, <3>2 DEF TypeOK, Closed, decision, report
<1>11. ASSUME NEW s \in Syncers, Abandon(s) PROVE TypeOK'
  <2>1. call' \in [Syncers -> Calls] /\ \A t \in Syncers : t # s => call'[t] = call[t]
    BY <1>11, CallForms DEF Abandon, TypeOK
  <2>2. call'[s].pc = "idle"
    BY <1>11 DEF Abandon, TypeOK, Idle
  <2>3. QED
    BY <1>11, <2>1, <2>2 DEF Abandon, TypeOK, Closed, Released, keys, decision, sync, world, report, Lose
<1>12. ASSUME NEW id \in Ids, Activate(id) PROVE TypeOK'
  <2>1. file' \in [Forms -> Artifact \cup {NoArtifact}]
    BY <1>12, WithoutTyped DEF Activate
  <2>2. changes' \in 0 .. MaxChanges
    BY <1>12 DEF Activate, Changes, TypeOK
  <2>3. QED
    BY <1>12, <2>1, <2>2 DEF Activate, TypeOK, keys, Lose
<1>13. CASE Granted
  <2>1. file' \in [Forms -> Artifact \cup {NoArtifact}]
    BY <1>13, WithoutTyped, ClearedFiles DEF Granted, TypeOK
  <2>2. changes' \in 0 .. MaxChanges
    BY <1>13 DEF Granted, Changes, TypeOK
  <2>3. QED
    BY <1>13, <2>1, <2>2 DEF Granted, TypeOK, keys, sync, report, Lose
<1>14. CASE Refused
  <2>1. file' \in [Forms -> Artifact \cup {NoArtifact}]
    BY <1>14, WithoutTyped, ClearedFiles DEF Refused
  <2>2. QED
    BY <1>14, <2>1 DEF Refused, TypeOK, keys, world, Lose
<1>15. CASE FallBack
  BY <1>15, ChosenFile DEF FallBack, TypeOK, keys, sync, world, report
<1>16. CASE Clear
  BY <1>16 DEF Clear, TypeOK, At, Closed, Released, EndTurn, Changes, NoFiles, NoArtifact, keys, decision, sync, world, report, Lose
<1>17. CASE Relaunch
  <2>1. call' \in [Syncers -> Calls] /\ \A t \in Syncers : call'[t].pc = "idle"
    BY <1>17, CallForms DEF Relaunch, Idle
  <2>2. changes' \in 0 .. MaxChanges
    BY <1>17 DEF Relaunch, Changes, TypeOK
  <2>3. QED
    BY <1>17, <2>1, <2>2 DEF Relaunch, TypeOK, Lose
<1>18. CASE Rotate
  BY <1>18 DEF Rotate, TypeOK, At, Closed, Released, EndTurn, Changes, NoFiles, NoArtifact, keys, decision, sync, world, report, Lose
<1>19. CASE NetChanges
  BY <1>19 DEF NetChanges, TypeOK, At, Closed, Released, EndTurn, Changes, NoFiles, NoArtifact, keys, decision, sync, world, report, Lose
<1>20. CASE RunsOut
  <2>1. PICK f \in Forms : /\ file[f].open
                          /\ file' = [file EXCEPT ![f] = [file[f] EXCEPT !.open = FALSE]]
    BY <1>20 DEF RunsOut, TypeOK
  <2>2. file[f] \in Artifact
    BY <2>1 DEF TypeOK, NoArtifact
  <2>3. [file[f] EXCEPT !.open = FALSE] \in Artifact
    BY <2>2 DEF Artifact
  <2>4. file' \in [Forms -> Artifact \cup {NoArtifact}]
    BY <2>1, <2>3 DEF TypeOK
  <2>5. changes' \in 0 .. MaxChanges
    BY <1>20 DEF RunsOut, Changes, TypeOK
  <2>6. QED
    BY <1>20, <2>4, <2>5 DEF RunsOut, TypeOK, keys, decision, sync, world, report, Lose
<1>21. QED
  BY <1>1, <1>2, <1>3, <1>4, <1>5, <1>6, <1>7, <1>8, <1>9, <1>10, <1>11, <1>12, <1>13, <1>14, <1>15, <1>16, <1>17, <1>18, <1>19, <1>20 DEF Next, SyncStep

(* Nothing is trusted before the first answer *)
LEMMA FreshStep ==
    ASSUME TypeOK, Fresh, Next
    PROVE  Fresh'
<1>1. ASSUME NEW s \in Syncers, StartSync(s) PROVE Fresh'
  BY <1>1 DEF StartSync, TypeOK, Fresh, At, Idle, keys, decision, sync, world, report, Lose
<1>2. ASSUME NEW s \in Syncers, Begin(s) PROVE Fresh'
  BY <1>2 DEF Begin, TypeOK, Fresh, At, Idle, keys, decision, sync, world, report, Lose
<1>3. ASSUME NEW s \in Syncers, Issued(s) PROVE Fresh'
  BY <1>3, FailedCalls, LegacyIsBool DEF Issued, TypeOK, Fresh, At, Idle, keys, decision, sync, world, report, Lose
<1>4. ASSUME NEW s \in Syncers, Denied(s) PROVE Fresh'
  BY <1>4, FailedCalls, LegacyIsBool DEF Denied, TypeOK, Fresh, At, Idle, keys, decision, sync, world, report, Lose
<1>5. ASSUME NEW s \in Syncers, Unanswered(s) PROVE Fresh'
  BY <1>5, FailedCalls, LegacyIsBool DEF Unanswered, TypeOK, Fresh, At, Idle, keys, decision, sync, world, report, Lose
<1>6. ASSUME NEW s \in Syncers, FetchKey(s) PROVE Fresh'
  BY <1>6 DEF FetchKey, TypeOK, Fresh, At, Idle, keys, decision, sync, world, report, Lose
<1>7. ASSUME NEW s \in Syncers, Store(s) PROVE Fresh'
  BY <1>7 DEF Store, TypeOK, Fresh, At, Idle, keys, decision, sync, world, report, Lose
<1>8. ASSUME NEW s \in Syncers, Report(s) PROVE Fresh'
  BY <1>8 DEF Report, TypeOK, Fresh, At, Idle, keys, decision, sync, world
<1>9. ASSUME NEW s \in Syncers, NotStored(s) PROVE Fresh'
  BY <1>9, FailedCalls, LegacyIsBool DEF NotStored, TypeOK, Fresh, At, Idle, keys, decision, sync, world, report, Lose
<1>10. ASSUME NEW s \in Syncers, WriteFails(s) PROVE Fresh'
  BY <1>10, FailedCalls, LegacyIsBool DEF WriteFails, TypeOK, Fresh, At, Idle, keys, decision, sync, world, report, Lose
<1>11. ASSUME NEW s \in Syncers, Abandon(s) PROVE Fresh'
  BY <1>11 DEF Abandon, TypeOK, Fresh, At, Idle, keys, decision, sync, world, report, Lose
<1>12. ASSUME NEW id \in Ids, Activate(id) PROVE Fresh'
  BY <1>12 DEF Activate, TypeOK, Fresh, At, Idle, keys, decision, sync, world, report, Lose
<1>13. CASE Granted
  BY <1>13 DEF Granted, TypeOK, Fresh, At, Idle, keys, decision, sync, world, report, Lose
<1>14. CASE Refused
  BY <1>14 DEF Refused, TypeOK, Fresh, At, Idle, keys, decision, sync, world, report, Lose
<1>15. CASE FallBack
  BY <1>15 DEF FallBack, TypeOK, Fresh, At, Idle, keys, decision, sync, world, report, Lose
<1>16. CASE Clear
  BY <1>16 DEF Clear, TypeOK, Fresh, At, Idle, keys, decision, sync, world, report, Lose
<1>17. CASE Relaunch
  BY <1>17 DEF Relaunch, TypeOK, Fresh, At, Idle, keys, decision, sync, world, report, Lose
<1>18. CASE Rotate
  BY <1>18 DEF Rotate, TypeOK, Fresh, At, Idle, keys, decision, sync, world, report, Lose
<1>19. CASE NetChanges
  BY <1>19 DEF NetChanges, TypeOK, Fresh, At, Idle, keys, decision, sync, world, report, Lose
<1>20. CASE RunsOut
  BY <1>20 DEF RunsOut, TypeOK, Fresh, At, Idle, keys, decision, sync, world, report, Lose
<1>21. QED
  BY <1>1, <1>2, <1>3, <1>4, <1>5, <1>6, <1>7, <1>8, <1>9, <1>10, <1>11, <1>12, <1>13, <1>14, <1>15, <1>16, <1>17, <1>18, <1>19, <1>20 DEF Next, SyncStep

(* An offline grant keeps its basis *)
LEMMA BasedStep ==
    ASSUME TypeOK, Based, Next
    PROVE  Based'
<1>1. ASSUME NEW s \in Syncers, StartSync(s) PROVE Based'
  BY <1>1 DEF StartSync, Based, Resolve, keys, decision, sync, world, report, Lose
<1>2. ASSUME NEW s \in Syncers, Begin(s) PROVE Based'
  BY <1>2 DEF Begin, Based, Resolve, keys, decision, sync, world, report, Lose
<1>3. ASSUME NEW s \in Syncers, Issued(s) PROVE Based'
  BY <1>3 DEF Issued, Based, Resolve, keys, decision, sync, world, report, Lose
<1>4. ASSUME NEW s \in Syncers, Denied(s) PROVE Based'
  BY <1>4 DEF Denied, Based, Resolve, keys, decision, sync, world, report, Lose
<1>5. ASSUME NEW s \in Syncers, Unanswered(s) PROVE Based'
  BY <1>5 DEF Unanswered, Based, Resolve, keys, decision, sync, world, report, Lose
<1>6. ASSUME NEW s \in Syncers, FetchKey(s) PROVE Based'
  BY <1>6 DEF FetchKey, Based, Resolve, keys, decision, sync, world, report, Lose, Remember
<1>7. ASSUME NEW s \in Syncers, Store(s) PROVE Based'
  BY <1>7 DEF Store, Based, Resolve, keys, decision, sync, world, report, Lose
<1>8. ASSUME NEW s \in Syncers, Report(s) PROVE Based'
  BY <1>8 DEF Report, Based, Resolve, keys, decision, sync, world
<1>9. ASSUME NEW s \in Syncers, NotStored(s) PROVE Based'
  BY <1>9 DEF NotStored, Based, Resolve, keys, decision, sync, world, report, Lose
<1>10. ASSUME NEW s \in Syncers, WriteFails(s) PROVE Based'
  BY <1>10 DEF WriteFails, Based, Resolve, keys, decision, sync, world, report, Lose
<1>11. ASSUME NEW s \in Syncers, Abandon(s) PROVE Based'
  BY <1>11 DEF Abandon, Based, Resolve, keys, decision, sync, world, report, Lose
<1>12. ASSUME NEW id \in Ids, Activate(id) PROVE Based'
  BY <1>12 DEF Activate, Based, Resolve, keys, decision, sync, world, report, Lose
<1>13. CASE Granted
  BY <1>13 DEF Granted, Based, Resolve, keys, decision, sync, world, report, Lose
<1>14. CASE Refused
  BY <1>14 DEF Refused, Based, Resolve, keys, decision, sync, world, report, Lose
<1>15. CASE FallBack
  BY <1>15, ChosenFile, NoneIsNothing DEF FallBack, Based, Resolve, keys, decision, sync, world, report, Lose
<1>16. CASE Clear
  BY <1>16 DEF Clear, Based, Resolve, keys, decision, sync, world, report, Lose
<1>17. CASE Relaunch
  BY <1>17 DEF Relaunch, Based, Resolve, keys, decision, sync, world, report, Lose
<1>18. CASE Rotate
  BY <1>18 DEF Rotate, Based, Resolve, keys, decision, sync, world, report, Lose
<1>19. CASE NetChanges
  BY <1>19 DEF NetChanges, Based, Resolve, keys, decision, sync, world, report, Lose
<1>20. CASE RunsOut
  BY <1>20 DEF RunsOut, Based, Resolve, keys, decision, sync, world, report, Lose
<1>21. QED
  BY <1>1, <1>2, <1>3, <1>4, <1>5, <1>6, <1>7, <1>8, <1>9, <1>10, <1>11, <1>12, <1>13, <1>14, <1>15, <1>16, <1>17, <1>18, <1>19, <1>20 DEF Next, SyncStep

(* What passes the check of a commit is about the present license        *)
LEMMA CheckedCall ==
    ASSUME TypeOK, Aimed, NEW s \in Syncers, Checked(s)
    PROVE  /\ call[s].target = license /\ call[s].expected # None
           /\ call[s].form \in Consulted /\ call[s].got \in Artifact
           /\ call[s].got.open /\ Resolve(call[s].got.key)
           /\ call[s].form = "machine" => Bound(call[s].got, "machine")
<1>1. call[s] \in Calls /\ call[s].pc = "checking" /\ current = s
  BY DEF Checked, At, TypeOK
<1>2. call[s].got \in Artifact
  BY <1>1 DEF TypeOK
<1>3. AimedOne(s)
  BY DEF Aimed
<1>4. call[s].target = license /\ call[s].expected # None /\ Resolve(call[s].got.key)
  BY <1>1, <1>3 DEF AimedOne
<1>5. call[s].form \in Consulted
  BY <1>1, <1>3 DEF AimedOne, Consulted, Calls, Forms
<1>6. call[s].got.open /\ (call[s].form = "machine" => Bound(call[s].got, "machine"))
  BY DEF Checked, Verifies
<1>7. QED
  BY <1>2, <1>4, <1>5, <1>6

(* The calls stay about what they are about *)
LEMMA AimedStep ==
    ASSUME TypeOK, Aimed, Next
    PROVE  Aimed'
<1>1. ASSUME NEW s \in Syncers, StartSync(s) PROVE Aimed'
  BY <1>1 DEF StartSync, TypeOK, Aimed, AimedOne, Resolve, At, Closed, Idle, keys, decision, sync, world, report, Lose
<1>2. ASSUME NEW s \in Syncers, Begin(s) PROVE Aimed'
  BY <1>2 DEF Begin, TypeOK, Aimed, AimedOne, Resolve, At, Closed, Idle, keys, decision, sync, world, report, Lose
<1>3. ASSUME NEW s \in Syncers, Issued(s) PROVE Aimed'
  <2>1. license' = license /\ pin' = pin /\ trusted' = trusted
    BY <1>3 DEF Issued, keys, decision, sync, world, report, Lose
  <2>2. CASE Failed(s, FALSE) /\ current' = Closed(s)
    <3>1. call[s].pc # "idle"
      BY <1>3 DEF Issued, At
    <3>2. AimedOne(s)'
      BY <2>2, <3>1, FailedCalls DEF Aimed, AimedOne
    <3>3. \A t \in Syncers : t # s => call'[t] = call[t] /\ (current' = t => current = t)
      BY <2>2, FailedCalls, NoneIsNothing DEF Closed
    <3>4. QED
      BY <2>1, <3>2, <3>3, OthersAimed DEF Aimed
  <2>3. ASSUME NEW id \in Ids, UNCHANGED current,
               call' = [call EXCEPT ![s].pc = IF Resolve(issuing) THEN "checking" ELSE "keyless",
                                    ![s].got = [id |-> id, key |-> issuing, open |-> TRUE]]
        PROVE  Aimed'
    <3>1. call[s] \in Calls /\ call[s].pc = "sent"
      BY <1>3 DEF Issued, At, TypeOK
    <3>2. AimedOne(s)'
      BY <2>1, <2>3, <3>1 DEF Aimed, AimedOne, Resolve, TypeOK, Calls
    <3>3. \A t \in Syncers : t # s => call'[t] = call[t] /\ (current' = t => current = t)
      BY <2>3 DEF TypeOK
    <3>4. QED
      BY <2>1, <3>2, <3>3, OthersAimed DEF Aimed
  <2>4. QED
    BY <1>3, <2>2, <2>3 DEF Issued, TypeOK
<1>4. ASSUME NEW s \in Syncers, Denied(s) PROVE Aimed'
  <2>1. PICK d \in BOOLEAN : Failed(s, d)
    BY <1>4 DEF Denied
  <2>2. call[s].pc # "idle"
    BY <1>4 DEF Denied, At, Checked
  <2>3. AimedOne(s)'
    BY <2>1, <2>2, FailedCalls DEF Aimed, AimedOne
  <2>4. \A t \in Syncers : t # s => call'[t] = call[t] /\ (current' = t => current = t)
    BY <1>4, <2>1, FailedCalls, NoneIsNothing DEF Denied, Closed
  <2>5. license' = license /\ pin' = pin /\ trusted' = trusted
    BY <1>4 DEF Denied, keys, decision, sync, world, report, Lose
  <2>6. QED
    BY <2>3, <2>4, <2>5, OthersAimed DEF Aimed
<1>5. ASSUME NEW s \in Syncers, Unanswered(s) PROVE Aimed'
  <2>1. PICK d \in BOOLEAN : Failed(s, d)
    BY <1>5 DEF Unanswered
  <2>2. call[s].pc # "idle"
    BY <1>5 DEF Unanswered, At, Checked
  <2>3. AimedOne(s)'
    BY <2>1, <2>2, FailedCalls DEF Aimed, AimedOne
  <2>4. \A t \in Syncers : t # s => call'[t] = call[t] /\ (current' = t => current = t)
    BY <1>5, <2>1, FailedCalls, NoneIsNothing DEF Unanswered, Closed
  <2>5. license' = license /\ pin' = pin /\ trusted' = trusted
    BY <1>5 DEF Unanswered, keys, decision, sync, world, report, Lose
  <2>6. QED
    BY <2>3, <2>4, <2>5, OthersAimed DEF Aimed
<1>6. ASSUME NEW s \in Syncers, FetchKey(s) PROVE Aimed'
  <2>1. call[s] \in Calls /\ call[s].pc = "keyless"
    BY <1>6 DEF FetchKey, At, TypeOK
  <2>2. license' = license /\ pin' = pin /\ trusted \subseteq trusted' /\ current' = current
    BY <1>6 DEF FetchKey, Remember, keys, decision, sync, world, report, Lose
  <2>3. Resolve(call[s].got.key)'
    BY <1>6, <2>1 DEF FetchKey, Remember, Resolve, TypeOK, Calls
  <2>4. AimedOne(s)'
    BY <1>6, <2>1, <2>2, <2>3 DEF FetchKey, Aimed, AimedOne, TypeOK, Calls
  <2>5. \A t \in Syncers : t # s => call'[t] = call[t]
    BY <1>6 DEF FetchKey, TypeOK
  <2>6. QED
    BY <2>2, <2>4, <2>5, OthersAimed DEF Aimed
<1>7. ASSUME NEW s \in Syncers, Store(s) PROVE Aimed'
  <2>1. license' = license /\ pin' = pin /\ trusted' = trusted
    BY <1>7 DEF Store, keys, decision, sync, world, report, Lose
  <2>2. AimedOne(s)'
    <3>1. call[s].expected # None
      BY <1>7, CheckedCall DEF Store
    <3>2. call'[s].pc = "stored" /\ call'[s].form = "machine" /\ call'[s].expected = call[s].expected
      BY <1>7 DEF Store, Idle, TypeOK
    <3>3. QED
      BY <3>1, <3>2 DEF AimedOne
  <2>3. \A t \in Syncers : t # s => call'[t] = call[t] /\ (current' = t => current = t)
    BY <1>7, NoneIsNothing DEF Store, Closed, TypeOK
  <2>4. QED
    BY <2>1, <2>2, <2>3, OthersAimed DEF Aimed
<1>8. ASSUME NEW s \in Syncers, Report(s) PROVE Aimed'
  <2>1. license' = license /\ pin' = pin /\ trusted' = trusted
    BY <1>8 DEF Report, keys, decision, sync, world
  <2>2. AimedOne(s)'
    BY <1>8 DEF Report, AimedOne, Idle, TypeOK
  <2>3. \A t \in Syncers : t # s => call'[t] = call[t] /\ (current' = t => current = t)
    BY <1>8 DEF Report, TypeOK
  <2>4. QED
    BY <2>1, <2>2, <2>3, OthersAimed DEF Aimed
<1>9. ASSUME NEW s \in Syncers, NotStored(s) PROVE Aimed'
  <2>1. PICK d \in BOOLEAN : Failed(s, d)
    BY <1>9 DEF NotStored
  <2>2. call[s].pc # "idle"
    BY <1>9 DEF NotStored, At, Checked
  <2>3. AimedOne(s)'
    BY <2>1, <2>2, FailedCalls DEF Aimed, AimedOne
  <2>4. \A t \in Syncers : t # s => call'[t] = call[t] /\ (current' = t => current = t)
    BY <1>9, <2>1, FailedCalls, NoneIsNothing DEF NotStored, Closed
  <2>5. license' = license /\ pin' = pin /\ trusted' = trusted
    BY <1>9 DEF NotStored, keys, decision, sync, world, report, Lose
  <2>6. QED
    BY <2>3, <2>4, <2>5, OthersAimed DEF Aimed
<1>10. ASSUME NEW s \in Syncers, WriteFails(s) PROVE Aimed'
  <2>1. PICK d \in BOOLEAN : Failed(s, d)
    BY <1>10 DEF WriteFails
  <2>2. call[s].pc # "idle"
    BY <1>10 DEF WriteFails, At, Checked
  <2>3. AimedOne(s)'
    BY <2>1, <2>2, FailedCalls DEF Aimed, AimedOne
  <2>4. \A t \in Syncers : t # s => call'[t] = call[t] /\ (current' = t => current = t)
    BY <1>10, <2>1, FailedCalls, NoneIsNothing DEF WriteFails, Closed
  <2>5. license' = license /\ pin' = pin /\ trusted' = trusted
    BY <1>10 DEF WriteFails, keys, decision, sync, world, report, Lose
  <2>6. QED
    BY <2>3, <2>4, <2>5, OthersAimed DEF Aimed
<1>11. ASSUME NEW s \in Syncers, Abandon(s) PROVE Aimed'
  <2>1. license' = license /\ pin' = pin /\ trusted' = trusted
    BY <1>11 DEF Abandon, keys, decision, sync, world, report, Lose
  <2>2. AimedOne(s)'
    BY <1>11 DEF Abandon, AimedOne, Idle, TypeOK
  <2>3. \A t \in Syncers : t # s => call'[t] = call[t] /\ (current' = t => current = t)
    BY <1>11, NoneIsNothing DEF Abandon, Closed, TypeOK
  <2>4. QED
    BY <2>1, <2>2, <2>3, OthersAimed DEF Aimed
<1>12. ASSUME NEW id \in Ids, Activate(id) PROVE Aimed'
  BY <1>12, NoneIsNothing DEF Activate, Aimed, AimedOne, Resolve, keys, decision, sync, world, report, Lose
<1>13. CASE Granted
  BY <1>13, NoneIsNothing DEF Granted, Aimed, AimedOne, Resolve, keys, decision, sync, world, report, Lose
<1>14. CASE Refused
  BY <1>14, NoneIsNothing DEF Refused, Aimed, AimedOne, Resolve, keys, decision, sync, world, report, Lose
<1>15. CASE FallBack
  BY <1>15 DEF FallBack, TypeOK, Aimed, AimedOne, Resolve, At, Closed, Idle, keys, decision, sync, world, report, Lose
<1>16. CASE Clear
  BY <1>16, NoneIsNothing DEF Clear, Aimed, AimedOne, Resolve, keys, decision, sync, world, report, Lose
<1>17. CASE Relaunch
  BY <1>17 DEF Relaunch, TypeOK, Aimed, AimedOne, Resolve, At, Closed, Idle, keys, decision, sync, world, report, Lose
<1>18. CASE Rotate
  BY <1>18 DEF Rotate, TypeOK, Aimed, AimedOne, Resolve, At, Closed, Idle, keys, decision, sync, world, report, Lose
<1>19. CASE NetChanges
  BY <1>19 DEF NetChanges, TypeOK, Aimed, AimedOne, Resolve, At, Closed, Idle, keys, decision, sync, world, report, Lose
<1>20. CASE RunsOut
  BY <1>20 DEF RunsOut, TypeOK, Aimed, AimedOne, Resolve, At, Closed, Idle, keys, decision, sync, world, report, Lose
<1>21. QED
  BY <1>1, <1>2, <1>3, <1>4, <1>5, <1>6, <1>7, <1>8, <1>9, <1>10, <1>11, <1>12, <1>13, <1>14, <1>15, <1>16, <1>17, <1>18, <1>19, <1>20 DEF Next, SyncStep

(* ... and it is acceptable once it is stored                              *)
LEMMA CheckedAcceptable ==
    ASSUME TypeOK, Aimed, NEW s \in Syncers, Checked(s), UNCHANGED <<pin, trusted, license>>,
           file' = [file EXCEPT ![call[s].form] = call[s].got]
    PROVE  Acceptable' # {}
<1>1. PICK f \in Forms : f = call[s].form /\ f \in Consulted
  BY CheckedCall DEF Consulted
<1>2. file'[f] = call[s].got
  BY <1>1 DEF TypeOK
<1>3. call[s].got # NoArtifact /\ call[s].got.open /\ Resolve(call[s].got.key)
  BY CheckedCall DEF NoArtifact
<1>4. Bound(call[s].got, f)
  BY <1>1, CheckedCall DEF Bound
<1>5. Verifies(file[f], f)'
  BY <1>2, <1>3, <1>4 DEF Verifies, Bound, Resolve
<1>6. Acceptable' = {g \in Consulted : Verifies(file[g], g)'}
  BY DEF Acceptable, Consulted
<1>7. QED
  BY <1>1, <1>5, <1>6

(* Artifacts stay acceptable as long as nothing is taken away              *)
LEMMA AcceptableStays ==
    ASSUME pin' = pin, trusted \subseteq trusted', license' = license, file' = file,
           Acceptable # {}
    PROVE  Acceptable' # {}
<1>1. PICK f \in Consulted : Verifies(file[f], f)
  BY DEF Acceptable
<1>2. Verifies(file[f], f)'
  BY <1>1 DEF Verifies, Bound, Resolve
<1>3. QED
  BY <1>1, <1>2 DEF Acceptable, Consulted

(* A step that stores nothing, reports nothing and takes nothing away      *)
LEMMA PromiseStays ==
    ASSUME StoredIsUsable, ReadyIsTrue, UNCHANGED <<license, report>>,
           Acceptable # {} => Acceptable' # {},
           \A s \in Syncers : At(s, "stored")' => At(s, "stored")
    PROVE  StoredIsUsable' /\ ReadyIsTrue'
  BY DEF StoredIsUsable, ReadyIsTrue, report

(* A step that may take an artifact away                                   *)
LEMMA PromiseLost ==
    ASSUME Lose
    PROVE  StoredIsUsable' /\ ReadyIsTrue'
  BY DEF Lose, StoredIsUsable, ReadyIsTrue

(* What is stored, and what was reported refreshed, stays acceptable       *)
LEMMA ReadyStep ==
    ASSUME TypeOK, Aimed, StoredIsUsable, ReadyIsTrue, Next
    PROVE  StoredIsUsable' /\ ReadyIsTrue'
<1>1. ASSUME NEW s \in Syncers, StartSync(s)
      PROVE  StoredIsUsable' /\ ReadyIsTrue'
  <2>1. UNCHANGED <<pin, license, file, report>> /\ trusted \subseteq trusted'
    BY <1>1 DEF StartSync, keys, decision, report
  <2>2. \A t \in Syncers : At(t, "stored")' => At(t, "stored")
    BY <1>1 DEF StartSync, At, Idle, TypeOK, sync
  <2>3. QED
    BY <2>1, <2>2, AcceptableStays, PromiseStays
<1>2. ASSUME NEW s \in Syncers, Begin(s)
      PROVE  StoredIsUsable' /\ ReadyIsTrue'
  <2>1. UNCHANGED <<pin, license, file, report>> /\ trusted \subseteq trusted'
    BY <1>2 DEF Begin, keys, decision, report
  <2>2. \A t \in Syncers : At(t, "stored")' => At(t, "stored")
    BY <1>2 DEF Begin, At, Idle, TypeOK, sync
  <2>3. QED
    BY <2>1, <2>2, AcceptableStays, PromiseStays
<1>3. ASSUME NEW s \in Syncers, Issued(s)
      PROVE  StoredIsUsable' /\ ReadyIsTrue'
  <2>1. UNCHANGED <<pin, license, file, report>> /\ trusted \subseteq trusted'
    BY <1>3 DEF Issued, keys, decision, report
  <2>2. \A t \in Syncers : At(t, "stored")' => At(t, "stored")
    <3>1. CASE Failed(s, FALSE)
      BY <3>1, FailedCalls DEF At
    <3>2. ASSUME NEW p \in {"keyless", "checking"}, NEW a,
                 call' = [call EXCEPT ![s] = [call[s] EXCEPT !.pc = p, !.got = a]]
          PROVE  \A t \in Syncers : At(t, "stored")' => At(t, "stored")
      <4>1. call[s] \in Calls /\ call' = [call EXCEPT ![s] = [call[s] EXCEPT !.pc = p, !.got = a]]
        BY <3>2 DEF TypeOK
      <4>2. call'[s].pc = p /\ \A t \in Syncers : t # s => call'[t] = call[t]
        BY <4>1 DEF Calls, TypeOK
      <4>3. QED
        BY <4>2 DEF At
    <3>3. PICK id : \/ Failed(s, FALSE)
                    \/ call' = [call EXCEPT ![s].pc = IF Resolve(issuing) THEN "checking" ELSE "keyless",
                                            ![s].got = [id |-> id, key |-> issuing, open |-> TRUE]]
      BY <1>3 DEF Issued
    <3>4. QED
      BY <3>1, <3>2, <3>3 DEF TypeOK
  <2>3. QED
    BY <2>1, <2>2, AcceptableStays, PromiseStays
<1>4. ASSUME NEW s \in Syncers, Denied(s)
      PROVE  StoredIsUsable' /\ ReadyIsTrue'
  <2>1. UNCHANGED <<pin, license, file, report>> /\ trusted \subseteq trusted'
    BY <1>4 DEF Denied, keys, decision, report
  <2>2. \A t \in Syncers : At(t, "stored")' => At(t, "stored")
    BY <1>4, FailedCalls DEF Denied, At, Idle, TypeOK, sync
  <2>3. QED
    BY <2>1, <2>2, AcceptableStays, PromiseStays
<1>5. ASSUME NEW s \in Syncers, Unanswered(s)
      PROVE  StoredIsUsable' /\ ReadyIsTrue'
  <2>1. UNCHANGED <<pin, license, file, report>> /\ trusted \subseteq trusted'
    BY <1>5 DEF Unanswered, keys, decision, report
  <2>2. \A t \in Syncers : At(t, "stored")' => At(t, "stored")
    BY <1>5, FailedCalls DEF Unanswered, At, Idle, TypeOK, sync
  <2>3. QED
    BY <2>1, <2>2, AcceptableStays, PromiseStays
<1>6. ASSUME NEW s \in Syncers, FetchKey(s)
      PROVE  StoredIsUsable' /\ ReadyIsTrue'
  <2>1. UNCHANGED <<pin, license, file, report>> /\ trusted \subseteq trusted'
    BY <1>6 DEF FetchKey, keys, decision, report, Remember
  <2>2. \A t \in Syncers : At(t, "stored")' => At(t, "stored")
    BY <1>6 DEF FetchKey, At, Idle, TypeOK, sync
  <2>3. QED
    BY <2>1, <2>2, AcceptableStays, PromiseStays
<1>7. ASSUME NEW s \in Syncers, Store(s)
      PROVE  StoredIsUsable' /\ ReadyIsTrue'
  <2>1. UNCHANGED <<pin, trusted, license, ready>> /\ Checked(s)
    BY <1>7 DEF Store, keys, decision
  <2>2. CASE license = None
    <3>1. UNCHANGED <<file, lost>>
      BY <1>7, <2>1, <2>2, CheckedCall DEF Store
    <3>2. QED
      BY <2>1, <2>2, <3>1, AcceptableStays DEF StoredIsUsable, ReadyIsTrue
  <2>3. CASE license # None
    <3>1. file' = [file EXCEPT ![call[s].form] = call[s].got]
      BY <1>7, <2>3, CheckedCall DEF Store
    <3>2. Acceptable' # {}
      BY <2>1, <3>1, CheckedAcceptable
    <3>3. QED
      BY <3>2 DEF StoredIsUsable, ReadyIsTrue
  <2>4. QED
    BY <2>2, <2>3
<1>8. ASSUME NEW s \in Syncers, NotStored(s)
      PROVE  StoredIsUsable' /\ ReadyIsTrue'
  <2>1. UNCHANGED <<pin, license, file, report>> /\ trusted \subseteq trusted'
    BY <1>8 DEF NotStored, keys, decision, report
  <2>2. \A t \in Syncers : At(t, "stored")' => At(t, "stored")
    BY <1>8, FailedCalls DEF NotStored, At, Idle, TypeOK, sync
  <2>3. QED
    BY <2>1, <2>2, AcceptableStays, PromiseStays
<1>9. ASSUME NEW s \in Syncers, Report(s)
      PROVE  StoredIsUsable' /\ ReadyIsTrue'
  <2>1. UNCHANGED <<pin, trusted, license, file, lost>>
    BY <1>9 DEF Report, keys, decision
  <2>2. call[s].expected # None
    BY <1>9 DEF Report, At, Aimed, AimedOne
  <2>3. ready' # None /\ ~lost => Acceptable # {}
    BY <1>9, <2>2 DEF Report, StoredIsUsable, ReadyIsTrue
  <2>4. \A t \in Syncers : At(t, "stored")' => At(t, "stored")
    BY <1>9 DEF Report, At, Idle, TypeOK
  <2>5. QED
    BY <2>1, <2>3, <2>4, AcceptableStays DEF StoredIsUsable, ReadyIsTrue
<1>10. ASSUME NEW s \in Syncers, WriteFails(s)
      PROVE  StoredIsUsable' /\ ReadyIsTrue'
  <2>1. UNCHANGED <<pin, trusted, license, report>>
    BY <1>10 DEF WriteFails, decision
  <2>2. \A t \in Syncers : At(t, "stored")' => At(t, "stored")
    BY <1>10, FailedCalls DEF WriteFails, At
  <2>3. CASE UNCHANGED file
    BY <2>1, <2>2, <2>3, AcceptableStays, PromiseStays
  <2>4. CASE Checked(s) /\ file' = [file EXCEPT ![call[s].form] = call[s].got]
    BY <2>1, <2>2, <2>4, CheckedAcceptable, PromiseStays
  <2>5. QED
    BY <1>10, <2>3, <2>4 DEF WriteFails
<1>11. ASSUME NEW s \in Syncers, Abandon(s)
      PROVE  StoredIsUsable' /\ ReadyIsTrue'
  <2>1. UNCHANGED <<pin, license, file, report>> /\ trusted \subseteq trusted'
    BY <1>11 DEF Abandon, keys, decision, report
  <2>2. \A t \in Syncers : At(t, "stored")' => At(t, "stored")
    BY <1>11 DEF Abandon, At, Idle, TypeOK, sync
  <2>3. QED
    BY <2>1, <2>2, AcceptableStays, PromiseStays
<1>12. ASSUME NEW id \in Ids, Activate(id)
      PROVE  StoredIsUsable' /\ ReadyIsTrue'
  BY <1>12, PromiseLost DEF Activate
<1>13. CASE Granted
  <2>1. CASE Lose
    BY <2>1, PromiseLost
  <2>2. CASE UNCHANGED <<file, report, changes>>
    <3>1. UNCHANGED <<pin, trusted, license>> /\ \A t \in Syncers : At(t, "stored")' => At(t, "stored")
      BY <1>13 DEF Granted, keys, sync, At
    <3>2. QED
      BY <2>2, <3>1, AcceptableStays, PromiseStays
  <2>3. QED
    BY <1>13, <2>1, <2>2 DEF Granted
<1>14. CASE Refused
  BY <1>14, PromiseLost DEF Refused
<1>15. CASE FallBack
  <2>1. UNCHANGED <<pin, license, file, report>> /\ trusted \subseteq trusted'
    BY <1>15 DEF FallBack, keys, decision, report
  <2>2. \A t \in Syncers : At(t, "stored")' => At(t, "stored")
    BY <1>15 DEF FallBack, At, Idle, TypeOK, sync
  <2>3. QED
    BY <2>1, <2>2, AcceptableStays, PromiseStays
<1>16. CASE Clear
  BY <1>16, PromiseLost DEF Clear
<1>17. CASE Relaunch
  BY <1>17, PromiseLost DEF Relaunch
<1>18. CASE Rotate
  <2>1. UNCHANGED <<pin, license, file, report>> /\ trusted \subseteq trusted'
    BY <1>18 DEF Rotate, keys, decision, report
  <2>2. \A t \in Syncers : At(t, "stored")' => At(t, "stored")
    BY <1>18 DEF Rotate, At, Idle, TypeOK, sync
  <2>3. QED
    BY <2>1, <2>2, AcceptableStays, PromiseStays
<1>19. CASE NetChanges
  <2>1. UNCHANGED <<pin, license, file, report>> /\ trusted \subseteq trusted'
    BY <1>19 DEF NetChanges, keys, decision, report
  <2>2. \A t \in Syncers : At(t, "stored")' => At(t, "stored")
    BY <1>19 DEF NetChanges, At, Idle, TypeOK, sync
  <2>3. QED
    BY <2>1, <2>2, AcceptableStays, PromiseStays
<1>20. CASE RunsOut
  BY <1>20, PromiseLost DEF RunsOut
<1>21. QED
  BY <1>1, <1>2, <1>3, <1>4, <1>5, <1>6, <1>7, <1>8, <1>9, <1>10, <1>11, <1>12, <1>13, <1>14, <1>15, <1>16, <1>17, <1>18, <1>19, <1>20 DEF Next, SyncStep

-----------------------------------------------------------------------------
(* Theorems                                                                *)

LEMMA Initially == Init => IInv
<1> SUFFICES ASSUME Init PROVE IInv
  OBVIOUS
<1>1. call \in [Syncers -> Calls] /\ \A s \in Syncers : call[s] = Idle
  BY CallForms DEF Init
<1>2. TypeOK
  <2> USE FirstIsKey
  <2>1. file \in [Forms -> Artifact \cup {NoArtifact}]
    BY DEF Init, NoFiles
  <2>2. changes \in 0 .. MaxChanges
    BY ChangesBound DEF Init
  <2>3. \A s \in Syncers : call[s].pc = "idle"
    <3>1. Idle.pc = "idle"
      BY DEF Idle
    <3>2. QED
      BY <1>1, <3>1
  <2>4. QED
    BY <1>1, <2>1, <2>2, <2>3 DEF Init, TypeOK
<1>3. Fresh /\ Based /\ Aimed /\ StoredIsUsable /\ ReadyIsTrue
  BY <1>1 DEF Init, Fresh, Based, Aimed, AimedOne, StoredIsUsable, ReadyIsTrue, Idle
<1>4. QED
  BY <1>2, <1>3 DEF IInv

LEMMA Inductive == IInv /\ [Next]_vars => IInv'
<1>1. IInv /\ Next => IInv'
  BY TypeStep, FreshStep, BasedStep, AimedStep, ReadyStep DEF IInv
<1>2. IInv /\ UNCHANGED vars => IInv'
  BY DEF IInv, TypeOK, Fresh, Based, Aimed, AimedOne, StoredIsUsable, ReadyIsTrue, At, Acceptable,
         Consulted, Verifies, Bound, Resolve, vars, keys, decision, sync, world, report, Lose
<1>3. QED
  BY <1>1, <1>2

(* The invariant behind the promises of sync_offline_assets and of the     *)
(* fallback: it holds initially and every step of Next keeps it            *)
THEOREM Invariant == Spec => []IInv
  BY Initially, Inductive, PTL DEF Spec

(* Every variable keeps its type: what is in a file or in hand is an       *)
(* artifact the server has issued                                          *)
THEOREM TypeCorrect == Spec => []TypeOK
<1>1. IInv => TypeOK
  BY DEF IInv
<1>2. QED
  BY <1>1, Invariant, PTL

(* A process that has not heard the server yet grants offline on its       *)
(* pinned key or not at all (resolve_public_key, fetch_signing_key)        *)
THEOREM StartupTrustHolds == Spec => []StartupTrust
<1>1. IInv => StartupTrust
  BY DEF IInv, Fresh, Based, Resolve, StartupTrust
<1>2. QED
  BY <1>1, Invariant, PTL

(* What was reported refreshed is usable, whatever other syncs, rotations  *)
(* and failed writes do, although the report is made after the lock was    *)
(* released - unless an event that may take an artifact away has happened  *)
(* since an artifact was last stored (sync_offline_assets,                 *)
(* checkout_machine_file_with_options)                                     *)
THEOREM RefreshedIsUsable == Spec => []ReadyIsTrue
<1>1. IInv => ReadyIsTrue
  BY DEF IInv
<1>2. QED
  BY <1>1, Invariant, PTL

=============================================================================
