------------------------------ MODULE OfflineSync ------------------------------
(***************************************************************************)
(* How a client comes by a signed artifact it can rely on (client.rs): the *)
(* checkout of machine files and legacy tokens, the download of signing    *)
(* keys, the order in which they reach the cache, and the fallback that    *)
(* later looks at what is there.                                           *)
(*                                                                         *)
(* Callers of sync_offline_assets - the refresh loop, the host, the sync   *)
(* after an activation - take turns (offline_request_lock).  All           *)
(* activations are of one license key on one device.  An artifact is what  *)
(* it is bound to, the key it is signed with, and whether its time window  *)
(* is open; OfflineArtifact has the window itself.                         *)
(***************************************************************************)
EXTENDS Naturals

CONSTANTS
    Syncers,   \* callers of sync_offline_assets
    Loop,      \* one of them: the refresh loop of the support thread
    Ids,       \* activations
    Keys,      \* signing keys of the server
    FirstKey,  \* the one it signs with at first
    None,      \* no activation, no key, nobody
    Legacy,    \* enable_legacy_offline_tokens
    MaxChanges \* bound: changes of the environment

ASSUME LoopIsSyncer == Loop \in Syncers
ASSUME NoneIsNothing == None \notin Syncers \cup Ids \cup Keys
ASSUME FirstIsKey == FirstKey \in Keys
ASSUME LegacyIsBool == Legacy \in BOOLEAN
ASSUME ChangesBound == MaxChanges \in Nat

VARIABLES
    pin,       \* configuration: signing_key_id, its key being the server's
    trusted,   \* runtime_signing_keys
    saved,     \* the key files in the cache
    file,      \* the artifact of each form in the cache
    license,   \* current_license: its activation
    denied,    \* an authoritative denial of it is recorded
    grant,     \* the decision in memory
    basis,     \* history: the key that the offline grant rests on
    support,   \* the refresh loop runs
    call,      \* what each caller is about
    holder,    \* who holds offline_request_lock
    current,   \* whose operation current_offline_sync_operation is
    issuing,   \* server: the key it signs with
    up,        \* environment: the API answers
    contacted, \* history: this process has had an answer of the server
    ready,     \* history: the activation whose assets were last reported refreshed
    lost,      \* history: an artifact may have gone since the last one was stored
    changes    \* changes of the environment so far

keys == <<pin, trusted, saved>>
decision == <<license, denied, grant, basis, support>>
sync == <<call, holder, current>>
world == <<issuing, up, changes>>
report == <<ready, lost>>
vars == <<keys, file, decision, sync, world, contacted, report>>

Forms == {"machine", "token"}
Artifact == [id : Ids, key : Keys, open : BOOLEAN]
NoArtifact == [id |-> None, key |-> None, open |-> FALSE]
NoFiles == [f \in Forms |-> NoArtifact]
Idle == [pc |-> "idle", expected |-> None, form |-> "machine", target |-> None, got |-> NoArtifact]

Init ==
    /\ pin \in Keys \cup {None} /\ trusted = {} /\ saved = {}
    /\ file = NoFiles
    /\ license = None /\ denied = FALSE /\ grant = "none" /\ basis = None /\ support = FALSE
    /\ call = [s \in Syncers |-> Idle] /\ holder = None /\ current = None
    /\ issuing = FirstKey /\ up \in BOOLEAN /\ changes = 0
    /\ contacted = FALSE /\ ready = None /\ lost = FALSE

-----------------------------------------------------------------------------
(* Verification                                                            *)

(* Bug: a key once downloaded is good for ever                             *)
ResolveSaved(k) == k = pin \/ k \in trusted \/ k \in saved

(* resolve_public_key: the files are not asked                             *)
Resolve(k) == k = pin \/ k \in trusted

(* Both forms are bound to the license key and the device, a machine file  *)
(* also to the activation                                                  *)
Bound(a, form) == form = "machine" /\ license # None => a.id = license

(* verify_machine_file_inner, verify_offline_token                         *)
Verifies(a, form) == a # NoArtifact /\ Resolve(a.key) /\ a.open /\ Bound(a, form)

(* perform_offline_validation: the machine file, then the legacy token     *)
Consulted == {f \in Forms : f = "machine" \/ Legacy}
Acceptable == {f \in Consulted : Verifies(file[f], f)}
Present == {f \in Consulted : file[f] # NoArtifact}
Chosen == IF "machine" \in Acceptable THEN "machine" ELSE "token"

-----------------------------------------------------------------------------
(* sync_offline_assets                                                     *)

At(s, pc) == call[s].pc = pc
Released(s) == IF holder = s THEN None ELSE holder
Closed(s) == IF current = s THEN None ELSE current

StartSync(s) ==
    /\ At(s, "idle") /\ license # None
    /\ s = Loop => support
    /\ call' = [call EXCEPT ![s] = [Idle EXCEPT !.pc = "waiting", !.expected = license]]
    /\ UNCHANGED <<keys, file, decision, holder, current, world, contacted, report>>

(* checkout_machine_file_with_options, generate_offline_token: the request *)
Begin(s) ==
    /\ At(s, "waiting") /\ holder = None
    /\ holder' = s /\ current' = s
    /\ call' = [call EXCEPT ![s].pc = "sent", ![s].target = license]
    /\ UNCHANGED <<keys, file, decision, world, contacted, report>>

(* Bug: the caller keeps its turn                                          *)
KeepTurn(s) == holder
(* The guards are dropped with the request                                 *)
EndTurn(s) == Released(s)

(* A checkout that failed for any reason but a denial is tried with a      *)
(* token, if these are enabled                                             *)
Failed(s, denial) ==
    /\ holder' = EndTurn(s)
    /\ call' = [call EXCEPT ![s] =
         IF call[s].form = "machine" /\ Legacy /\ ~denial
         THEN [Idle EXCEPT !.pc = "waiting", !.expected = call[s].expected, !.form = "token"]
         ELSE Idle]

(* The server issues an artifact; its key is looked up before anything is  *)
(* stored                                                                  *)
Issued(s) ==
    /\ At(s, "sent") /\ up
    /\ contacted' = TRUE
    /\ \E id \in IF license = None THEN Ids ELSE {license} :
         LET a == [id |-> id, key |-> issuing, open |-> TRUE] IN
         IF current # s THEN Failed(s, FALSE) /\ current' = Closed(s)
         ELSE /\ call' = [call EXCEPT ![s].pc = IF Resolve(a.key) THEN "checking" ELSE "keyless",
                                      ![s].got = a]
              /\ UNCHANGED <<holder, current>>
    /\ UNCHANGED <<keys, file, decision, world, report>>

(* record_lifecycle_authoritative_denial, if it is about the license       *)
Denied(s) ==
    /\ At(s, "sent") \/ At(s, "keyless")
    /\ up
    /\ contacted' = TRUE
    /\ IF license # None /\ call[s].target = license
       THEN /\ denied' = TRUE /\ grant' = "denied" /\ basis' = None /\ support' = FALSE
            /\ current' = None
       ELSE UNCHANGED <<denied, grant, basis, support>> /\ current' = Closed(s)
    /\ Failed(s, TRUE)
    /\ UNCHANGED <<keys, file, license, world, report>>

(* No answer, or one that is not a checkout of this license                *)
Unanswered(s) ==
    /\ At(s, "sent") \/ At(s, "keyless")
    /\ ~up
    /\ current' = Closed(s)
    /\ Failed(s, FALSE)
    /\ UNCHANGED <<keys, file, decision, world, contacted, report>>

(* Bug: the downloaded key is only saved                                   *)
SaveOnly(k) == trusted
Remember(k) == trusted \cup {k}

(* fetch_signing_key: saved first, trusted only when that has succeeded    *)
FetchKey(s) ==
    /\ At(s, "keyless") /\ up
    /\ trusted' = Remember(call[s].got.key) /\ saved' = saved \cup {call[s].got.key}
    /\ call' = [call EXCEPT ![s].pc = "checking"]
    /\ UNCHANGED <<pin, file, decision, holder, current, world, contacted, report>>

(* The commit: the operation, the artifact and the activation it was asked *)
(* for are checked under the lock                                          *)
Checked(s) == LET c == call[s] IN
    /\ At(s, "checking") /\ current = s
    /\ c.form = "machine" => Verifies(c.got, "machine")
    /\ c.got.open
    /\ c.target # None => c.target = license

(* ... and the turn of the caller ends with it                             *)
Store(s) == LET c == call[s] IN
    /\ Checked(s)
    /\ IF c.target = None THEN UNCHANGED <<file, lost>>
       ELSE file' = [file EXCEPT ![c.form] = c.got] /\ lost' = FALSE
    /\ holder' = EndTurn(s) /\ current' = Closed(s)
    /\ call' = [call EXCEPT ![s] = [Idle EXCEPT !.pc = "stored", !.expected = c.expected]]
    /\ UNCHANGED <<keys, decision, world, contacted, ready>>

(* The rest of sync_offline_assets holds no lock: if the license it began  *)
(* with is still in the cache, the refresh is reported                     *)
Report(s) ==
    /\ At(s, "stored")
    /\ ready' = IF call[s].expected = license THEN license ELSE ready
    /\ call' = [call EXCEPT ![s] = Idle]
    /\ UNCHANGED <<keys, file, decision, holder, current, world, contacted, lost>>

NotStored(s) ==
    /\ At(s, "checking") /\ ~Checked(s)
    /\ current' = Closed(s)
    /\ Failed(s, FALSE)
    /\ UNCHANGED <<keys, file, decision, world, contacted, report>>

(* The cache cannot be written: a key is then not trusted either; the file *)
(* of an artifact may have been replaced all the same                      *)
WriteFails(s) == LET c == call[s] IN
    /\ changes < MaxChanges /\ changes' = changes + 1
    /\ \/ At(s, "keyless") /\ up /\ saved' \in {saved, saved \cup {c.got.key}} /\ UNCHANGED file
       \/ /\ Checked(s) /\ c.target # None
          /\ file' \in {file, [file EXCEPT ![c.form] = c.got]} /\ UNCHANGED saved
    /\ current' = Closed(s)
    /\ Failed(s, FALSE)
    /\ UNCHANGED <<pin, trusted, decision, issuing, up, contacted, report>>

(* The host drops the future, which does not wait for anything any more    *)
(* once the artifact is stored                                             *)
Abandon(s) ==
    /\ s # Loop /\ call[s].pc \notin {"idle", "stored"}
    /\ call' = [call EXCEPT ![s] = Idle]
    /\ holder' = Released(s) /\ current' = Closed(s)
    /\ UNCHANGED <<keys, file, decision, world, contacted, report>>

-----------------------------------------------------------------------------
(* The license                                                             *)

Changes == changes < MaxChanges /\ changes' = changes + 1

(* An artifact may be gone: what was reported is no longer so              *)
Lose == ready' = None /\ lost' = TRUE

Without(gone) == [f \in Forms |-> IF f \in gone THEN NoArtifact ELSE file[f]]

(* clear_offline_assets: the token first, and a removal that fails ends it *)
Cleared == {{}, {"token"}, Forms}

(* activate_with_options; commit_activation tries to remove each file      *)
Activate(id) ==
    /\ Changes /\ up /\ id # license
    /\ license' = id /\ denied' = FALSE /\ grant' = "online" /\ basis' = None /\ support' = TRUE
    /\ \E gone \in SUBSET Forms : file' = Without(gone)
    /\ current' = None /\ contacted' = TRUE /\ Lose
    /\ UNCHANGED <<keys, call, holder, issuing, up>>

(* validate_key, restore_license: answered. Most denials remove the        *)
(* artifacts, and so does a grant whose time cannot be recorded: it comes  *)
(* with an SdkError                                                        *)
Granted ==
    /\ license # None /\ up
    /\ grant' = "online" /\ denied' = FALSE /\ basis' = None /\ contacted' = TRUE
    /\ \/ UNCHANGED <<file, report, changes>>
       \/ Changes /\ Lose /\ \E gone \in Cleared : file' = Without(gone)
    /\ UNCHANGED <<keys, license, support, sync, issuing, up>>
Refused ==
    /\ license # None /\ up
    /\ grant' = "denied" /\ denied' = TRUE /\ basis' = None /\ contacted' = TRUE
    /\ support' = FALSE /\ current' = None
    /\ Lose /\ \E gone \in Cleared : file' = Without(gone)
    /\ UNCHANGED <<keys, license, call, holder, world>>

(* ... not answered: a recorded denial stands, an artifact that is found   *)
(* is a verdict, none is not                                               *)
FallBack ==
    /\ license # None /\ ~up
    /\ support' = TRUE
    /\ IF denied THEN grant' = "denied" /\ basis' = None
       ELSE IF Acceptable # {} THEN grant' = "offline" /\ basis' = file[Chosen].key
       ELSE IF Present # {} THEN grant' = "refused" /\ basis' = None
       ELSE UNCHANGED <<grant, basis>>
    /\ UNCHANGED <<keys, file, license, denied, sync, world, contacted, report>>

(* reset, deactivation, revocation: the cache is cleared, the keys in      *)
(* memory stay                                                             *)
Clear ==
    /\ license # None
    /\ license' = None /\ denied' = FALSE /\ grant' = "none" /\ basis' = None /\ support' = FALSE
    /\ file' = NoFiles /\ saved' = {} /\ current' = None /\ Lose
    /\ UNCHANGED <<pin, trusted, call, holder, world, contacted>>

(* The process ends; the next one may have been built with another key     *)
Relaunch ==
    /\ Changes
    /\ pin' \in Keys \cup {None} /\ trusted' = {}
    /\ grant' = IF license = None THEN "none" ELSE IF denied THEN "denied" ELSE "pending"
    /\ basis' = None /\ support' = FALSE
    /\ call' = [s \in Syncers |-> Idle] /\ holder' = None /\ current' = None
    /\ contacted' = FALSE /\ Lose
    /\ UNCHANGED <<saved, file, license, denied, issuing, up>>

(* The server rotates its key, the network fails or recovers, an artifact  *)
(* runs out                                                                *)
Rotate ==
    /\ Changes /\ issuing' \in Keys \ {issuing}
    /\ UNCHANGED <<keys, file, decision, sync, up, contacted, report>>
NetChanges ==
    /\ Changes /\ up' = ~up
    /\ UNCHANGED <<keys, file, decision, sync, issuing, contacted, report>>
RunsOut == \E f \in Forms :
    /\ Changes /\ file[f].open
    /\ file' = [file EXCEPT ![f].open = FALSE] /\ Lose
    /\ UNCHANGED <<keys, decision, sync, issuing, up, contacted>>

-----------------------------------------------------------------------------
SyncStep(s) ==
    \/ Issued(s) \/ Denied(s) \/ Unanswered(s) \/ FetchKey(s)
    \/ Store(s) \/ NotStored(s) \/ Report(s)

Next ==
    \/ \E s \in Syncers : StartSync(s) \/ Begin(s) \/ SyncStep(s) \/ WriteFails(s) \/ Abandon(s)
    \/ \E id \in Ids : Activate(id)
    \/ Granted \/ Refused \/ FallBack \/ Clear \/ Relaunch \/ Rotate \/ NetChanges \/ RunsOut

Spec == Init /\ [][Next]_vars

(* A request has a timeout, the loop wakes at every interval, and the lock *)
(* is handed to its waiters in turn                                        *)
Fairness ==
    /\ \A s \in Syncers : WF_vars(SyncStep(s))
    /\ WF_vars(StartSync(Loop)) /\ SF_vars(Begin(Loop))
FairSpec == Spec /\ Fairness

-----------------------------------------------------------------------------
(* Properties                                                              *)

Calls == [pc : {"idle", "waiting", "sent", "keyless", "checking", "stored"}, form : Forms,
          expected : Ids \cup {None}, target : Ids \cup {None}, got : Artifact \cup {NoArtifact}]

(* Types; an artifact a caller has in hand is one the server has issued    *)
TypeOK ==
    /\ pin \in Keys \cup {None} /\ trusted \subseteq Keys /\ saved \subseteq Keys
    /\ file \in [Forms -> Artifact \cup {NoArtifact}]
    /\ license \in Ids \cup {None} /\ denied \in BOOLEAN
    /\ grant \in {"none", "pending", "online", "offline", "refused", "denied"}
    /\ basis \in Keys \cup {None} /\ support \in BOOLEAN
    /\ call \in [Syncers -> Calls]
    /\ \A s \in Syncers : call[s].pc \in {"keyless", "checking"} => call[s].got \in Artifact
    /\ holder \in Syncers \cup {None} /\ current \in Syncers \cup {None}
    /\ issuing \in Keys /\ up \in BOOLEAN /\ contacted \in BOOLEAN
    /\ ready \in Ids \cup {None} /\ lost \in BOOLEAN /\ changes \in 0 .. MaxChanges

(* "The SDK can fetch a key by kid while online, but a fetched/persisted   *)
(* key is not accepted as a trust anchor by a new process" (README.md of   *)
(* the crate): a process that has not reached the server yet grants        *)
(* offline on its pinned key or not at all, whatever earlier processes     *)
(* have downloaded, stored or failed to store.                             *)
StartupTrust == grant = "offline" /\ ~contacted => pin # None /\ basis = pin

(* A refresh that was reported is true: there is an artifact this process  *)
(* accepts, whatever other syncs, rotations, failed downloads and failed   *)
(* writes do - unless, since an artifact was last stored, the license has  *)
(* changed or been denied, an artifact has run out, the time of a grant    *)
(* could not be recorded or the process has ended.  Any of these may come  *)
(* before the report, which is made outside the lock.                      *)
ReadyIsTrue == ready # None /\ ~lost => Acceptable # {}

(* "anything still failing after this belongs to the refresh loop"         *)
(* (client.rs): while the API answers and the loop runs, a refresh of the  *)
(* license's assets is reported in the end and stays true, whichever       *)
(* callers compete for the turn, and however keys rotate.                  *)
EventuallyReady ==
    <>[](up /\ support /\ license # None) => <>[](ready = license /\ Acceptable # {})

-----------------------------------------------------------------------------
(* What the code does not keep                                             *)

(* "Only specifically recognized authoritative license denials clear the   *)
(* last trusted grant" (config.rs): a fallback does not end a grant over   *)
(* an artifact it could not examine, for want of the key.                  *)
UnexaminedIsNoVerdict ==
    [][grant = "online" /\ grant' = "refused" => \E f \in Present : Resolve(file[f].key)]_vars

(* What is reported refreshed is so at that moment: a denial may take the  *)
(* artifact away after the lock was released and before the report.        *)
ReportIsCurrent ==
    [][\A s \in Syncers : Report(s) /\ call[s].expected = license => Acceptable # {}]_vars

(* A refresh does not take away the artifact the next launch could verify  *)
RefreshKeepsStartup ==
    [][\A s \in Syncers : Store(s) =>
         \A f \in Consulted : pin # None /\ Verifies(file[f], f) /\ file[f].key = pin =>
             \E g \in Consulted : file'[g].key = pin]_vars
=============================================================================
