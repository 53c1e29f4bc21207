# Formal model of the LicenseSeat Rust SDK

This directory holds TLA+ modules that model the LicenseSeat SDK
(`crates/licenseseat`) and the event path of its Tauri plugin
(`crates/tauri-plugin-licenseseat`), the TLC configurations that check them on
small instances, and proofs of the central theorems for every instance. The
source is the reference; paths below are relative to the repository, and
`client.rs`, `cache.rs`, ... stand for `crates/licenseseat/src/client.rs`, ...,
`lib.rs` and `index.ts` for the plugin's.

    tlc -workers 2 -config client_supersession.cfg MCSupersession.tla
    tlapm LicenseClient_proof.tla

## The system

### Parts, state and operations

| Part | State | Operations |
|---|---|---|
| Client (`client.rs`, `LicenseSeatInner`) | the decision in memory (`runtime_license_state`), the startup candidate (`recovery_license`), `operation_sequence`, `current_license_state_operation`, one `current_*_operation` slot per kind of request | `try_new`, `activate`, `validate`, `restore_license`, `heartbeat`, `deactivate`, `reset`, machine-file checkout, offline validation, queries |
| Durable cache (`cache.rs`) | license record with its recorded verdict, signed offline artifacts, signing keys, clock watermark, installation identifier, files of earlier releases | transactions under a cross-process lock; atomic replacement of single files; migration |
| Background loops (`client.rs` 1994-2614) | running flags, generations, cancel channels | auto-validation, heartbeat, network recheck, offline refresh, sync after activation |
| Runtime clock (`client.rs` 141-159, 3821-3970) | clock floor, effective time, next entitlement transition | expiry of grants, announcing transitions once |
| Transport (`client.rs` 4078-4207) | `is_online` | bounded retries, connectivity transitions |
| Error policy (`client.rs` 5618-5759, `error.rs`) | none | is an answer a denial, an invalidation, an availability failure |
| Offline artifacts (`offline.rs`, `client.rs` 2690-3100) | `runtime_signing_keys`, `offline_request_lock` | checkout, key download, signature, binding, time window, deadline |
| Events (`events.rs`) | a broadcast channel of 64 events | emit, subscribe |
| Tauri plugin and guest bindings | event bridge task, delivery queue of `subscribeState` | commands that forward to the SDK, subscription |

Hosts call the client from many tasks; background loops call the same methods
from threads of their own; the Tauri commands are one more caller. All of them
share the decision in memory. Several SDK instances, in one or several
processes, share one cache directory. Every network request is an `await` (or a
suspension) between the moment a request reads the license and the moment its
answer is committed. Changes of the decision go out as events; the plugin's
bridge forwards them to the webview, where a subscriber answers each by reading
the state through a command.

### What is hard

1. **Answers that arrive late.** A request captures the current license and an
   operation number, waits for the server, and commits under
   `state_commit_lock` only if its number is still that of its slot and of the
   newest license operation. Some changes are made outside that lock.
2. **Online denials against signed artifacts.** An artifact in the cache may be
   older than a denial. Denials are persisted before anything is deleted, kept
   in memory when they cannot be persisted, and looked up before an artifact is
   consulted.
3. **Several processes.** Commits are conditional on the activation identity
   found under the cache's cross-process lock.
4. **Partial failures and crashes.** Any file operation may fail, a rename may
   have happened although the write reports an error, and the process may die
   between two of them; earlier releases kept their files elsewhere.
5. **Loops** that must stop with the license they work for, must not keep the
   SDK alive, and must bring a client back online after an outage.
6. **Time**: rollback of the wall clock, deadlines, entitlement expiry, and
   readers that observe them.
7. **The network**: lost and late answers, retries, intermediaries that answer
   in the server's place.
8. **Trust**: which key may vouch for an artifact, and when.
9. **Events** that must reach a slow subscriber through a bounded channel.

The hazards, with their lines and the properties that cover them, are listed in
`PROJECT.json`.

## The modules

| Module | Content |
|---|---|
| `LicenseCache` | the cache transactions, each an operator that returns the set of outcomes it may have |
| `LicenseClient` | the state machine of the client over the shared cache |
| `Supersession` | `LicenseClient` with the history variable `overtaken`: what the operation numbers are for, stated without them |
| `DenialHistory` | `LicenseClient` with the history variable `barred`: which activations an artifact must not revive |
| `TaskControl` | the threads of the background loops and the calls that start and stop them |
| `OfflineArtifact` | when a signed artifact is accepted, until when, and which form decides: operators without state |
| `RuntimeClock` | extends `OfflineArtifact`: clocks, clock floor, watermark, the observation that ends grants |
| `CacheTransactions` | abstract: what a cache transaction promises its callers, from the operators of `LicenseCache` |
| `CacheFiles` | the cache file by file, with crashes, damage and earlier releases; implements `CacheTransactions` |
| `Requests` | attempts, retries and error classification of the license requests against a server |
| `EventBridge` | broadcast channel, plugin bridge, `subscribeState` |
| `OfflineSync` | artifact checkout, signing keys, and the fallback that uses them |
| `MCClient`, `MCSupersession`, `MCDenial`, `MCTask`, `MCClock`, `MCCache` | values of the constants for TLC that a configuration cannot write, and symmetry sets |
| `*_proof` | theorems about the module of that name; `LicenseClient_proof` has the lemmas about `LicenseCache`, `Supersession_proof` the theorems about `DenialHistory`, `RuntimeClock_proof` those about `OfflineArtifact` |

How they compose: `LicenseClient` uses the transactions of `LicenseCache`;
`CacheFiles` shows that file operations implement these transactions, so that
what is shown of the client over atomic transactions with failures carries over
to files and crashes. `Requests`, `TaskControl`, `RuntimeClock` and
`OfflineSync` each take one aspect of the client (the answer a request is left
with, when requests are made, when a decision ends, what a fallback can find)
that `LicenseClient` treats as a free choice; what they keep of the license is
its commits only. They are not multiplied into one model, which would have no
checkable instance.

### State and code

`LicenseClient`:

| Variable | Code |
|---|---|
| `disk.license` | file `license`: the activation id and the class of `License::validation` |
| `disk.art` | file `machine_file`: the activation it is signed for |
| `mode`, `boot` | progress of `try_new`: the record it has read and not yet rewritten |
| `runtime` | `runtime_license_state`: activation, verdict class, `TrustedLicenseSource` |
| `recovery` | `recovery_license` |
| `opSeq`, `stateOp`, `slot` | `operation_sequence`, `current_license_state_operation`, the `current_*_operation` slots |
| `tasks` | whether the auto-validation and heartbeat loops (`timers`) and the support loops run |
| `call[p]` | the locals of a request in flight: program point, kind, number, captured license, the number and verdict the offline fallback carries |

Verdict classes (`Verdicts`) keep what the code distinguishes: no verdict, an
online or an offline grant, an online denial with one of the *authoritative
denial codes* (the artifact is kept), any other online or local denial
(tombstones included), an invalid offline verdict.

`TaskControl`: a thread is its kind and generation, `thread[x]` its program
point and the license it captured; `running`, `gen` and `sender` are the flag,
the generation counter and the installed cancel channel of each kind; an
`agenda` is the list of steps a host call or a loop has still to make, each a
section under one of the `*_cancel` mutexes.

`RuntimeClock`: `floor` is `runtime_clock_floor`, `state` the
`RuntimeLicenseState` with its `last_effective` time and next transition,
`watermark` the last-seen timestamp in the cache, `verified` the artifact
between its verification and its commit, `pending` the decision between the two
halves of its installation.

`CacheFiles`: `file` gives the content of each slot - a place (current name,
plaintext name, fallback directory, generic prefix) and a kind (license,
artifact) - and `todo` the file operations a transaction has still to make, each
with its place in the order (`at`), what it writes, and whether its failure
aborts the transaction or skips the rest of its group.

`Requests`: `request[c]` is the attempt under way on the license or the health
channel, `online` and `probing` are `is_online` and the support loop, `grant`
the decision; `net`, `seat`, `license`, `late` are the environment: the network,
the server's record of the seat, and requests carried out after their answer
was given up.

`EventBridge`: `channel` is the broadcast channel as its one receiver sees it,
`bus` the events emitted to the webview, `queue` the `deliveryQueue`;
`phase`, `registered`, `active` are the locals of `subscribeState`.

`OfflineSync`: `pin`, `trusted`, `saved` are the configured key,
`runtime_signing_keys` and the key files; `call[s]`, `holder` and `current` the
callers of `sync_offline_assets`, `offline_request_lock` and
`current_offline_sync_operation`. Two history variables state what a report
promises: `ready` is the activation whose assets were last reported refreshed,
`lost` whether an artifact may have gone since the last one was stored.

Each action names its function in a comment. In `LicenseClient` a section under
`state_commit_lock` is one action, with the cache transaction it makes. Code
outside the lock is split at every shared access another caller could get in
between: the cancellation of a pending activation by `deactivate_key`, the
start of loops after an activation or restore (`StartTasks`, `SpawnTasks`),
the offline fallback (`Fallback`, `Inspect`, `InstallFoundDenial`,
`FinalizeOffline`), the cleanup after a heartbeat's invalidation error
(`HeartbeatDropOps`, `HeartbeatDropRuntime`, `HeartbeatDropCache`), and the two
cache transactions of a start (`StartRead`, `StartWrite`). In `OfflineSync` the
commit of an artifact (`Store`) and the report of the refresh (`Report`), which
`sync_offline_assets` makes after the lock was released, are two actions.

### Abstractions

Client and cache:

- All activations belong to one license key on one device, so that only the
  activation id tells them apart. This is the case in which a mix-up is not
  caught by a comparison of keys or fingerprints.
- A server answer is a choice among the classes the code distinguishes; its
  arrival is merged with the commit it leads to. A request whose future is
  dropped is `Rejected`: the slot is released by `OperationGuard`.
- Requests for a license the instance does not manage have number 0 and commit
  nothing (`begin_target_operation`); they are left out, except for a restore,
  which continues with the record it read from the cache.
- Verification of an artifact compares the activation it is bound to; every
  other check may fail at will (`OfflineArtifact` and `OfflineSync` have them).
- Expiry is one action: the first read of the state after a time bound turns the
  decision in memory into a denial (`RuntimeClock` has the times).
- Merged although the code has a gap: the capture of the current identity at the
  start of an activation with its begin; the reads of a restore with the begin
  of its validation; the identity check of a checkout with the write of its
  artifact (both under the commit lock, in two cache transactions).
  `OfflineSync` has one more such pair, see there.
- A failing atomic write may or may not have replaced the file
  (`atomic_write_private` syncs the directory after the rename). The order in
  which data reaches the medium is not modelled: a crash is that of the process.
- `CacheFiles` has one process at a time, since transactions hold the
  cross-process lock; machine file and legacy token go the same ways and are one
  artifact. The installation identifier (`cache.rs` 774-795) is left out.

The others:

- `TaskControl` keeps of the license which it is and whether it is pending,
  online, offline or denied. Sleeping until the next interval is the freedom to
  take the next step late.
- `RuntimeClock`: a file operation on the watermark does not fail (failures of
  the cache are in `LicenseClient` and `CacheFiles`); `Verify` may pick any
  artifact of the given sets as the content of the cache; `DecideDenial` stands
  for every denial, those for want of a watermark included. `DecideOnline` is
  the commit of an activation, a validation or a heartbeat: each anchors the
  watermark and installs a decision with `OnlineResponse` as its source. With
  `Overlap = FALSE` no reader comes between the two halves of an installation.
- `Requests`: one license, one installation, requests about the license one
  after another. Bodies are kept as far as the checks tell them apart. Responses
  over the size limit and requests that cannot be built are left out; the swap
  of `is_online` and its event are one step. Unless `BareGone` is set, no
  intermediary answers 410 without a code, which `deactivate_key` takes for the
  end of the seat. An activation answered `license_revoked` does not clear
  the current grant, and a late activation may take a seat the client never
  learns of: both are in the model and no property denies them.
- `EventBridge`: the state is the number of its changes, an event its name and
  the change it announces. One subscription, from its start to its end, with
  `emit_frontend_events` on. A listener that awaits its own unsubscription waits
  for itself; the application of the model unsubscribes from outside.
- `OfflineSync`: an artifact is its activation, its form, its key and whether
  its window is open. All activations are of one license key on one device. A
  denial that cannot be persisted is the subject of `DenialHistory`; here it
  can. Merged although the code has a gap: the last identity check of
  `sync_offline_assets` with its event (`Report`; neither promise depends on it,
  since a change of the license counts as `lost`). A key is genuine: it is the server's, current or rotated out.

## Checked with TLC

| Run | Instance | Distinct states | Shows |
|---|---|---|---|
| `client_supersession` | 2 callers, 1 instance, crashes, no heartbeat, 4 numbers | 581 thousand | `StaleResponseIsInert`, `CurrentOpTargetsCurrent`, `SupersessionInv`, `GrantIsBacked`, `DecisionsAreOwn`, `OtherDecisionKept` |
| `client_faults` | 1 caller, failures, crashes, 4 numbers | 39 thousand | `TypeOK`, `DenialOutranksArtifact`, `NoTimersWithoutLicense` |
| `client_processes` | 2 callers of one instance, another process launched and dying, all requests, 2 numbers, symmetry | 751 thousand | `OtherActivationKept` |
| `task_control` | 2 hosts, auto-validation, failing spawns, symmetry | 144 thousand | `LiveLoopIsCurrent`, `RunningIsHonest` |
| `task_liveness` | 1 host, auto-validation, support, artifact sync | 81 thousand | `OnlineAgain`, `TimersAgain`, `DroppedSdkEnds`, `StaleLoopsEnd` |
| `clock_offline` | 2 ticks to the second, 2 machine files, 1 token | 1.7 million | `TypeOK`, `NoRevival`, `ToldIsCurrent`, `EndsOnce`, `AnswersNeverGoBack`, `OfflineWindow` |
| `cache_files` | any origin, 4 transactions, 2 crashes, 1 failure, 1 damaged file | 328 thousand | `DenialShields`, `ResetIsFinal`, `MigrationIsWhole`, `NothingLost`, `ImplementsTransactions` |
| `requests` | all requests, 1 retry, both fallback modes | 113 thousand | `DecisionStands`, `OfflineGrantProbes`, `ErasedOnlyWhenOver`, `DeactivationHeals`, `RequestsEnd`, `SeatLossIsNoticed` |
| `events` | 2 event names, capacity 2, 2 changes, 1 failure | 188 thousand | `TypeOK`, `DeliveredInOrder`, `NothingAfterUnsubscribe`, `EventuallyTold` |
| `offline_sync` | 2 callers, 2 activations, 2 keys, 3 changes of the environment | 1.09 million | `StartupTrust`, `ReadyIsTrue`, `EventuallyReady` |

`TypeOK` of `TaskControl`, `CacheFiles`, `Requests` and `OfflineSync` holds in
the same instances, and is proved.

In words - the client:

- `StaleResponseIsInert`: the answer of an operation that a newer one has
  overtaken, or whose license has ended, changes neither the cache nor the
  decision in memory. The one exception is the code's own: a denied
  re-activation of the current activation is recorded whatever operation is
  newest.
- `CurrentOpTargetsCurrent`: the operation that could still commit is about the
  activation the instance manages, or one that has just ended.
- `SupersessionInv`: why the former hold: operation numbers are unique, and the
  number of an overtaken operation is never again the newest one.
- `DenialOutranksArtifact`: a signed artifact never establishes a grant for an
  activation that has been denied or dropped in the cache since its last online
  grant - whatever file operations failed and however often the process was
  relaunched. It holds for one caller; with two see below.
- `NoTimersWithoutLicense`: however a license ends or is denied, the loops stop.
  It holds for one caller.
- `GrantIsBacked`: a grant in memory is always the verdict on disk for the same
  activation. (With several instances it cannot hold: another instance may
  replace the record, and the code does not promise otherwise.)
- `DecisionsAreOwn`: the activation an instance decides about changes only by
  its own activation request.
- `OtherDecisionKept`, `OtherActivationKept`: a request about one activation
  leaves the decision, and the cached record, of another alone.

`GrantIsBacked`, `DecisionsAreOwn` and `OtherDecisionKept` are checked, and
proved, without heartbeats, whose cleanup outside the lock breaks all three (see
`race_heartbeat`). With a second instance over the cache `CurrentOpTargetsCurrent`
fails as well: a restore decides about the record the other instance has written
(as in `restore_foreign`) while a newer validation is about the own one. `OtherActivationKept` also holds for two
instances that both make requests (`client_instances.cfg` with `MCClient`, 162
thousand states) and is proved. `StaleResponseIsInert`, `CurrentOpTargetsCurrent`,
`SupersessionInv` and `OtherActivationKept` hold with heartbeats too
(`client_heartbeats.cfg` with `MCSupersession`, 69 thousand states).

The loops:

- `LiveLoopIsCurrent`: a loop whose cancel channel has not fired, and is not
  about to, is the one its flag and generation stand for; two loops of a kind
  never live on side by side, whoever started and stopped what.
- `RunningIsHonest`: once no start or stop is under way, a running flag is
  backed by a loop, whatever thread failed to start.
- `OnlineAgain`, `TimersAgain`: while the support tasks run and the server
  grants the license, an outage ends with an online decision and with the timers
  running, or the license changes.
- `StaleLoopsEnd`, `DroppedSdkEnds`: superseded and stopped loops end, the
  artifact retries end, and all threads end after the host dropped the SDK. The
  latter is stated from a moment at which every loop sleeps: a loop in the
  middle of an iteration holds a handle, and could be handed on for ever from
  one loop to the next only if iterations never left a gap.

Time:

- `AnswersNeverGoBack`, `NoRevival`: however the user sets the clock, the times
  of the answers of a process never go back but for an online answer, and what
  has been seen to end (the artifact, its license, an entitlement) is not
  granted on again.
- `OfflineWindow`: setting the clock back, however slowly and over however many
  launches, gains at most the tolerated skew.
- `ToldIsCurrent`, `EndsOnce`: subscribers know the entitlements active at the
  time of the last answer, and a grant ends with one terminal event.

The cache:

- `DenialShields`: after any failure or crash, whatever an earlier release left,
  a reader that sees a denied activation and its artifact sees the denial.
- `ResetIsFinal`: after a completed reset no earlier file comes back as license.
- `MigrationIsWhole`, `NothingLost`: when a migrated license appears, so has its
  artifact; reading and launching lose nothing.
- `ImplementsTransactions`: from a fresh installation, every sequence of file
  operations is one of the outcomes of the transaction in `LicenseCache`, or a
  stutter. Installations with earlier files have no such mapping: a reader's
  view then depends on files the transactions do not name.

Requests:

- `DecisionStands`: after a denial has reached the client it grants nothing
  until the server grants again, and online only on the server's word.
- `ErasedOnlyWhenOver`: local state is forgotten only when the server has ended
  the license or its seat is gone, whichever of the answers of `OtherAnswers` an
  intermediary gives to which attempt. Two cases are left out of the listed run,
  because the code does not keep the property in them: an intermediary's 410
  without a code (`gone_410`), and a local clock that disagrees with the
  server's (`heartbeat_clock`).
- `OfflineGrantProbes`: whatever failure let it fall back, the client probes.
- `DeactivationHeals`: a deactivation whose answer was lost still succeeds.
- `RequestsEnd`, `SeatLossIsNoticed`: requests end; a client whose seat was
  released elsewhere does not go on granting while the API answers.

Events:

- `DeliveredInOrder`, `NothingAfterUnsubscribe`: the listener never sees the
  state go back, never overlaps itself, and is not called after unsubscription.
- `EventuallyTold`: a subscriber is told of the newest change announced, or that
  it could not be read, unless a full channel dropped that announcement.

Artifacts and keys:

- `StartupTrust`: a process that has not heard the server yet grants offline on
  its pinned key or not at all.
- `ReadyIsTrue`: assets reported refreshed are acceptable to the process, and
  stay so whatever other syncs, rotations, failed downloads and failed writes do.
  The report is made after the lock was released, so an event that may take an
  artifact away (a denial, another activation, a reset, the end of an artifact's
  window, a grant whose time cannot be recorded, a relaunch) can come before it:
  the property promises nothing between such an event and the next artifact
  stored. `race_refresh_report` shows a report that is wrong when it is made.
- `EventuallyReady`: while the API answers and the refresh loop runs, the assets
  of the license are in the end reported refreshed, and acceptable.

### Bounds

*Client.* `MaxOps` bounds the numbers an instance hands out per life; crashes
and resets do not need one. Four numbers are enough for an activation, two
overlapping requests about it and a replacement, in any order. Two activations,
since every property is about one and another. Two callers, since each race
found needs a victim and an intruder and the checks compare a request with the
newest one only. With another process over the cache two numbers suffice, one
for each overlapping request, since a relaunch starts the count again; callers
and activations are interchangeable there, and the one property, a condition on
single steps, treats them alike. There are no deadlocks: a caller can always finish what it has
begun and reset.

*Loops.* Two host calls, which overlap with each other and with the loops'
own; twelve generations, more than two calls and their loops can use up. The
safety run has one kind of timer: flags, generations and channels of the kinds
do not touch each other. The liveness run has the support loop, which starts
the others, one call and one change of the server.

*Time.* Two ticks to the second, so that expiries fall between the seconds
deadlines are rounded to; a clock of six ticks and two ticks of observation per
process: an artifact, its end, the skew, and a clock set back behind them.

*Cache.* Four transactions are an activation, a denial, and two more around
them; two crashes, so that a cleanup after a crash may itself be interrupted.

*Requests.* One retry, since attempts are alike and the last decides. Overlapping
license requests are the subject of `LicenseClient`. `ClockRight`: the client's
clock agrees with the server's in the listed run; `~BareGone`: no intermediary
answers 410 without a code in it.

*Events.* A channel of two instead of 64 overflows with the two changes and two
unrelated events that may be sent; two event names, since registration may fail
between them.

*Artifacts.* Three changes of the environment: a rotation, an outage and its end,
or a relaunch with another pin around them. The server begins with one fixed key
(`FirstKey`): keys are interchangeable but for the pin, which may be any or none.

`CHECK_DEADLOCK FALSE` is set where the bounds let the system stop: the host has
made its calls and dropped the SDK, the transactions are used up, the
subscription has ended.

### Fairness

The client and cache runs state safety only. The others:

- `TaskControl`: each loop is a thread and each host call a task, so each has
  weak fairness: one condition for the current loop of each kind, one for all
  others, which have finitely many steps left. Strong fairness of an answer that
  no newer request has overtaken: intervals are much longer than a request's
  timeout, so two loops do not overtake each other's requests for ever.
- `Requests`: attempts have a timeout and retry delays a bound (weak fairness);
  the auto-validation loop validates at each interval and waits for its answer,
  although other requests and outages come between (strong fairness).
- `EventBridge`: the bridge is a task, the webview dispatches what it is sent,
  reads are answered and listeners return (weak fairness of each).
- `OfflineSync`: requests have a timeout and the refresh loop wakes at every
  interval (weak fairness); its turn comes although others compete for it,
  because `tokio::sync::Mutex` is first-in first-out (strong fairness).

### Disagreements between code and documentation

Two runs end in a counterexample that contradicts the documentation;
`PROJECT.json` has the lines.

- `race_fallback_denial`: `validate_offline` reads the newest operation number at
  its own entry, outside the lock. A fallback that starts late adopts the number
  of a newer validation and then commits a signed grant over the online refusal
  that validation has committed.
- `fallback_408`: a validation left with HTTP 408 returns an error at once,
  because 408 is a business error before it is a network error; the
  documentation lists it among the failures that fall back.

Further configurations are kept beside the runs for the same reason: each ends
in a counterexample to a property that one would like to have.

| Configuration | Module | Counterexample |
|---|---|---|
| `race_offline_verdict` | `MCDenial` | `update_validation` protects a recorded denial only against *valid* offline results; an invalid one replaces it |
| `race_reset_timers` | `MCDenial` | loops are started after the commit lock is released; a reset in between leaves them running without a license |
| `race_heartbeat` | `MCClient` | after a heartbeat's invalidation error the operations, loops and the decision in memory are dropped outside the lock, and may be those of an activation that has just replaced the one the heartbeat was about |
| `race_startup_denial` | `MCDenial` | a starting process rewrites the record it read in an earlier transaction and may lose a denial recorded in between |
| `race_cancelled_activation` | `MCSupersession` | `deactivate_key` clears the activation slot outside the lock, and so may cancel an activation that began after it: its answer is refused although it is the newest operation |
| `restore_foreign` | `MCClient` | a restore decides about the record another running instance has written |
| `failed_activation` | `MCSupersession` | an activation whose commit reports an error after its record was written leaves that record in the cache; a restore falls back to it and decides about it while a newer validation is about the earlier activation |
| `race_recheck` | `MCTask` | the recheck loop, or a request that fails, starts loops after the host has stopped all of them: timers (`TimersStayStopped`), and in the same instance the support loop (`SupportStaysStopped` in its place) |
| `race_loops_license` | `MCTask` | loops are started for a license read before; an activation in between has another one |
| `race_next_run` | `MCTask` | the next run is announced after the check that the loop is still wanted |
| `race_clock_anchor` | `MCClock` | a read between the two halves of an online installation raises the clock floor again; with such readers (`Overlap = TRUE`) `AnswersNeverGoBack` fails too, by less than a second |
| `crash_migration` | `MCCache` | a crash between the migration of a generic cache and the removal of its license lets a later reset be undone by the next launch |
| `heartbeat_clock` | `Requests` | with a local clock ahead of the server's, a heartbeat answered with an active license counts as an inactive one and the license is forgotten |
| `gone_410` | `Requests` | a deactivation that an intermediary answers with 410 and no code forgets a license whose seat is still taken |
| `heartbeat_untold` | `EventBridge` | a heartbeat answered with an inactive license changes the state without an event of the default subscription |
| `offline_unexamined` | `OfflineSync` | the fallback of a process that lacks the artifact's key (no pin, or another one after a relaunch) replaces an online grant by a refusal, although `config.rs` 454-456 says only recognised denials do |
| `race_refresh_report` | `OfflineSync` | a denial removes the stored artifact after the lock was released and before `sync_offline_assets` reports the refresh, which it then does with no artifact left |
| `rotation_startup` | `OfflineSync` | after a rotation, a refresh replaces an artifact of the pinned key by one the next launch cannot verify |

## Proved with TLAPS

For every value of the constants, from the named assumptions in the modules
that declare them (`None` is not an identity, host calls are not loops; flags
are Booleans; bounds and limits are naturals; sets have their types; in
`CacheFiles` there is an identity at all). Some
theorems have a hypothesis besides; each time a configuration above shows what
happens without it:

| Hypothesis | Theorems about | Means | Without it |
|---|---|---|---|
| `Sole` | `Supersession` | one instance, whose files do not fail | `restore_foreign`, `failed_activation` |
| `Beatless` | `Supersession` | `Sole`, and no heartbeats | `race_heartbeat` |
| `OneCaller` | `DenialHistory` | one instance with one caller; files may fail, the process may die | `race_fallback_denial`, `race_reset_timers`, `race_offline_verdict`, `race_startup_denial` |
| `ClockRight`, `~BareGone` | `Requests` (`NothingErasedEarly`) | the local clock agrees with the server's; no intermediary answers 410 without a code | `heartbeat_clock`, `gone_410` |
| `~Overlap` | `RuntimeClock` | no reader inside an installation | `race_clock_anchor` |

*`LicenseClient`*, for all callers and instances, with and without failures and
crashes:

- `TypeCorrect`: `TypeOK` is inductive as it stands; the lemmas about the
  operators of `LicenseCache` say that every cache transaction maps a cache
  content to cache contents.
- `OtherActivationsSafe`: `OtherActivationKept` follows from one lemma per cache
  operator (a transaction about `id` leaves a record of another activation as it
  is) and a case split over the actions. The conditional transactions carry it
  alone.

*`Supersession`*, for all callers and instances:

- `NumbersAreSound`: `SupersessionInv` is `TypeOK` together with three facts:
  numbers are unique and never ahead of the sequence, idle callers hold nothing,
  and the number of an overtaken operation is not the newest one. The last is
  what supersession means, and is inductive only with the first (a fresh number
  differs from all in flight) and with the second. The proof goes through an
  abstraction of all steps, `Numbering`: a step hands out one fresh number,
  keeps, or clears the newest number, and only the former two leave a request in
  flight alone.
- `StaleResponsesAreInert`: by the invariant the checks of an overtaken operation
  fail, so of all actions in which it can take its answer only `Rejected`,
  `Superseded` and `LifecycleDenial` remain.

*`Supersession`*, for all callers of a single instance:

- `NewestIsOwn` (`CurrentOpTargetsCurrent`), with `Sole`. The inductive invariant
  `SoleInv` says more than the property: the newest operation is about the
  license in memory *and* the cached one (`NewestIsAbout`), these two are the
  same unless one has been dropped (`NotAtOdds`), an instance that is not up
  manages nothing and has read what the cache holds (`DownHoldsNothing`), and
  what a fallback takes along from the cache is a denial (`FoundDenies`). The
  proof reduces all steps to six effects (`Effect`): a step keeps license and
  decision, decides about the activation it is about and the cache holds,
  activates, releases, resets, or cleans up after a heartbeat.
- `GrantsAreBacked`, `OwnDecisionsOnly`, `DecisionsStand`, with `Beatless`: then
  the license in memory is the cached one as long as the instance is up
  (`InStep`), and of the six effects only the own ones remain.

*`DenialHistory`*, for every sequence of requests, file failures and relaunches
of one caller (`OneCaller`):

- `LoopsHaveALicense`, `DenialsOutrankArtifacts`, `RecordedDenialsStand`: the
  inductive invariant `DenialInv` says that a barred activation still in the
  cache has its denial there (`BarredIsDenied`), that what a fallback found in
  the cache is still so (`FallbackSawCache`, the conjunct that fails with a
  second caller), that loops run, or are about to be started, for a license
  neither memory nor cache denies (`LoopsAreLicensed`), and that an instance
  that is not up does nothing (`DownIsStill`). Every write to the record is one of
  five `Moves`, failures included; every step stops the loops or keeps what
  licenses them (`Calm`), but for the commit of an activation, which is about to
  start them, and three steps that only move the caller.

*`TaskControl`*, for any hosts, loops and generations:

- `TypeCorrect`, `NoLoopEscapes` (`LiveLoopIsCurrent`), `FlagsTellTheTruth`
  (`RunningIsHonest`): the inductive invariant says that flag, generation and
  cancel channel of a kind change together (`Switched`), that the spawn of a loop
  is the next step after its installation (`SpawnsFirst`), that no two loops,
  spawned or about to be, share a generation (`OwnGenerations`), and that a flag
  that is set stands for a living thread, one about to be spawned, or is about to
  be taken back (`FlagsBacked`). `OwnGenerations` is what makes the first property
  inductive: a loop that was superseded cannot become the current one again.
  `SyncPlansNothing` is needed because the artifact sync shares no flag.

*`Requests`*, for any number of retries, requests and fallback modes:

- `TypeCorrect`, `DenialStands`, `OfflineProbes`, `NothingErasedEarly`,
  `DeactivationSettles`: to the properties themselves the inductive invariant
  adds that each channel carries its own requests and waits only for a retry that
  is left (`OwnChannel`), that the license a request is about is not forgotten
  before its answer (`Managed`), and that after a denial there is no state from
  which a fallback could grant (`DenialHolds`).

*`EventBridge`*, for any event names and capacity:

- `TypeCorrect`, `InOrderAlways`, `SilentAfterEnd`: only the head of the delivery
  queue is under way (`OneAtATime`), what it has read is no older than what the
  listener has seen (`InOrder`), and the end of a subscription is reached through
  its deactivation (`Ended`).

*`OfflineArtifact`*:

- `AcceptedUntilDeadline`: a well-formed artifact is accepted from its `nbf`,
  less the skew, until the deadline the client keeps, as long as the license
  lasts. `VerdictIsAccepted`: a verdict that is an artifact is an accepted one
  of the cache. Neither needs an invariant; both are used below.

*`RuntimeClock`*:

- `CoreInvariant`: the inductive invariant `Core` says that times are typed and
  no later than the clocks have been (`Types`, `Bounded`), that the watermark is
  the latest accepted second (`Anchored`), that a grant has ended at most once
  (`Ending`), and that the next transition kept with the state is not after the
  entitlement that ends next (`Telling`). `TypeCorrect`, `OneEnd`,
  `SubscribersAreCurrent` and `OfflineAcceptanceWindow` follow.
- `AnswersAdvance`, `NothingRevives`: with `~Overlap`, a second invariant,
  `Order`, says that the time of the last answer is not after the floor carried
  forward, the time of the decision under installation, nor the last time of the
  state. It needs `Bounded` of the first.

*`OfflineSync`*:

- `TypeCorrect`, `StartupTrustHolds`, `RefreshedIsUsable`: the inductive
  invariant is `TypeOK`, `ReadyIsTrue` itself, and `Fresh` (a process that has
  had no answer trusts no downloaded key and has no artifact in hand), `Based`
  (the key an offline grant rests on is still trusted), `Aimed` (while its
  operation is the current one, a caller works for the present license, and an
  artifact it is about to check is of a trusted key) and `StoredIsUsable` (as
  long as a caller has stored its artifact and not reported yet, and nothing was
  lost since, there is an acceptable artifact or no license to report it for).
  `ReadyIsTrue` is not inductive without the last: the report comes after the
  lock, when only this carries over what the commit has checked.

*`CacheFiles`*, for any activations, any of the four origins, and any number of
transactions, failing operations, crashes and damaged files:

- `CacheInvariant`: the inductive invariant, one conjunct per question a reviewer
  would ask of a half-done transaction. `Inherited`: files of earlier releases
  hold what they always held and lie in one place. `Shape`: what a step of each
  transaction may be; `Groups`: steps that are skipped together fail alike.
  `Moving`: a value that is moved is first copied, then removed, before anything
  else is done to it, so that readers find the same all along. `Deciding` and
  `Storing`: what a transaction is about to write still agrees with the record it
  read. `Clearing`: a license goes after the artifacts of its directory.
  `Copying`: a migration copies the artifact, then the license, then clears.
  `Migrating`: until a migration is over, or has stopped halfway, every file of
  the earlier cache that still has the license has its removal ahead of it.
  `Resetting` and `Shielding` strengthen the two promises below: nothing under
  way would write a license again, and a denial that can no longer be read has
  left no artifact of its activation in any file, found by readers or hidden. The
  promises themselves are not inductive: a hidden file becomes visible when the
  one before it goes.
- `DenialsShield`, `ResetsAreFinal`: from the invariant. Both promise nothing
  once a migration has stopped halfway, and `crash_migration` shows what then
  happens.
- `MigrationsAreWhole`, `MovesLoseNothing`: from the invariant and one step,
  which for a launch or a read under way is a file operation, or leaves the files
  alone (`UnderWay`).
- `FilesImplementTransactions`: the refinement. `Faithful` says, of a fresh
  installation, that the steps left of each transaction write what its request
  asked for (`Activating`, `Validating`, `Supplying`, `Launching`,
  `Invalidating`) and take the record last (`Emptying`); each file operation is
  then an outcome of `LicenseCache` or a stutter (`StepRefines`), each request and
  launch begins a transaction, and completion and death end it (`NextRefines`).

Only model-checked: the properties above outside their hypotheses (the
runs are instances of them); and liveness, which with `ENABLED` and induction over
data is out of the prover's reach.

## What is left

1. The composition of `TaskControl` with `LicenseClient`, to state the races of
   the loops on the full state machine.
2. A refinement of `CacheTransactions` for installations with files of earlier
   releases, whose transactions would have to name what they leave hidden.

## Not modelled

- Configuration: parsing and checks of values, without state.
- Device identity and telemetry: platform queries and formatting; no state the
  license machine depends on.
- Data models and strict JSON: parsing and serialisation. What the state machine
  looks at are the fields of the records above.
- Releases, downloads and health endpoints: requests that change no license
  state, except that a health check sets the connectivity flag (`Requests`).
- The plugin's other commands, which translate arguments and results of one SDK
  call each, and its configuration.
- URL building, TLS, size limits.
- Cryptography: an artifact that verifies is bound to what it names, and a
  signature verifies under its key only.
