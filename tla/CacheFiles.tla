------------------------------ MODULE CacheFiles ------------------------------
(***************************************************************************)
(* The license cache at the level of its files (cache.rs): a transaction   *)
(* is a sequence of atomic replacements and removals of single files, any  *)
(* of which may fail, and the process may die between two of them.         *)
(*                                                                         *)
(* A value is kept under an opaque name in the durable directory           *)
(* ("current"); files of earlier releases may still lie under a plaintext  *)
(* name in the same directory ("old") or in the system's cache directory   *)
(* ("fallback"), and under the prefix that was not yet product-scoped (the *)
(* "generic" cache).  Readers take the first that exists and move it.      *)
(*                                                                         *)
(* The machine file and the legacy token go the same ways: one "artifact". *)
(* One process at a time: transactions hold the cross-process lock.        *)
(***************************************************************************)
EXTENDS LicenseCache, Naturals

CONSTANTS
    Origins,      \* where an earlier release may have left its files
    Crashes,      \* BOOLEAN: may the process die
    MaxOps,       \* bound: transactions
    MaxCrashes,   \* bound: crashes
    MaxFailures,  \* bound: failing file operations
    MaxDamage     \* bound: files damaged from outside

AllOrigins == {"fresh", "old", "fallback", "generic"}
ASSUME OriginsType == Origins \subseteq AllOrigins
ASSUME SomeId == Ids # {}
ASSUME CrashesIsBool == Crashes \in BOOLEAN
ASSUME FileBounds == {MaxOps, MaxCrashes, MaxFailures, MaxDamage} \subseteq Nat

VARIABLES
    file,      \* content of each file
    up,        \* "down", "starting" or "up": the process
    op,        \* the transaction under way
    todo,      \* its file operations still to be done
    failed,    \* has one of them failed the transaction
    origin,    \* what the first launch found
    counts,    \* transactions, crashes, failures, damage so far
    denied,    \* history: activations a denial has been recorded for
    gone,      \* history: the license has been cleared and not activated again
    halfway    \* history: a migration stopped between its commit and the end of its cleanup

vars == <<file, up, op, todo, failed, origin, counts, denied, gone, halfway>>

Caches == {"product", "generic"}
Places == {"current", "old", "fallback"}
Keys == {"license", "artifact"}
Slots == Caches \X Places \X Keys
At(c, p, k) == <<c, p, k>>

Absent == NoRecord
Corrupt == [id |-> None, verdict |-> "corrupt"]
Artifact(id) == [id |-> id, verdict |-> "none"]
Earlier == [id |-> CHOOSE id \in Ids : TRUE, verdict |-> "granted"]

NoOp == [do |-> "none", id |-> None, verdict |-> "none"]

FilesOf(where) == [s \in Slots |->
    IF \/ where = "generic" /\ s[1] = "generic" /\ s[2] = "fallback"
       \/ where \in {"old", "fallback"} /\ s[1] = "product" /\ s[2] = where
    THEN IF s[3] = "license" THEN Earlier ELSE Artifact(Earlier.id)
    ELSE Absent]

Init ==
    /\ origin \in Origins
    /\ file = FilesOf(origin)
    /\ up = "down" /\ op = NoOp /\ todo = {} /\ failed = FALSE
    /\ counts = [ops |-> 0, crashes |-> 0, failures |-> 0, damage |-> 0]
    /\ denied = {} /\ gone = FALSE /\ halfway = FALSE

-----------------------------------------------------------------------------
(* Reading                                                                 *)

(* get_unlocked: a current file hides the earlier ones, even if damaged    *)
Present(c, k) == \E p \in Places : file[At(c, p, k)] # Absent
Found(c, k) ==
    At(c, CASE file[At(c, "current", k)] # Absent -> "current"
            [] file[At(c, "current", k)] = Absent /\ file[At(c, "old", k)] # Absent -> "old"
            [] OTHER -> "fallback", k)
Read(c, k) == IF file[Found(c, k)] = Corrupt THEN Absent ELSE file[Found(c, k)]

License == Read("product", "license")
ArtifactId == Read("product", "artifact").id

-----------------------------------------------------------------------------
(* File operations, each with its place in its transaction.  One that      *)
(* fails aborts the transaction, or skips the rest of its group.           *)

Write(at, s, content, group, onFail) ==
    [at |-> at, slot |-> s, content |-> content, group |-> group, onFail |-> onFail]
Remove(at, s, group, onFail) == Write(at, s, Absent, group, onFail)

(* Bug: the earlier file is removed before its value is written            *)
MoveRemoveFirst(at, from, to, content, onFail) ==
    {Remove(at, from, to[3], onFail), Write(at + 1, to, content, to[3], onFail)}

(* migrate_legacy_value_unlocked                                           *)
Move(at, from, to, content, onFail) ==
    {Write(at, to, content, to[3], onFail), Remove(at + 1, from, to[3], onFail)}

Fetch(at, c, k, onFail) ==
    LET s == Found(c, k) IN
    IF Present(c, k) /\ s[2] # "current" /\ file[s] # Corrupt
    THEN Move(at, s, At(c, "current", k), file[s], onFail)
    ELSE {}

(* remove_key_unlocked: durable directory first; failures are warnings     *)
RemoveKey(at, c, k, onFail) ==
    {Remove(at, At(c, "current", k), "key", onFail),
     Remove(at + 1, At(c, "old", k), "key", onFail),
     Remove(at + 2, At(c, "fallback", k), "key", onFail)}

RemoveAll(at, c, places, k, onFail) ==
    {Remove(at + i, At(c, places[i], k), "directory", onFail) : i \in DOMAIN places}

(* Bug: the record goes before the artifact it may be blocking             *)
LicenseBeforeArtifacts(at, c, places, onFail) ==
    RemoveAll(at, c, places, "license", onFail) \cup RemoveAll(at + 2, c, places, "artifact", onFail)

(* clear_directory_unlocked                                                *)
ClearDirectory(at, c, places, onFail) ==
    RemoveAll(at, c, places, "artifact", onFail) \cup RemoveAll(at + 2, c, places, "license", onFail)

(* Bugs: the directory that hides the other is cleared first, or alone     *)
ClearDurableFirst(at, c) ==
    ClearDirectory(at, c, <<"current", "old">>, "abort")
    \cup ClearDirectory(at + 4, c, <<"fallback">>, "abort")
ClearDurableOnly(at, c) == ClearDirectory(at, c, <<"current", "old">>, "abort")

(* clear_unlocked                                                          *)
ClearAll(at, c) ==
    ClearDirectory(at, c, <<"fallback">>, "abort")
    \cup ClearDirectory(at + 4, c, <<"current", "old">>, "abort")

SetLicense(at, rec) == {Write(at, At("product", "current", "license"), rec, "set", "abort")}
SetArtifact(at, id) ==
    {Write(at, At("product", "current", "artifact"), Artifact(id), "set", "abort")}

-----------------------------------------------------------------------------
(* Transactions, as the file operations they consist of                    *)

CommitSteps(id) ==
    SetLicense(1, [id |-> id, verdict |-> "granted"])
    \cup RemoveKey(2, "product", "artifact", "skip")
    \cup ClearDirectory(5, "product", <<"fallback">>, "skip")

ValidateSteps(id, v) ==
    Fetch(1, "product", "license", "skip")
    \cup IF License.id # id \/ (v = "offgranted" /\ License.verdict = "denied") THEN {}
         ELSE SetLicense(3, [id |-> id, verdict |-> v])

(* The tombstone may fail, the cleanup goes on                             *)
Tombstone(at, rec) ==
    IF rec.verdict = "none" THEN {}
    ELSE {Write(at, At("product", "current", "license"), [rec EXCEPT !.verdict = "refused"],
                "tombstone", "skip")}

InvalidateSteps(id) ==
    Fetch(1, "product", "license", "skip")
    \cup IF License.id # id THEN {} ELSE Tombstone(3, License) \cup ClearAll(4, "product")

ReadSteps ==
    Fetch(1, "product", "license", "skip") \cup Fetch(3, "product", "artifact", "skip")

(* Bug: the commit marker of a migration is written first                  *)
CopyLicenseFirst(rec, art) == SetLicense(5, rec) \cup IF art = None THEN {} ELSE SetArtifact(6, art)
CopyLicenseLast(rec, art) == (IF art = None THEN {} ELSE SetArtifact(5, art)) \cup SetLicense(6, rec)

(* migrate_from: supporting records, then the license, then the cleanup    *)
MigrateSteps ==
    Fetch(1, "generic", "license", "abort") \cup Fetch(3, "generic", "artifact", "skip")
    \cup CopyLicenseLast(Read("generic", "license"), Read("generic", "artifact").id)
    \cup ClearAll(7, "generic")

Migrates == ~Present("product", "license") /\ Read("generic", "license") # Absent
Unreadable(c) == Present(c, "license") /\ Read(c, "license") = Absent

(* try_new                                                                 *)
StartSteps ==
    IF Migrates THEN MigrateSteps \cup SetLicense(16, StartupRecord(Read("generic", "license")))
    ELSE Fetch(1, "product", "license", "abort")
         \cup IF License = Absent THEN {} ELSE SetLicense(3, StartupRecord(License))

-----------------------------------------------------------------------------
(* Requests.  The client asks only for what it has checked before: an      *)
(* artifact is stored for the cached activation, an offline grant is not   *)
(* asked for over a recorded denial.  The server signs no artifact for an  *)
(* activation it has denied.                                               *)

(* Removing what is not there is no operation                              *)
Needed(steps) == {s \in steps :
    \/ s.content # Absent \/ file[s.slot] # Absent
    \/ \E t \in steps : t.slot = s.slot /\ t.content # Absent}

Ready == up = "up" /\ op.do = "none" /\ counts.ops < MaxOps
Request(do, id, verdict, steps) ==
    /\ Ready
    /\ op' = [do |-> do, id |-> id, verdict |-> verdict]
    /\ todo' = Needed(steps)
    /\ counts' = [counts EXCEPT !.ops = @ + 1]
    /\ gone' = (gone /\ do # "activate")
    /\ UNCHANGED <<file, up, failed, origin, denied, halfway>>

CommitActivationFiles(id) == Request("activate", id, "none", CommitSteps(id))
UpdateValidationFiles(id) == \E v \in {"granted", "denied", "refused", "offgranted"} :
    /\ v = "offgranted" => License.verdict \notin OnlineDenials
    /\ Request("validate", id, v, ValidateSteps(id, v))
InvalidateFiles(id) == Request("invalidate", id, "none", InvalidateSteps(id))
ClearFiles == Request("clear", None, "none", ClearAll(1, "product"))
StoreArtifactFiles(id) ==
    /\ License.id = id /\ id \notin denied
    /\ Request("store_artifact", id, "none", SetArtifact(1, id))
ClearArtifactFiles ==
    Request("clear_artifacts", None, "none", RemoveKey(1, "product", "artifact", "abort"))
ReadFiles == Request("read", None, "none", ReadSteps)

(* A launch fails at once when the record cannot be read                   *)
Start ==
    /\ up = "down" /\ op.do = "none"
    /\ ~Unreadable("product")
    /\ ~Present("product", "license") => ~Unreadable("generic")
    /\ up' = "starting"
    /\ op' = [do |-> "start", id |-> None, verdict |-> "none"]
    /\ todo' = Needed(StartSteps)
    /\ UNCHANGED <<file, failed, origin, counts, denied, gone, halfway>>

-----------------------------------------------------------------------------
(* File operations as they happen                                          *)

IsNext(s) == \A t \in todo : s.at <= t.at
IsNoop(s) == s.content = Absent /\ file[s.slot] = Absent
Applied(s) == [file EXCEPT ![s.slot] = s.content]

(* What the server has said is recorded once the record is on disk; to     *)
(* move a record to its new name says nothing                              *)
Recorded(s) ==
    LET says == s.group \in {"set", "tombstone"} /\ op.do \in {"activate", "validate", "invalidate"}
    IN  IF says /\ s.content.verdict \in OnlineDenials THEN denied \cup {s.content.id}
        ELSE IF says /\ s.content.verdict = "granted" THEN denied \ {s.content.id}
        ELSE denied

Done == \E s \in todo :
    /\ IsNext(s)
    /\ file' = Applied(s) /\ denied' = Recorded(s)
    /\ todo' = todo \ {s}
    /\ UNCHANGED <<up, op, failed, origin, counts, gone, halfway>>

(* atomic_write_private, remove_cache_file: the change may have happened   *)
(* before the failure (the directory could not be synchronised)            *)
Fails == \E s \in todo :
    /\ Faults /\ counts.failures < MaxFailures
    /\ IsNext(s) /\ ~IsNoop(s)
    /\ counts' = [counts EXCEPT !.failures = @ + 1]
    /\ \/ UNCHANGED <<file, denied>>
       \/ file' = Applied(s) /\ denied' = Recorded(s)
    /\ failed' = (s.onFail = "abort")
    /\ todo' = IF s.onFail = "abort" THEN {} ELSE {t \in todo \ {s} : t.group # s.group}
    /\ UNCHANGED <<up, op, origin, gone, halfway>>

(* Between the commit of a migration and the end of its cleanup            *)
Migrated == op.do = "start" /\ License # Absent /\ Read("generic", "license") # Absent

(* A refused transaction on another activation clears nothing              *)
Complete ==
    /\ op.do # "none" /\ todo = {}
    /\ op' = NoOp /\ failed' = FALSE
    /\ up' = IF op.do = "start" THEN IF failed THEN "down" ELSE "up" ELSE up
    /\ gone' = \/ gone
               \/ op.do \in {"clear", "invalidate"} /\ ~failed /\ ~Present("product", "license")
    /\ halfway' = (halfway \/ (failed /\ Migrated))
    /\ UNCHANGED <<file, todo, origin, counts, denied>>

Crash ==
    /\ Crashes /\ counts.crashes < MaxCrashes /\ up # "down"
    /\ counts' = [counts EXCEPT !.crashes = @ + 1]
    /\ up' = "down" /\ op' = NoOp /\ todo' = {} /\ failed' = FALSE
    /\ halfway' = (halfway \/ Migrated)
    /\ UNCHANGED <<file, origin, denied, gone>>

(* A file is damaged from outside                                          *)
Damage(k) ==
    /\ counts.damage < MaxDamage /\ origin # "fresh" /\ op.do = "none"
    /\ file[At("product", "current", k)] # Absent
    /\ file' = [file EXCEPT ![At("product", "current", k)] = Corrupt]
    /\ counts' = [counts EXCEPT !.damage = @ + 1]
    /\ UNCHANGED <<up, op, todo, failed, origin, denied, gone, halfway>>

Next ==
    \/ Start \/ Done \/ Fails \/ Complete \/ Crash
    \/ ClearFiles \/ ClearArtifactFiles \/ ReadFiles
    \/ \E id \in Ids : \/ CommitActivationFiles(id) \/ UpdateValidationFiles(id)
                       \/ InvalidateFiles(id) \/ StoreArtifactFiles(id)
    \/ \E k \in Keys : Damage(k)

Spec == Init /\ [][Next]_vars

-----------------------------------------------------------------------------
(* Properties                                                              *)

Contents == LicenseRecord \cup {Absent, Corrupt}

TypeOK ==
    /\ file \in [Slots -> Contents]
    /\ up \in {"down", "starting", "up"}
    /\ \A s \in todo : s.slot \in Slots /\ s.content \in Contents
    /\ denied \subseteq Ids
    /\ up = "down" => todo = {}

(* "A partial cleanup cannot expose an older signed artifact without the   *)
(* stronger denial that blocks it" (cache.rs, clear_directory_unlocked):   *)
(* after any failure or crash, whatever earlier releases left behind, a    *)
(* reader that sees a denied activation and its artifact sees the denial.  *)
DenialShields ==
    ~halfway /\ License.id \in denied /\ ArtifactId = License.id =>
        License.verdict \in OnlineDenials

(* A reset or revocation that has completed stays so over every relaunch:  *)
(* no earlier file comes back as the license until the next activation     *)
ResetIsFinal == gone /\ ~halfway => License = Absent

(* "Copy supporting records first and the license commit marker last"      *)
(* (cache.rs, migrate_from): when a migrated license appears, so has its   *)
(* artifact                                                                *)
MigrationIsWhole == [][
    License = Absent /\ License' # Absent /\ Read("generic", "license") # Absent /\ op.do = "start"
        => ArtifactId' = Read("generic", "artifact").id]_vars

(* Moving a value to its new name never loses it: reading and launching    *)
(* leave the activation and the artifact a reader sees                     *)
NothingLost == [][
    op.do \in {"read", "start"} /\ op' = op =>
        /\ License # Absent => License'.id = License.id
        /\ ArtifactId # None => ArtifactId' = ArtifactId]_vars

(* For an installation without files of earlier releases, the file         *)
(* operations implement the transactions of LicenseCache with their        *)
(* failures, which is what the client modules take them for                *)
Tx == INSTANCE CacheTransactions WITH
    Faults <- TRUE,
    disk <- IF origin = "fresh" THEN [license |-> License, art |-> ArtifactId] ELSE EmptyCache,
    op <- IF origin = "fresh" THEN op ELSE NoOp
ImplementsTransactions == Tx!TSpec

-----------------------------------------------------------------------------
(* What the code does not keep                                             *)

(* "Prevent a later deactivation/reset of the product-scoped cache from    *)
(* resurrecting the pre-migration generic record on the next launch"       *)
(* (cache.rs, migrate_from)                                                *)
MigratedStaysGone == gone => License = Absent
=============================================================================
