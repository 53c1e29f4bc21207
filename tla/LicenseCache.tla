----------------------------- MODULE LicenseCache -----------------------------
(***************************************************************************)
(* The durable license cache (cache.rs): one directory shared by every SDK *)
(* instance of one product on one machine.  Every public method holds the  *)
(* cross-process I/O lock from its first read to its last write, so a      *)
(* method is one atomic transaction, written here as the SET of outcomes   *)
(* it may have on a cache content d.                                       *)
(*                                                                         *)
(* What is kept of the records: the activation identity of the license     *)
(* record, the class of its recorded verdict, and the activation a signed  *)
(* offline artifact is bound to.  All identities belong to one license key *)
(* on one device, the case in which only the activation id tells them      *)
(* apart.  The clock watermark is not part of this module.                 *)
(***************************************************************************)
CONSTANTS
    Ids,     \* activation identities the server may issue
    None,    \* absent record
    Faults   \* BOOLEAN: may a file-system operation fail

ASSUME NoneNotAnId == None \notin Ids
ASSUME FaultsIsBool == Faults \in BOOLEAN

(***************************************************************************)
(* Verdict classes of a validation result.  "none": no result and no       *)
(* response metadata; "granted"/"offgranted": valid, online/offline;       *)
(* "denied": an online denial with one of the authoritative denial codes   *)
(* (the grant is kept for later); "refused": any other online or local     *)
(* denial, tombstones included; "offrefused": invalid, offline.            *)
(***************************************************************************)
Verdicts == {"none", "granted", "offgranted", "denied", "refused", "offrefused"}
OnlineDenials == {"denied", "refused"}

LicenseRecord == [id : Ids, verdict : Verdicts]
NoRecord == [id |-> None, verdict |-> "none"]
CacheContent == [license : LicenseRecord \cup {NoRecord}, art : Ids \cup {None}]
EmptyCache == [license |-> NoRecord, art |-> None]

(* Bug: any cached record will do                                          *)
MatchesAny(d, id) == d.license.id # None /\ id # None

(* matches_identity                                                        *)
Matches(d, id) == d.license.id = id /\ id # None

-----------------------------------------------------------------------------
Outcome(d, r) == [disk |-> d, res |-> r]
Ok(S)    == {Outcome(d, "ok") : d \in S}
Failed(S) == IF Faults THEN {Outcome(d, "err") : d \in S} ELSE {}
Stale(d) == {Outcome(d, "stale")}

(* An atomic replace: when it fails, the rename may have happened (only    *)
(* the directory sync after it failed) or not.                             *)
StoreLicense(d, rec) ==
    LET written == [d EXCEPT !.license = rec]
    IN  Ok({written}) \cup Failed({d, written})

SetMachineFile(d, id) ==
    LET written == [d EXCEPT !.art = id]
    IN  Ok({written}) \cup Failed({d, written})

ClearOfflineAssets(d) ==
    LET bare == [d EXCEPT !.art = None]
    IN  Ok({bare}) \cup Failed({d, bare})

(* Artifacts go first and the license record last, so a partial failure    *)
(* never leaves an artifact without the record that may be blocking it.    *)
Clear(d) ==
    LET bare == [d EXCEPT !.art = None]
    IN  Ok({EmptyCache}) \cup Failed({d, bare, EmptyCache})

(* The license record is the commit marker; removing the stale artifact    *)
(* after it is best effort and its failure is only a warning.              *)
CommitActivation(d, id) ==
    LET marker == [d EXCEPT !.license = [id |-> id, verdict |-> "granted"]]
        clean  == [marker EXCEPT !.art = None]
    IN  Ok({clean} \cup IF Faults THEN {marker} ELSE {}) \cup Failed({d, marker})

(* Conditional on the identity still being cached; an offline grant never  *)
(* replaces a recorded authoritative denial.                               *)
UpdateValidation(d, id, v) ==
    IF \/ ~Matches(d, id)
       \/ v = "offgranted" /\ d.license.verdict = "denied"
    THEN Stale(d)
    ELSE StoreLicense(d, [id |-> id, verdict |-> v])

(* The tombstone cannot be written when the record has no response         *)
(* metadata, or when the write fails.                                      *)
MarkInvalid(d) ==
    LET tombstone == [d EXCEPT !.license.verdict = "refused"]
    IN  IF d.license.verdict = "none" THEN {d}
        ELSE {tombstone} \cup IF Faults THEN {d} ELSE {}

(* Bug: the identity is not compared under the lock                        *)
InvalidateAndClearAny(d, id) ==
    IF id = None THEN Stale(d) ELSE UNION {Clear(marked) : marked \in MarkInvalid(d)}

(* A denial is persisted before anything is deleted; a failed mark does    *)
(* not stop the cleanup and is reported only when the cleanup fails too.   *)
InvalidateAndClear(d, id) ==
    IF ~Matches(d, id) THEN Stale(d)
    ELSE UNION {Clear(marked) : marked \in MarkInvalid(d)}

(* Bugs: a fresh process forgets the denial, or the identity               *)
StartupForgetsDenial(rec) == [rec EXCEPT !.verdict = "none"]
StartupForgetsId(rec) == [rec EXCEPT !.id = None]

(* A fresh process keeps the identity and a recorded denial of the license *)
(* it finds, and discards every positive decision.                         *)
StartupRecord(rec) ==
    IF rec.verdict \in {"granted", "offgranted"}
    THEN [rec EXCEPT !.verdict = "none"]
    ELSE rec
=============================================================================
