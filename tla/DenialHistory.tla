----------------------------- MODULE DenialHistory -----------------------------
(***************************************************************************)
(* Which activations an offline artifact must not revive: the history      *)
(* variable barred holds every activation that the cache has recorded an   *)
(* online or local denial for, or has dropped, since the last time it      *)
(* recorded an online grant for it.                                        *)
(***************************************************************************)
EXTENDS LicenseClient

VARIABLE barred

(* Judged on the cache alone, before and after the step                    *)
Bar ==
    LET was == disk.license   now == disk'.license
    IN  barred' = IF now = was THEN barred
                  ELSE {id \in Ids :
                          /\ now # [id |-> id, verdict |-> "granted"]
                          /\ \/ id \in barred
                             \/ id = was.id /\ id # now.id
                             \/ id = now.id /\ now.verdict \in OnlineDenials}

DInit == Init /\ barred = {}
DNext == Next /\ Bar
dvars == <<vars, barred>>
DSpec == DInit /\ [][DNext]_dvars

-----------------------------------------------------------------------------
(* "An online/local denial always outranks an older signed artifact"       *)
(* (crates/licenseseat/README.md): a signed artifact never establishes a   *)
(* grant for an activation that is barred, whatever deletions failed and   *)
(* however often the process was relaunched.                               *)
DenialOutranksArtifact ==
    [][\A i \in Instances :
         runtime'[i] # runtime[i] /\ runtime'[i].verdict = "offgranted"
         => runtime'[i].id \notin barred]_dvars

(* "A recorded authoritative denial outranks any offline verdict; only an  *)
(* online response may replace it" (cache.rs): an offline verdict about    *)
(* the same activation never does.                                         *)
OfflineNeverReplacesDenial ==
    [][disk.license.verdict = "denied" /\ disk'.license.id = disk.license.id
         => disk'.license.verdict \notin {"offgranted", "offrefused"}]_dvars

(* ... and neither does the launch of another process (try_new).           *)
StartupKeepsDenial ==
    [][disk.license.verdict = "denied" /\ disk'.license.id = disk.license.id
         => disk'.license.verdict # "none"]_dvars

(* "Reset SDK state (clears cache and stops timers)" (client.rs): every    *)
(* periodic loop that validates or heartbeats has a license to do it       *)
(* for, and none outlives a denial of that license: each way a license     *)
(* ends or is denied stops the loops, also when its cache write fails.     *)
NoTimersWithoutLicense ==
    \A i \in Instances : "timers" \in tasks[i] => Current(i) # None /\ runtime[i].verdict # "denied"
=============================================================================
