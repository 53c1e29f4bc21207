--------------------------- MODULE CacheTransactions ---------------------------
(***************************************************************************)
(* What the license cache promises its callers: a transaction on the       *)
(* record and the artifact that readers see.  While a transaction runs,    *)
(* what readers would see after a crash changes only into one of the       *)
(* outcomes LicenseCache gives for it, those of its failures included; a   *)
(* transaction may end, or its process die, at any point.  CacheFiles      *)
(* implements this with single file operations.                            *)
(***************************************************************************)
EXTENDS LicenseCache

VARIABLES
    disk,  \* what a reader sees: record and artifact
    op     \* the transaction under way

Kinds == {"activate", "validate", "invalidate", "clear", "store_artifact", "clear_artifacts",
          "read", "start"}
Requests == [do : Kinds, id : Ids \cup {None}, verdict : Verdicts]
NoOp == [do |-> "none", id |-> None, verdict |-> "none"]

Outcomes(r, d) ==
    CASE r.do = "activate"        -> CommitActivation(d, r.id)
      [] r.do = "validate"        -> UpdateValidation(d, r.id, r.verdict)
      [] r.do = "invalidate"      -> InvalidateAndClear(d, r.id)
      [] r.do = "clear"           -> Clear(d)
      [] r.do = "store_artifact"  -> SetMachineFile(d, r.id)
      [] r.do = "clear_artifacts" -> ClearOfflineAssets(d)
      [] r.do = "start" /\ d.license # NoRecord -> StoreLicense(d, StartupRecord(d.license))
      [] OTHER -> Ok({d})

TInit == disk = EmptyCache /\ op = NoOp

Begin == op = NoOp /\ op' \in Requests /\ UNCHANGED disk
Change ==
    /\ op # NoOp
    /\ \E o \in Outcomes(op, disk) : disk' = o.disk
    /\ UNCHANGED op
End == op # NoOp /\ op' = NoOp /\ UNCHANGED disk

TNext == Begin \/ Change \/ End
TSpec == TInit /\ [][TNext]_<<disk, op>>
=============================================================================
