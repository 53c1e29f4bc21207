----------------------------- MODULE Supersession -----------------------------
(***************************************************************************)
(* What the operation numbers of the client are for, stated without them:  *)
(* the history variable overtaken holds the callers whose license          *)
(* operation is still in flight although a newer one has begun in the same *)
(* instance, or the activation it was about has ended there.               *)
(***************************************************************************)
EXTENDS LicenseClient

VARIABLE overtaken

LicenseKinds == {"activate", "validate", "restore", "heartbeat", "deactivate"}

(* Caller q starts a license operation with local state                    *)
Begins(q) ==
    /\ call[q].pc = "idle"
    /\ call'[q].pc # "idle"
    /\ call'[q].kind \in LicenseKinds
    /\ call'[q].op # 0

(* The license of instance i ends.  Heartbeats are left out: what they end *)
(* outside the lock is the subject of a property of its own.               *)
Ends(i) ==
    /\ Current(i) # None
    /\ Current(i)' = None
    /\ \A q \in Procs : Acts(q) => call[q].kind # "heartbeat"

Overtake ==
    overtaken' = {p \in Procs :
        /\ call'[p].pc # "idle"
        /\ \/ p \in overtaken
           \/ call[p].pc # "idle" /\
              \/ \E q \in Procs : q # p /\ InstOf[q] = InstOf[p] /\ Begins(q)
              \/ Ends(InstOf[p])}

SInit == Init /\ overtaken = {}
SNext == Next /\ Overtake
svars == <<vars, overtaken>>
SSpec == SInit /\ [][SNext]_svars

-----------------------------------------------------------------------------
(* Why it works                                                            *)

(* Numbers are handed out once: no two requests in flight share one, and   *)
(* none is ahead of the sequence.                                          *)
NumbersUnique ==
    /\ \A i \in Instances : stateOp[i] <= opSeq[i]
    /\ \A p \in Procs : call[p].op <= opSeq[InstOf[p]]
    /\ \A p, q \in Procs :
         p # q /\ InstOf[p] = InstOf[q] /\ call[p].op # 0 => call[p].op # call[q].op

(* Between requests a caller holds nothing, and only a running instance    *)
(* has requests.                                                           *)
IdleHoldsNothing ==
    \A p \in Procs :
        /\ call[p].pc = "idle" => call[p] = Idle /\ p \notin overtaken
        /\ mode[InstOf[p]] # "up" => call[p].pc = "idle"

(* The heart of the matter: the number of an overtaken license operation   *)
(* is never again the newest one of its instance, so none of the commits   *)
(* that compare the two (ensure_current_license_operation) can pass.       *)
OvertakenIsNotNewest ==
    \A p \in overtaken :
        call[p].kind \in LicenseKinds /\ call[p].op # 0 => stateOp[InstOf[p]] # call[p].op

SupersessionInv == NumbersUnique /\ IdleHoldsNothing /\ OvertakenIsNotNewest

-----------------------------------------------------------------------------
LicenseStateKept(i) ==
    disk' = disk /\ runtime'[i] = runtime[i] /\ recovery'[i] = recovery[i]

(* The response of an overtaken operation changes neither the cache nor    *)
(* the decision in memory: "A delayed response cannot overwrite a newer    *)
(* state-changing operation" (crates/licenseseat/README.md).  The denial   *)
(* of an activation is the exception the code makes                        *)
(* (record_lifecycle_authoritative_denial).                                *)
StaleResponseIsInert ==
    [][\A p \in overtaken :
         /\ call[p].pc = "sent"
         /\ call[p].kind \in LicenseKinds
         /\ Acts(p)
         /\ mode'[InstOf[p]] = "up"
         => \/ LicenseStateKept(InstOf[p])
            \/ /\ call[p].kind = "activate"
               /\ call[p].target # None
               /\ runtime'[InstOf[p]] =
                    [id |-> call[p].target, verdict |-> "denied", source |-> "failclosed"]
      ]_svars

-----------------------------------------------------------------------------
(* What the code does not keep                                             *)

(* A deactivation cancels the activations that were pending when it began, *)
(* not one that began after it: the newest operation is not refused (the   *)
(* unlocked store of 0 in deactivate_key).                                 *)
CancelsOlderOnly ==
    [][\A p \in Procs :
         CancelActivation(p) => slot[InstOf[p]]["activation"] < call[p].op]_svars
=============================================================================
