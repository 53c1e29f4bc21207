---------------------------- MODULE OfflineArtifact ----------------------------
(***************************************************************************)
(* The signed artifacts an offline validation may grant on (offline.rs):   *)
(* machine files and legacy offline tokens, the moments at which they are  *)
(* accepted, and the deadline the client keeps after accepting one.        *)
(*                                                                         *)
(* Claims are in whole seconds; the expiries of the license and of its     *)
(* entitlements are in ticks, Tick to the second (a token's are whole      *)
(* seconds too).  Signatures, encryption and identity claims are one       *)
(* field: whether the artifact is genuine and about this activation.       *)
(***************************************************************************)
EXTENDS Integers

CONSTANTS
    Tick,        \* ticks per second
    MaxSkew,     \* max_clock_skew, in seconds
    MaxAge,      \* max_offline_days, in seconds; 0 for no bound
    MaxGrace,    \* MAX_MACHINE_GRACE_SECONDS
    MaxLifetime, \* MAX_TOKEN_LIFETIME_SECONDS
    Legacy       \* enable_legacy_offline_tokens

ASSUME TickType == Tick \in Nat \ {0}
ASSUME LimitsType == MaxSkew \in Nat /\ MaxAge \in Nat /\ MaxGrace \in Nat /\ MaxLifetime \in Nat
ASSUME LegacyType == Legacy \in BOOLEAN

Forms == {"machine", "token"}

(* Any artifact a directory may hold                                       *)
Artifact == [form : Forms, genuine : BOOLEAN, iat : Int, nbf : Int, exp : Int, grace : Int,
             expires : Nat, ents : SUBSET Nat]
NoArtifact == [form |-> "none", genuine |-> FALSE, iat |-> 0, nbf |-> 0, exp |-> 0, grace |-> 0,
               expires |-> 0, ents |-> {}]
Rejected == [NoArtifact EXCEPT !.form = "rejected"]

Seconds(t) == t \div Tick

-----------------------------------------------------------------------------
(* machine_file_time_claims_are_valid; the ttl of a file is exp - iat, and *)
(* safe_machine_payload bounds it                                          *)
TimeClaims(a) ==
    /\ a.iat > 0 /\ a.iat <= a.nbf /\ a.nbf < a.exp
    /\ a.exp - a.iat <= MaxLifetime
    /\ a.grace \in 0..MaxGrace

(* validate_token_envelope                                                 *)
TokenEnvelope(a) ==
    /\ a.iat > 0 /\ a.iat <= a.nbf /\ a.nbf < a.exp
    /\ a.exp - a.iat <= MaxLifetime
    /\ a.expires # 0 => Seconds(a.expires) > a.iat
    /\ \A e \in a.ents : Seconds(e) > a.iat

LicenseOver(a, now) == a.expires # 0 /\ now >= Seconds(a.expires)

(* max_offline_days                                                        *)
TooOld(a, now) == MaxAge > 0 /\ now - a.iat >= MaxAge

(* verify_machine_file                                                     *)
MachineFileAccepted(a, now) ==
    /\ a.genuine /\ TimeClaims(a)
    /\ a.iat <= now + MaxSkew /\ a.nbf <= now + MaxSkew
    /\ now < a.exp + a.grace
    /\ ~LicenseOver(a, now)
    /\ ~TooOld(a, now)

(* check_token_validity_at, verify_offline_token                           *)
TokenAccepted(a, now) ==
    /\ a.genuine /\ TokenEnvelope(a)
    /\ a.iat <= now + MaxSkew /\ now + MaxSkew >= a.nbf
    /\ now < a.exp
    /\ ~LicenseOver(a, now)
    /\ ~TooOld(a, now)

Accepted(a, now) ==
    \/ a.form = "machine" /\ MachineFileAccepted(a, now)
    \/ a.form = "token" /\ TokenAccepted(a, now)

(* Bug: the bound the host has set is not kept after the acceptance        *)
ArtifactDeadline(a, grace) == a.exp + grace

(* authorization_deadline                                                  *)
AuthorizationDeadline(a, grace) ==
    IF MaxAge = 0 \/ a.exp + grace <= a.iat + MaxAge THEN a.exp + grace ELSE a.iat + MaxAge

(* machine_file_authorization_deadline, offline_token_authorization_deadline *)
Deadline(a) == AuthorizationDeadline(a, IF a.form = "machine" THEN a.grace ELSE 0)

-----------------------------------------------------------------------------
(* perform_offline_validation: the machine file, then the legacy token;    *)
(* one that was looked at and not accepted is a verdict, none at all is    *)
(* not                                                                     *)
Verdict(file, token, now) ==
    IF Accepted(file, now) THEN file
    ELSE IF Legacy /\ Accepted(token, now) THEN token
    ELSE IF file = NoArtifact /\ ~(Legacy /\ token # NoArtifact) THEN NoArtifact
    ELSE Rejected
=============================================================================
