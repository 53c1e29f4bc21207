------------------------------- MODULE Requests -------------------------------
(***************************************************************************)
(* A request of the SDK client to the licensing API (client.rs, error.rs): *)
(* its attempts and retries, the connectivity flag they leave, and what    *)
(* the client makes of the answer it is left with.  The answer may be the  *)
(* server's or an intermediary's, and the server may carry out a request   *)
(* whose answer is lost, now or later.                                     *)
(*                                                                         *)
(* One license, one installation.  Requests about the license follow one   *)
(* another (LicenseClient has their overlaps); health checks overlap them. *)
(* An answer is an HTTP status, an error code and, for status 200, a body, *)
(* of which what the checks of the client tell apart is kept; status 0 is  *)
(* a transport failure.                                                    *)
(***************************************************************************)
EXTENDS Naturals

CONSTANTS
    Kinds,      \* license requests made in this configuration
    MaxRetries, \* max_retries
    Modes,      \* the offline fallback modes configured
    ClockRight, \* BOOLEAN: does the local clock always agree with the server's
    BareGone    \* BOOLEAN: may an intermediary answer 410 without a code

AllKinds == {"activate", "validate", "heartbeat", "deactivate"}
ASSUME KindsType == Kinds \subseteq AllKinds
ASSUME RetriesType == MaxRetries \in Nat
ASSUME ModesType == Modes \subseteq {"network_only", "always"}
ASSUME ClockIsBool == ClockRight \in BOOLEAN
ASSUME BareGoneIsBool == BareGone \in BOOLEAN

VARIABLES
    mode,     \* configuration: offline_fallback_mode
    online,   \* is_online
    probing,  \* the support tasks run
    grant,    \* what the client holds: see Grants
    request,  \* the requests in flight: about the license, and health
    net,      \* environment: does the API answer by itself
    seat,     \* server: this installation holds a seat
    license,  \* server: "good", "denied" or "revoked"
    late,     \* environment: requests still under way to the server
    said,     \* history: the server's last decision that reached the client
    origin    \* history: who answered the last license request, when it has been answered

client == <<mode, online, probing, grant>>
server == <<net, seat, license, late>>
vars == <<client, request, server, said, origin>>

Channels == {"license", "health"}
Idle == [kind |-> "none", pc |-> "idle", attempt |-> 0]
Grants == {"none", "online", "offline", "refused", "denied"}
Granted == grant \in {"online", "offline"}

Init ==
    /\ mode \in Modes
    /\ online = FALSE /\ probing = FALSE /\ grant = "none"
    /\ request = [c \in Channels |-> Idle]
    /\ net \in {"up", "down"} /\ seat = FALSE /\ license = "good" /\ late = {}
    /\ said = "nothing" /\ origin = "none"

-----------------------------------------------------------------------------
(* Answers                                                                 *)

(* What a body of status 200 says: well formed; about this request, its    *)
(* license, product and installation; a positive decision; an active       *)
(* license, within its dates by the local clock; with proof of the seat    *)
Sound == [schema |-> TRUE, ours |-> TRUE, valid |-> TRUE,
          active |-> TRUE, timely |-> TRUE, proven |-> TRUE]
Refused == [Sound EXCEPT !.valid = FALSE, !.active = FALSE]
Inactive == [Sound EXCEPT !.active = FALSE]
Granting == {[Sound EXCEPT !.timely = t] : t \in {TRUE, ClockRight}}
NoBody == [Sound EXCEPT !.schema = FALSE, !.ours = FALSE]

Answer(status, code) == [status |-> status, code |-> code, body |-> NoBody, cut |-> FALSE]
Accepted(body, code) == [status |-> 200, code |-> code, body |-> body, cut |-> FALSE]
Lost == Answer(0, "none")                  \* no answer within the timeout
Cut == [Lost EXCEPT !.cut = TRUE]          \* status received, body not

Denial == "not_entitled"
Revocation == "license_revoked"
NoActivation == "activation_not_found"

(* What the server answers by itself, after it has carried out the request *)
ServerAnswers(kind) ==
    IF kind \in {"health", "deactivate"} THEN {Accepted(Sound, "none")}
    ELSE CASE license = "denied" -> {Answer(403, Denial), Answer(501, Denial)}
                \cup IF kind = "validate" THEN {Accepted(Refused, Denial)} ELSE {}
           [] license = "revoked" -> {Answer(422, Revocation), Answer(410, Revocation)}
                \cup IF kind = "validate" THEN {Accepted(Refused, Revocation)}
                     ELSE IF kind = "heartbeat" THEN {Accepted(Inactive, "none")} ELSE {}
           [] license = "good" /\ (kind = "activate" \/ seat) ->
                {Accepted(b, "none") : b \in Granting}
           [] OTHER -> {Answer(404, NoActivation), Answer(422, NoActivation)}
RepeatedDeactivation == {Answer(404, NoActivation), Answer(422, "already_deactivated"), Answer(410, "none")}

(* What an intermediary or a regressed server may answer.  deactivate_key  *)
(* takes any 410 for the end of the seat                                   *)
Malformed == [Sound EXCEPT !.schema = FALSE]
Foreign == [Sound EXCEPT !.ours = FALSE]
Unproven == [Sound EXCEPT !.proven = FALSE]
OtherBodies(kind) ==
    {Malformed, Foreign} \cup IF kind = "validate" THEN {Inactive, Unproven} ELSE {}
OtherAnswers(kind) ==
    {Answer(s, "none") : s \in {401, 404, 408, 422, 429, 503}}
    \cup {Answer(s, Revocation) : s \in {401, 429, 503}}
    \cup IF BareGone THEN {Answer(410, "none")} ELSE {}
    \cup {Accepted(b, "none") : b \in OtherBodies(kind)}
    \cup {Cut}

(* What the server does                                                    *)
SeatAfter(kind) == CASE kind = "activate" /\ license = "good" -> TRUE
                     [] kind = "deactivate" -> FALSE
                     [] OTHER -> seat

-----------------------------------------------------------------------------
(* Which answers of status 200 the client believes; NoBody is none         *)

(* license_response_is_currently_active                                    *)
CurrentlyActive(b) == b.active /\ b.timely

(* verify_activation_response, verify_heartbeat_response                   *)
ActivationBelieved(b) == b.schema /\ b.ours /\ CurrentlyActive(b)
HeartbeatBelieved(b) == b.schema /\ b.ours /\ CurrentlyActive(b)

(* verify_validation_response                                              *)
ValidationBelieved(b) == b.schema /\ b.ours /\ (b.valid => CurrentlyActive(b) /\ b.proven)

(* verify_deactivation_response                                            *)
DeactivationBelieved(b) == b.schema /\ b.ours

(* validate_health_response                                                *)
HealthBelieved(b) == b.schema /\ b.ours

(* heartbeat_key: what the license has come to, by the local clock         *)
ReportsInactive(b) == b.ours /\ ~CurrentlyActive(b)

-----------------------------------------------------------------------------
(* What the client makes of an answer                                      *)

(* Bug: only the status class decides                                      *)
DenialByStatus(a) == a.status \in 400..499 /\ a.code = Denial

(* is_authoritative_denial_error                                           *)
IsDenial(a) == a.status \notin {0, 200} /\ a.code = Denial

(* Error::is_network_error, is_business_error                              *)
IsNetworkError(a) == a.status \in {0, 408} \/ a.status \in 500..599
IsBusinessError(a) == a.status \in 400..499 /\ a.status \notin {401, 429}

(* Bugs: any status will do; a lost activation is not looked for           *)
InvalidationByCode(a) == a.status \notin {0, 200} /\ a.code \in {Revocation, NoActivation}
RevocationOnly(a) == a.status \in {404, 410, 422} /\ a.code = Revocation

(* is_authoritative_invalidation_error                                     *)
IsInvalidation(a) == a.status \in {404, 410, 422} /\ a.code \in {Revocation, NoActivation}

(* is_retryable_request_error; a body cut off is not retried               *)
IsRetryable(a) ==
    /\ ~IsDenial(a) /\ ~a.cut
    /\ a.status \in {0, 408, 429} \cup (500..599)

(* should_fallback_offline                                                 *)
FallsBack(a) == ~IsDenial(a) /\ (IsNetworkError(a) \/ (mode = "always" /\ a.status = 429))

(* Bug: a deactivation that was already carried out is an error            *)
NeverIdempotent(a) == FALSE

(* deactivate_key: answers that mean the seat is gone                      *)
IsIdempotent(a) ==
    \/ a.status = 404 /\ a.code \in {NoActivation, "already_deactivated"}
    \/ a.status = 410
    \/ a.status = 422 /\ a.code \in {"already_deactivated", Revocation}

(* request: the flag is left by the last attempt                           *)
Reached(a) == a.status # 0 /\ a.status < 500

Become(g) == grant' = g
Keep == UNCHANGED <<grant, probing>>
StopTasks == probing' = FALSE
StartSupport == probing' = TRUE

(* validate_offline: a recorded denial stands; otherwise the artifact, if  *)
(* there is one, is accepted or refused                                    *)
FallBack ==
    /\ StartSupport
    /\ IF grant = "denied" THEN UNCHANGED grant
       ELSE grant' \in {grant, "offline", "refused"}

(* validate_key.  Bug: probing only after a network error                  *)
FallBackWithoutProbe(a) ==
    /\ probing' = (probing \/ IsNetworkError(a))
    /\ IF grant = "denied" THEN UNCHANGED grant ELSE grant' \in {grant, "offline", "refused"}
Unavailable(a) == FallBack

Validated(a) ==
    \/ ValidationBelieved(a.body) /\ a.body.valid /\ Become("online") /\ UNCHANGED probing
    \/ /\ ValidationBelieved(a.body) /\ ~a.body.valid
       /\ Become(IF a.code = Revocation THEN "none" ELSE "denied") /\ StopTasks
    \/ a.status = 200 /\ ~ValidationBelieved(a.body) /\ Keep
    \/ IsDenial(a) /\ Become("denied") /\ StopTasks
    \/ IsInvalidation(a) /\ Become("none") /\ StopTasks
    \/ /\ a.status # 200 /\ ~IsDenial(a) /\ ~IsInvalidation(a)
       /\ IF ~IsBusinessError(a) /\ FallsBack(a) THEN Unavailable(a) ELSE Keep

(* heartbeat_key: an inactive license of this identity ends the grant      *)
HeartbeatAnswered(a) ==
    \/ HeartbeatBelieved(a.body) /\ Become("online") /\ UNCHANGED probing
    \/ ReportsInactive(a.body) /\ Become("none") /\ StopTasks
    \/ /\ a.status = 200 /\ ~HeartbeatBelieved(a.body) /\ ~ReportsInactive(a.body)
       /\ Keep
    \/ IsDenial(a) /\ Become("denied") /\ StopTasks
    \/ IsInvalidation(a) /\ Become("none") /\ StopTasks
    \/ /\ a.status # 200 /\ ~IsDenial(a) /\ ~IsInvalidation(a)
       /\ IF IsNetworkError(a) THEN StartSupport ELSE UNCHANGED probing
       /\ UNCHANGED grant

Deactivated(a) ==
    IF DeactivationBelieved(a.body) \/ IsIdempotent(a)
    THEN Become("none") /\ StopTasks ELSE Keep

(* activate: a denial concerns the current activation, if there is one     *)
Activated(a) ==
    \/ ActivationBelieved(a.body) /\ Become("online") /\ StartSupport
    \/ IsDenial(a) /\ grant # "none" /\ Become("denied") /\ StopTasks
    \/ ~ActivationBelieved(a.body) /\ ~(IsDenial(a) /\ grant # "none") /\ Keep

Handle(kind, a) ==
    \/ kind = "validate" /\ Validated(a)
    \/ kind = "heartbeat" /\ HeartbeatAnswered(a)
    \/ kind = "deactivate" /\ Deactivated(a)
    \/ kind = "activate" /\ Activated(a)
    \/ kind = "health" /\ (IF IsNetworkError(a) THEN StartSupport ELSE UNCHANGED probing)
                       /\ UNCHANGED grant

-----------------------------------------------------------------------------
(* Requests                                                                *)

Unanswered(c) == IF c = "license" THEN "none" ELSE origin

Begin(c, kind) ==
    /\ request[c].pc = "idle"
    /\ request' = [request EXCEPT ![c] = [kind |-> kind, pc |-> "sending", attempt |-> 0]]
    /\ origin' = Unanswered(c)
    /\ UNCHANGED <<client, server, said>>

(* The client manages the license it asks about, or activates it           *)
BeginLicense(kind) ==
    /\ kind \in Kinds
    /\ kind # "activate" => grant # "none"
    /\ Begin("license", kind)
BeginHealth == Begin("health", "health")

(* What the answer says about the license, if it is the server's           *)
Decision(kind, a) ==
    IF kind \in {"health", "deactivate"} THEN said
    ELSE IF a.status = 200 /\ a.body.active THEN "granted"
    ELSE IF a.code = Denial /\ grant # "none" THEN "denied" ELSE said

(* Bug: attempts are not counted                                           *)
SameAttempt(n) == n
NextAttempt(n) == n + 1

RetriesLeft(n) == n < MaxRetries

(* The end of an attempt: another one after a delay, or the last word      *)
Conclude(c, a, who) == LET r == request[c] IN
    /\ origin' = IF c = "license" THEN who ELSE origin
    /\ said' = IF who = "server" THEN Decision(r.kind, a) ELSE said
    /\ UNCHANGED mode
    /\ IF IsRetryable(a) /\ RetriesLeft(r.attempt)
       THEN /\ request' = [request EXCEPT ![c].pc = "waiting"]
            /\ UNCHANGED <<online, grant, probing>>
       ELSE /\ request' = [request EXCEPT ![c] = Idle]
            /\ online' = IF r.kind = "health" /\ a.status = 200 THEN HealthBelieved(a.body) ELSE Reached(a)
            /\ Handle(r.kind, a)

(* The server carries the request out and its answer arrives               *)
Answered(c) == LET r == request[c] IN
    /\ r.pc = "sending" /\ net = "up"
    /\ seat' = SeatAfter(r.kind)
    /\ \E a \in IF r.kind = "deactivate" /\ ~seat THEN RepeatedDeactivation
                ELSE ServerAnswers(r.kind) : Conclude(c, a, "server")
    /\ UNCHANGED <<net, license, late>>

(* The answer is lost; the server has carried the request out, never does, *)
(* or does so later                                                        *)
NoAnswer(c) == LET r == request[c] IN
    /\ r.pc = "sending" /\ net = "down"
    /\ seat' \in {seat, SeatAfter(r.kind)}
    /\ late' \in {late, late \cup ({r.kind} \cap {"activate", "deactivate"})}
    /\ Conclude(c, Lost, "none")
    /\ UNCHANGED <<net, license>>

(* Someone else answers                                                    *)
Intercepted(c) ==
    /\ request[c].pc = "sending" /\ net = "down"
    /\ \E a \in OtherAnswers(request[c].kind) : Conclude(c, a, "other")
    /\ UNCHANGED server

Attempt(c) == Answered(c) \/ NoAnswer(c) \/ Intercepted(c)

(* bounded_retry_delay has passed                                          *)
Retry(c) ==
    /\ request[c].pc = "waiting"
    /\ request' = [request EXCEPT ![c].pc = "sending", ![c].attempt = NextAttempt(@)]
    /\ origin' = Unanswered(c)
    /\ UNCHANGED <<client, server, said>>

(* The caller drops the future                                             *)
Abandon(c) ==
    /\ request[c].pc # "idle"
    /\ request' = [request EXCEPT ![c] = Idle]
    /\ origin' = Unanswered(c)
    /\ UNCHANGED <<client, server, said>>

-----------------------------------------------------------------------------
(* The environment                                                         *)

NetChanges ==
    /\ net' = IF net = "up" THEN "down" ELSE "up"
    /\ UNCHANGED <<client, request, seat, license, late, said, origin>>

(* The publisher denies, revokes or releases; a revocation is final        *)
LicenseChanges ==
    /\ license # "revoked"
    /\ license' \in {"good", "denied", "revoked"} \ {license}
    /\ UNCHANGED <<client, request, net, seat, late, said, origin>>

SeatReleased ==
    /\ seat /\ seat' = FALSE
    /\ UNCHANGED <<client, request, net, license, late, said, origin>>

LateArrival == \E kind \in late :
    /\ late' = late \ {kind}
    /\ seat' = SeatAfter(kind)
    /\ UNCHANGED <<client, request, net, license, said, origin>>

Next ==
    \/ \E kind \in Kinds : BeginLicense(kind)
    \/ BeginHealth
    \/ \E c \in Channels : Attempt(c) \/ Retry(c) \/ Abandon(c)
    \/ NetChanges \/ LicenseChanges \/ SeatReleased \/ LateArrival

Spec == Init /\ [][Next]_vars

(* Every attempt has a timeout and every delay a bound, so that a request  *)
(* goes on; the auto-validation loop validates at every interval and does  *)
(* not drop its request.                                                   *)
AutoValidates == request["license"].kind = "validate" /\ Attempt("license")
Fairness ==
    /\ \A c \in Channels : WF_vars(Attempt(c)) /\ WF_vars(Retry(c))
    /\ SF_vars(BeginLicense("validate"))
    /\ SF_vars(AutoValidates)
FairSpec == Spec /\ Fairness

-----------------------------------------------------------------------------
(* Properties                                                              *)

TypeOK ==
    /\ mode \in Modes /\ online \in BOOLEAN /\ probing \in BOOLEAN /\ grant \in Grants
    /\ \A c \in Channels :
         /\ request[c].pc \in {"idle", "sending", "waiting"}
         /\ request[c].attempt \in 0..MaxRetries
    /\ net \in {"up", "down"} /\ seat \in BOOLEAN /\ license \in {"good", "denied", "revoked"}
    /\ late \subseteq {"activate", "deactivate"}
    /\ said \in {"nothing", "granted", "denied"}

(* "An authoritative denial is a decision, not a transient failure;        *)
(* retrying could replace it with a codeless 5xx that falls back to the    *)
(* offline grant" (client.rs): whatever attempts, retries and outages      *)
(* follow, the client grants nothing after a denial has reached it until   *)
(* the server grants again, and it grants online only on the server's word *)
DecisionStands ==
    /\ said = "denied" => ~Granted
    /\ grant = "online" => said = "granted"

(* "An intermediary, route mismatch, malformed request, or server          *)
(* regression must never erase locally verifiable state" (client.rs): a    *)
(* license is forgotten only when the server has ended it or its seat is   *)
(* gone, whatever of OtherAnswers is given to which attempt.  The code     *)
(* does not keep it if that can be a 410 without a code (BareGone) or the  *)
(* local clock can be wrong (~ClockRight).                                 *)
ErasedOnlyWhenOver == [][
    grant # "none" /\ grant' = "none" => ~seat' \/ license = "revoked"]_vars

(* A deactivation whose answer was lost and which is sent again still      *)
(* succeeds: once the server has answered, the license is forgotten.       *)
DeactivationHeals == [][
    request["license"].kind = "deactivate" /\ origin = "none" /\ origin' = "server"
        => grant' = "none"]_vars

(* "A fallback grant must keep probing for authoritative online state"     *)
(* (client.rs): whatever kind of failure let the client fall back.         *)
OfflineGrantProbes == grant = "offline" => probing

(* Every request comes to its end, whatever the network does.              *)
RequestsEnd == \A c \in Channels : request[c].pc # "idle" ~> request[c].pc = "idle"

(* A client whose seat was released, or whose deactivation or activation   *)
(* had an effect it was not told of, finds out: while the API answers and  *)
(* the seat stays gone, it does not go on granting.                        *)
SeatLossIsNoticed == <>[](net = "up" /\ ~seat /\ license = "good") => []<>~Granted

-----------------------------------------------------------------------------
(* What the code does not keep                                             *)

(* "NetworkOnly consults signed offline state only after transport         *)
(* failure, timeout, HTTP 408, or 5xx" (README.md of the crate): a         *)
(* validation that is left with one of these turns to the offline state,   *)
(* and so starts probing.                                                  *)
AvailabilityFallsBack == [][
    \A s \in {0, 408, 503} :
        request["license"].kind = "validate" /\ request'["license"] = Idle
            /\ Conclude("license", Answer(s, "none"), "other") => probing']_vars
=============================================================================
