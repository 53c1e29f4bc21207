---------------------------- MODULE Requests_proof ----------------------------
(***************************************************************************)
(* What a request leaves the client with, for any number of retries, any   *)
(* kinds of requests and any fallback modes: a decision of the server      *)
(* stands, an intermediary erases nothing, an offline grant keeps probing, *)
(* a deactivation heals.                                                   *)
(***************************************************************************)
EXTENDS Requests, TLAPS

-----------------------------------------------------------------------------
(* The invariant                                                           *)

RequestKinds == AllKinds \cup {"health"}
RequestStates == [kind : RequestKinds \cup {"none"}, pc : {"idle", "sending", "waiting"},
                  attempt : 0..MaxRetries]

Types ==
    /\ mode \in Modes /\ online \in BOOLEAN /\ probing \in BOOLEAN /\ grant \in Grants
    /\ request \in [Channels -> RequestStates]
    /\ net \in {"up", "down"} /\ seat \in BOOLEAN /\ license \in {"good", "denied", "revoked"}
    /\ late \subseteq {"activate", "deactivate"}
    /\ said \in {"nothing", "granted", "denied"}

(* Each channel carries its own requests, and waits only for a retry that  *)
(* is left                                                                 *)
OwnChannel ==
    /\ \A c \in Channels : request[c].pc = "waiting" => request[c].attempt < MaxRetries
    /\ \A c \in Channels : request[c].pc = "idle" <=> request[c].kind = "none"
    /\ request["license"].kind \in Kinds \cup {"none"}
    /\ request["health"].kind \in {"health", "none"}

(* A license that is asked about is not forgotten before the answer        *)
Managed == request["license"].kind \notin {"none", "activate"} => grant # "none"

(* After a denial there is no state from which a fallback could grant      *)
DenialHolds == said = "denied" => grant \in {"denied", "none"}
OnlineIsSaid == grant = "online" => said = "granted"

IInv == Types /\ OwnChannel /\ Managed /\ DenialHolds /\ OnlineIsSaid /\ OfflineGrantProbes

-----------------------------------------------------------------------------
(* Answers                                                                 *)

Bodies == [schema : BOOLEAN, ours : BOOLEAN, valid : BOOLEAN,
           active : BOOLEAN, timely : BOOLEAN, proven : BOOLEAN]
Answers == [status : Nat, code : {"none", Denial, Revocation, NoActivation, "already_deactivated"},
            body : Bodies, cut : BOOLEAN]

(* An answer that says something has status 200                            *)
Spoken(a) == a.status # 200 => ~a.body.schema /\ ~a.body.ours

(* The answers on which the client grants, forgets and denies              *)
Affirms(kind, a) ==
    \/ kind = "activate" /\ ActivationBelieved(a.body)
    \/ kind = "heartbeat" /\ HeartbeatBelieved(a.body)
    \/ kind = "validate" /\ ValidationBelieved(a.body) /\ a.body.valid

Forgets(kind, a) ==
    \/ kind = "validate" /\ ValidationBelieved(a.body) /\ ~a.body.valid /\ a.code = Revocation
    \/ kind = "heartbeat" /\ ReportsInactive(a.body)
    \/ kind \in {"validate", "heartbeat"} /\ IsInvalidation(a)
    \/ kind = "deactivate" /\ (DeactivationBelieved(a.body) \/ IsIdempotent(a))

Denies(kind, a) ==
    \/ kind = "validate" /\ ValidationBelieved(a.body) /\ ~a.body.valid /\ a.code # Revocation
    \/ kind \in {"validate", "heartbeat", "activate"} /\ IsDenial(a)

LEMMA SoundFields ==
    /\ Sound \in Bodies
    /\ Sound.schema /\ Sound.ours /\ Sound.valid /\ Sound.active /\ Sound.timely /\ Sound.proven
  BY DEF Sound, Bodies

LEMMA BodyFields ==
    /\ Refused \in Bodies /\ Refused.schema /\ Refused.ours /\ ~Refused.valid /\ ~Refused.active
    /\ Inactive \in Bodies /\ Inactive.schema /\ Inactive.ours /\ Inactive.valid /\ ~Inactive.active
    /\ NoBody \in Bodies /\ ~NoBody.schema /\ ~NoBody.ours
<1>1. Refused \in Bodies /\ Refused.schema /\ Refused.ours /\ ~Refused.valid /\ ~Refused.active
  BY SoundFields DEF Refused, Bodies
<1>2. Inactive \in Bodies /\ Inactive.schema /\ Inactive.ours /\ Inactive.valid /\ ~Inactive.active
  BY SoundFields DEF Inactive, Bodies
<1>3. NoBody \in Bodies /\ ~NoBody.schema /\ ~NoBody.ours
  BY SoundFields DEF NoBody, Bodies
<1> QED
  BY <1>1, <1>2, <1>3

LEMMA GrantingFields ==
    ASSUME NEW b \in Granting
    PROVE  /\ b \in Bodies /\ b.schema /\ b.ours /\ b.valid /\ b.active /\ b.proven
           /\ ClockRight => b.timely
<1>1. PICK t \in {TRUE, ClockRight} : b = [Sound EXCEPT !.timely = t]
  BY DEF Granting
<1>2. t \in BOOLEAN
  BY <1>1, ClockIsBool
<1> QED
  BY <1>1, <1>2, SoundFields DEF Bodies

LEMMA AnswerFields ==
    ASSUME NEW s, NEW code
    PROVE  /\ Answer(s, code).status = s /\ Answer(s, code).code = code
           /\ Answer(s, code).body = NoBody /\ ~Answer(s, code).cut
  BY DEF Answer

LEMMA AcceptedFields ==
    ASSUME NEW b, NEW code
    PROVE  /\ Accepted(b, code).status = 200 /\ Accepted(b, code).code = code
           /\ Accepted(b, code).body = b /\ ~Accepted(b, code).cut
  BY DEF Accepted

(* What the server answers, case by case                                   *)
LEMMA ServerAnswerCases ==
    ASSUME license \in {"good", "denied", "revoked"},
           NEW kind, NEW a \in ServerAnswers(kind)
    PROVE  \/ kind \in {"health", "deactivate"} /\ a = Accepted(Sound, "none")
           \/ /\ kind \notin {"health", "deactivate"} /\ license = "denied"
              /\ \/ a = Answer(403, Denial) \/ a = Answer(501, Denial)
                 \/ kind = "validate" /\ a = Accepted(Refused, Denial)
           \/ /\ kind \notin {"health", "deactivate"} /\ license = "revoked"
              /\ \/ a = Answer(422, Revocation) \/ a = Answer(410, Revocation)
                 \/ kind = "validate" /\ a = Accepted(Refused, Revocation)
                 \/ kind = "heartbeat" /\ a = Accepted(Inactive, "none")
           \/ /\ kind \notin {"health", "deactivate"}
              /\ \E b \in Granting : a = Accepted(b, "none")
           \/ /\ kind \notin {"health", "deactivate"} /\ kind # "activate" /\ ~seat
              /\ a = Answer(404, NoActivation) \/ a = Answer(422, NoActivation)
<1>1. CASE kind \in {"health", "deactivate"}
  BY <1>1 DEF ServerAnswers
<1>2. CASE kind \notin {"health", "deactivate"} /\ license = "denied"
  BY <1>2 DEF ServerAnswers
<1>3. CASE kind \notin {"health", "deactivate"} /\ license = "revoked"
  BY <1>3 DEF ServerAnswers
<1>4. CASE kind \notin {"health", "deactivate"} /\ license \notin {"denied", "revoked"}
  BY <1>4 DEF ServerAnswers
<1> QED
  BY <1>1, <1>2, <1>3, <1>4

LEMMA OtherAnswerCases ==
    ASSUME NEW kind, NEW a \in OtherAnswers(kind)
    PROVE  \/ \E s \in {401, 404, 408, 422, 429, 503} : a = Answer(s, "none")
           \/ \E s \in {401, 429, 503} : a = Answer(s, Revocation)
           \/ BareGone /\ a = Answer(410, "none")
           \/ a = Accepted(Malformed, "none")
           \/ a = Accepted(Foreign, "none")
           \/ kind = "validate" /\ a = Accepted(Inactive, "none")
           \/ kind = "validate" /\ a = Accepted(Unproven, "none")
           \/ a = Cut
<1>1. CASE a \in {Answer(s, "none") : s \in {401, 404, 408, 422, 429, 503}}
  BY <1>1
<1>2. CASE a \in {Answer(s, Revocation) : s \in {401, 429, 503}}
  BY <1>2
<1>3. CASE a \in {Accepted(b, "none") : b \in OtherBodies(kind)}
  <2>1. PICK b \in OtherBodies(kind) : a = Accepted(b, "none")
    BY <1>3
  <2> QED
    BY <2>1 DEF OtherBodies
<1>4. CASE a = Cut
  BY <1>4
<1>5. CASE BareGone /\ a = Answer(410, "none")
  BY <1>5
<1>6. a \in {Answer(s, "none") : s \in {401, 404, 408, 422, 429, 503}}
        \cup {Answer(s, Revocation) : s \in {401, 429, 503}}
        \cup (IF BareGone THEN {Answer(410, "none")} ELSE {})
        \cup {Accepted(b, "none") : b \in OtherBodies(kind)} \cup {Cut}
  BY DEF OtherAnswers
<1> QED
  BY <1>1, <1>2, <1>3, <1>4, <1>5, <1>6

-----------------------------------------------------------------------------
(* What the answers mean                                                   *)

ServerSays(kind) == IF kind = "deactivate" /\ ~seat THEN RepeatedDeactivation ELSE ServerAnswers(kind)

USE DEF Denial, Revocation, NoActivation

(* An answer of the server that grants, denies or ends the license is its  *)
(* decision, and it is not asked for again                                 *)
LEMMA ServerMeans ==
    ASSUME license \in {"good", "denied", "revoked"}, seat \in BOOLEAN,
           NEW kind \in RequestKinds, NEW a \in ServerSays(kind)
    PROVE  /\ Spoken(a)
           /\ Affirms(kind, a) => Decision(kind, a) = "granted" /\ ~IsRetryable(a)
           /\ \/ Decision(kind, a) \in {said, "granted"}
              \/ Decision(kind, a) = "denied" /\ Denies(kind, a) /\ grant # "none" /\ ~IsRetryable(a)
           /\ ClockRight /\ Forgets(kind, a) => ~SeatAfter(kind) \/ license = "revoked"
           /\ kind = "deactivate" => Forgets(kind, a) /\ ~IsRetryable(a)
<1> USE DEF Spoken, Affirms, Denies, Forgets, Decision, IsRetryable, IsDenial, IsInvalidation,
            IsIdempotent, ActivationBelieved, HeartbeatBelieved, ValidationBelieved,
            DeactivationBelieved, ReportsInactive, CurrentlyActive, SeatAfter, RequestKinds, AllKinds
<1>1. CASE kind = "deactivate" /\ ~seat
  <2>1. \/ a = Answer(404, NoActivation) \/ a = Answer(422, "already_deactivated")
        \/ a = Answer(410, "none")
    BY <1>1 DEF ServerSays, RepeatedDeactivation
  <2> QED
    BY <1>1, <2>1, AnswerFields, BodyFields
<1>2. CASE kind \in {"health", "deactivate"} /\ a = Accepted(Sound, "none")
  BY <1>2, AcceptedFields, SoundFields
<1>3. CASE /\ kind \notin {"health", "deactivate"}
           /\ a = Answer(403, Denial) \/ a = Answer(501, Denial)
  BY <1>3, AnswerFields, BodyFields
<1>4. CASE kind = "validate" /\ a = Accepted(Refused, Denial)
  BY <1>4, AcceptedFields, BodyFields
<1>5. CASE /\ kind \notin {"health", "deactivate"} /\ license = "revoked"
           /\ a = Answer(422, Revocation) \/ a = Answer(410, Revocation)
  BY <1>5, AnswerFields, BodyFields
<1>6. CASE license = "revoked" /\ kind = "validate" /\ a = Accepted(Refused, Revocation)
  BY <1>6, AcceptedFields, BodyFields
<1>7. CASE license = "revoked" /\ kind = "heartbeat" /\ a = Accepted(Inactive, "none")
  BY <1>7, AcceptedFields, BodyFields
<1>8. CASE kind \notin {"health", "deactivate"} /\ \E b \in Granting : a = Accepted(b, "none")
  BY <1>8, AcceptedFields, GrantingFields
<1>9. CASE /\ kind \notin {"health", "deactivate", "activate"} /\ ~seat
           /\ a = Answer(404, NoActivation) \/ a = Answer(422, NoActivation)
  BY <1>9, AnswerFields, BodyFields
<1>10. CASE ~(kind = "deactivate" /\ ~seat)
  <2>1. a \in ServerAnswers(kind)
    BY <1>10 DEF ServerSays
  <2> HIDE DEF Spoken, Affirms, Denies, Forgets, Decision, IsRetryable, SeatAfter
  <2> QED
    BY <1>2, <1>3, <1>4, <1>5, <1>6, <1>7, <1>8, <1>9, <2>1, ServerAnswerCases
<1> QED
  BY <1>1, <1>10

(* No one but the server can make the client grant, and nothing but a 410  *)
(* without a code can make it forget                                       *)
LEMMA OthersMean ==
    ASSUME NEW kind, NEW a \in OtherAnswers(kind) \cup {Lost}
    PROVE  Spoken(a) /\ ~Affirms(kind, a) /\ (~BareGone => ~Forgets(kind, a))
<1> USE DEF Spoken, Affirms, Forgets, IsInvalidation, IsIdempotent, ActivationBelieved,
            HeartbeatBelieved, ValidationBelieved, DeactivationBelieved, ReportsInactive,
            CurrentlyActive
<1>1. CASE \E s \in {401, 404, 408, 422, 429, 503} : a = Answer(s, "none")
  BY <1>1, AnswerFields, BodyFields
<1>2. CASE \/ \E s \in {401, 429, 503} : a = Answer(s, Revocation)
           \/ BareGone /\ a = Answer(410, "none")
  BY <1>2, AnswerFields, BodyFields
<1>3. CASE a = Accepted(Malformed, "none")
  BY <1>3, AcceptedFields, SoundFields DEF Malformed, Bodies
<1>4. CASE a = Accepted(Foreign, "none")
  BY <1>4, AcceptedFields, SoundFields DEF Foreign, Bodies
<1>5. CASE kind = "validate" /\ a = Accepted(Inactive, "none")
  BY <1>5, AcceptedFields, BodyFields
<1>6. CASE kind = "validate" /\ a = Accepted(Unproven, "none")
  BY <1>6, AcceptedFields, SoundFields DEF Unproven, Bodies
<1>7. CASE a = Cut \/ a = Lost
  <2>1. Lost.status = 0 /\ Lost.code = "none" /\ Lost.body = NoBody
    BY AnswerFields DEF Lost
  <2>2. Cut.status = 0 /\ Cut.code = "none" /\ Cut.body = NoBody
    BY <2>1 DEF Cut, Lost, Answer
  <2> QED
    BY <1>7, <2>1, <2>2, BodyFields
<1> HIDE DEF Spoken, Affirms, Forgets
<1> QED
  BY <1>1, <1>2, <1>3, <1>4, <1>5, <1>6, <1>7, OtherAnswerCases

(* What an answer does to the grant                                        *)
LEMMA HandleEffect ==
    ASSUME NEW kind, NEW a, Spoken(a), Handle(kind, a), probing \in BOOLEAN
    PROVE  /\ probing' \in BOOLEAN
           /\ \/ grant' = grant /\ (probing' = probing \/ probing')
              \/ grant' = "online" /\ Affirms(kind, a)
              \/ grant' = "none" /\ Forgets(kind, a)
              \/ grant' = "denied" /\ Denies(kind, a)
              \/ /\ kind = "validate" /\ grant # "denied"
                 /\ grant' \in {"offline", "refused"} /\ probing'
           /\ kind = "health" => grant' = grant
           /\ Denies(kind, a) /\ grant # "none" => grant' = "denied"
           /\ kind = "deactivate" /\ Forgets(kind, a) => grant' = "none"
<1> USE DEF Spoken, Affirms, Denies, Forgets, IsDenial, IsInvalidation,
            IsIdempotent, ActivationBelieved, HeartbeatBelieved, ValidationBelieved,
            DeactivationBelieved, ReportsInactive, Become, Keep, StopTasks, StartSupport
<1>1. CASE kind = "validate" /\ Validated(a)
  <2> SUFFICES ASSUME kind = "validate" PROVE probing' \in BOOLEAN /\ 
          (\/ grant' = grant /\ (probing' = probing \/ probing')
           \/ grant' = "online" /\ Affirms(kind, a)
           \/ grant' = "none" /\ Forgets(kind, a)
           \/ grant' = "denied" /\ Denies(kind, a)
           \/ /\ kind = "validate" /\ grant # "denied"
              /\ grant' \in {"offline", "refused"} /\ probing')
           /\ (Denies(kind, a) /\ grant # "none" => grant' = "denied")
    BY <1>1
  <2>1. CASE ValidationBelieved(a.body) /\ a.body.valid /\ Become("online") /\ UNCHANGED probing
    BY <2>1
  <2>2. CASE /\ ValidationBelieved(a.body) /\ ~a.body.valid
             /\ Become(IF a.code = Revocation THEN "none" ELSE "denied") /\ StopTasks
    BY <2>2
  <2>3. CASE a.status = 200 /\ ~ValidationBelieved(a.body) /\ Keep
    BY <2>3
  <2>4. CASE IsDenial(a) /\ Become("denied") /\ StopTasks
    BY <2>4
  <2>5. CASE IsInvalidation(a) /\ Become("none") /\ StopTasks
    <3>1. a.status # 200 /\ ~IsDenial(a)
      BY <2>5
    <3>2. ~Denies(kind, a) /\ Forgets(kind, a)
      BY <2>5, <3>1
    <3>3. grant' = "none" /\ probing' = FALSE
      BY <2>5
    <3> HIDE DEF Denies, Forgets
    <3> QED
      BY <3>2, <3>3
  <2>6. CASE a.status # 200 /\ ~IsDenial(a) /\ ~IsInvalidation(a) /\ (FallBack \/ Keep)
    BY <2>6 DEF FallBack
  <2> QED
    BY <1>1, <2>1, <2>2, <2>3, <2>4, <2>5, <2>6 DEF Validated, Unavailable
<1>2. CASE kind = "heartbeat" /\ HeartbeatAnswered(a)
  BY <1>2 DEF HeartbeatAnswered
<1>3. CASE kind = "deactivate" /\ Deactivated(a)
  BY <1>3 DEF Deactivated
<1>4. CASE kind = "activate" /\ Activated(a)
  BY <1>4 DEF Activated
<1>5. CASE /\ kind = "health" /\ UNCHANGED grant
           /\ IF IsNetworkError(a) THEN StartSupport ELSE UNCHANGED probing
  BY <1>5
<1> QED
  BY <1>1, <1>2, <1>3, <1>4, <1>5 DEF Handle

-----------------------------------------------------------------------------
(* The steps                                                               *)

USE RetriesType, KindsType, ModesType DEF AllKinds, RequestKinds, Channels

(* The invariant holds at the start                                        *)
LEMMA InitHolds == Init => IInv
<1> SUFFICES ASSUME Init PROVE IInv
  OBVIOUS
<1>1. \A c \in Channels : request[c] = Idle
  BY DEF Init
<1>2. request \in [Channels -> RequestStates]
  BY <1>1 DEF Init, Idle, RequestStates
<1>3. Types
  BY <1>2 DEF Init, Types, Grants
<1>4. OwnChannel
  BY <1>1 DEF OwnChannel, Idle
<1> QED
  BY <1>1, <1>3, <1>4 DEF Init, IInv, Managed, DenialHolds, OnlineIsSaid, OfflineGrantProbes, Idle

(* The requests of one channel may change state while those of the other   *)
(* stay                                                                    *)
LEMMA RequestsAfter ==
    ASSUME request \in [Channels -> RequestStates], OwnChannel,
           NEW c \in Channels, NEW r \in RequestStates,
           r.pc = "idle" <=> r.kind = "none", r.pc = "waiting" => r.attempt < MaxRetries,
           r.kind \in IF c = "license" THEN Kinds \cup {"none"} ELSE {"health", "none"},
           request' = [request EXCEPT ![c] = r]
    PROVE  request' \in [Channels -> RequestStates] /\ OwnChannel'
  BY DEF OwnChannel

(* The end of an attempt, whoever answers, preserves the invariant         *)
LEMMA ConcludeKeeps ==
    ASSUME IInv, NEW c \in Channels, NEW a, NEW who, request[c].pc = "sending",
           Spoken(a), Conclude(c, a, who),
           who # "server" => ~Affirms(request[c].kind, a),
           who = "server" => a \in ServerSays(request[c].kind)
    PROVE  /\ mode' \in Modes /\ online' \in BOOLEAN /\ probing' \in BOOLEAN /\ grant' \in Grants
           /\ request' \in [Channels -> RequestStates] /\ said' \in {"nothing", "granted", "denied"}
           /\ OwnChannel' /\ Managed' /\ DenialHolds' /\ OnlineIsSaid' /\ OfflineGrantProbes'
<1> DEFINE kind == request[c].kind
<1>1. kind \in RequestKinds /\ request[c] \in RequestStates
  BY DEF IInv, Types, OwnChannel, RequestStates
<1>2. license \in {"good", "denied", "revoked"} /\ seat \in BOOLEAN /\ probing \in BOOLEAN
  BY DEF IInv, Types
<1>3. said' = IF who = "server" THEN Decision(kind, a) ELSE said
  BY DEF Conclude
<1>4. CASE IsRetryable(a) /\ RetriesLeft(request[c].attempt)
  <2>1. request' = [request EXCEPT ![c] = [request[c] EXCEPT !.pc = "waiting"]]
        /\ UNCHANGED <<online, grant, probing, mode>>
    BY <1>4 DEF Conclude
  <2>2. request' \in [Channels -> RequestStates] /\ OwnChannel'
    <3> DEFINE r == [request[c] EXCEPT !.pc = "waiting"]
    <3>1. r \in RequestStates /\ r.pc = "waiting" /\ r.kind = kind /\ r.attempt < MaxRetries
      BY <1>1, <1>4 DEF RequestStates, RetriesLeft
    <3>2. kind # "none" /\ kind \in IF c = "license" THEN Kinds \cup {"none"} ELSE {"health", "none"}
      BY <1>1 DEF IInv, OwnChannel
    <3> HIDE DEF r, kind
    <3>3. request' = [request EXCEPT ![c] = r]
      BY <2>1 DEF r
    <3> QED
      BY <3>1, <3>2, <3>3, RequestsAfter DEF IInv, Types
  <2>3. request'["license"].kind = request["license"].kind
    BY <1>1, <2>1 DEF IInv, Types, RequestStates
  <2>4. said' \in {said, "granted"} /\ (said' = said \/ who = "server")
    BY <1>1, <1>2, <1>3, <1>4, ServerMeans
  <2> QED
    BY <2>1, <2>2, <2>3, <2>4
    DEF IInv, Types, Managed, DenialHolds, OnlineIsSaid, OfflineGrantProbes
<1>5. CASE ~(IsRetryable(a) /\ RetriesLeft(request[c].attempt))
  <2>1. /\ request' = [request EXCEPT ![c] = Idle] /\ Handle(kind, a) /\ mode' = mode
        /\ online' = IF kind = "health" /\ a.status = 200 THEN HealthBelieved(a.body) ELSE Reached(a)
    BY <1>5 DEF Conclude
  <2>2. request' \in [Channels -> RequestStates] /\ OwnChannel'
    <3>1. Idle \in RequestStates /\ Idle.pc = "idle" /\ Idle.kind = "none"
      BY DEF Idle, RequestStates
    <3> QED
      BY <2>1, <3>1, RequestsAfter DEF IInv, Types
  <2>3. online' \in BOOLEAN
    BY <2>1 DEF HealthBelieved, Reached
  <2>4. /\ probing' \in BOOLEAN
        /\ \/ grant' = grant /\ (probing' = probing \/ probing')
           \/ grant' = "online" /\ Affirms(kind, a)
           \/ grant' = "none" /\ Forgets(kind, a)
           \/ grant' = "denied" /\ Denies(kind, a)
           \/ kind = "validate" /\ grant # "denied" /\ grant' \in {"offline", "refused"} /\ probing'
        /\ kind = "health" => grant' = grant
        /\ Denies(kind, a) /\ grant # "none" => grant' = "denied"
    BY <1>2, <2>1, HandleEffect
  <2>5. /\ who # "server" => said' = said
        /\ Affirms(kind, a) => said' = "granted"
        /\ said' \in {said, "granted"} \/ (said' = "denied" /\ Denies(kind, a) /\ grant # "none")
    BY <1>1, <1>2, <1>3, ServerMeans
  <2>6. Managed'
    BY <2>1, <2>4 DEF IInv, Types, Managed, OwnChannel, Idle
  <2>7. kind = "validate" => grant # "none"
    BY DEF IInv, Managed, OwnChannel
  <2>8. DenialHolds'
    BY <2>4, <2>5, <2>7 DEF IInv, DenialHolds
  <2> QED
    BY <2>1, <2>2, <2>3, <2>4, <2>5, <2>6, <2>8
    DEF IInv, Types, DenialHolds, OnlineIsSaid, OfflineGrantProbes, Grants
<1> QED
  BY <1>4, <1>5

(* What the steps on the server's side leave of its state                  *)
LEMMA ServerTypes ==
    ASSUME IInv, NEW kind
    PROVE  SeatAfter(kind) \in BOOLEAN
  BY DEF IInv, Types, SeatAfter

LEMMA AttemptKeeps ==
    ASSUME IInv, NEW c \in Channels, Attempt(c)
    PROVE  IInv'
<1> DEFINE kind == request[c].kind
<1>1. PICK a, who :
        /\ request[c].pc = "sending" /\ Spoken(a) /\ Conclude(c, a, who)
        /\ who # "server" => ~Affirms(kind, a)
        /\ who = "server" => a \in ServerSays(kind)
        /\ net' = net /\ license' = license
        /\ seat' \in BOOLEAN /\ late' \subseteq {"activate", "deactivate"}
  <2> HIDE DEF kind
  <2>1. CASE Answered(c)
    <3>1. PICK a \in ServerSays(kind) : Conclude(c, a, "server")
      BY <2>1 DEF Answered, ServerSays, kind
    <3>2. kind \in RequestKinds
      BY <2>1 DEF Answered, IInv, Types, OwnChannel, RequestStates, kind
    <3>3. Spoken(a)
      BY <3>2, ServerMeans DEF IInv, Types
    <3> QED
      BY <2>1, <3>1, <3>3, ServerTypes DEF Answered, IInv, Types, kind
  <2>2. CASE NoAnswer(c)
    <3>1. Conclude(c, Lost, "none") /\ request[c].pc = "sending"
      BY <2>2 DEF NoAnswer
    <3>2. seat' \in BOOLEAN /\ late' \subseteq {"activate", "deactivate"}
      BY <2>2, ServerTypes DEF NoAnswer, IInv, Types
    <3> QED
      BY <2>2, <3>1, <3>2, OthersMean DEF NoAnswer
  <2>3. CASE Intercepted(c)
    <3>1. PICK a \in OtherAnswers(kind) : Conclude(c, a, "other")
      BY <2>3 DEF Intercepted, kind
    <3> QED
      BY <2>3, <3>1, OthersMean DEF Intercepted, server, IInv, Types
  <2> QED
    BY <2>1, <2>2, <2>3 DEF Attempt
<1>2. /\ mode' \in Modes /\ online' \in BOOLEAN /\ probing' \in BOOLEAN /\ grant' \in Grants
      /\ request' \in [Channels -> RequestStates] /\ said' \in {"nothing", "granted", "denied"}
      /\ OwnChannel' /\ Managed' /\ DenialHolds' /\ OnlineIsSaid' /\ OfflineGrantProbes'
  BY <1>1, ConcludeKeeps
<1> QED
  BY <1>1, <1>2 DEF IInv, Types

LEMMA RequestStep ==
    ASSUME IInv, NEW c \in Channels, NEW r \in RequestStates,
           r.pc = "idle" <=> r.kind = "none", r.pc = "waiting" => r.attempt < MaxRetries,
           r.kind \in IF c = "license" THEN Kinds \cup {"none"} ELSE {"health", "none"},
           c = "license" /\ r.kind \notin {"none", "activate"} => grant # "none",
           request' = [request EXCEPT ![c] = r], UNCHANGED <<client, server, said>>
    PROVE  IInv'
<1>1. request' \in [Channels -> RequestStates] /\ OwnChannel'
  BY RequestsAfter DEF IInv, Types
<1>2. Managed'
  BY DEF IInv, Types, Managed, client
<1> QED
  BY <1>1, <1>2
  DEF IInv, Types, DenialHolds, OnlineIsSaid, OfflineGrantProbes, client, server, Grants

(* and every step preserves it                                             *)
LEMMA StepHolds == IInv /\ [Next]_vars => IInv'
<1> SUFFICES ASSUME IInv, [Next]_vars PROVE IInv'
  OBVIOUS
<1>1. ASSUME NEW kind \in Kinds, BeginLicense(kind) PROVE IInv'
  <2> DEFINE r == [kind |-> kind, pc |-> "sending", attempt |-> 0]
  <2>1. r \in RequestStates /\ r.pc = "sending" /\ r.kind = kind
    BY DEF RequestStates
  <2>2. request' = [request EXCEPT !["license"] = r] /\ UNCHANGED <<client, server, said>>
        /\ (kind # "activate" => grant # "none")
    BY <1>1 DEF BeginLicense, Begin
  <2> HIDE DEF r
  <2> QED
    BY <2>1, <2>2, RequestStep
<1>2. ASSUME BeginHealth PROVE IInv'
  <2> DEFINE r == [kind |-> "health", pc |-> "sending", attempt |-> 0]
  <2>1. r \in RequestStates /\ r.pc = "sending" /\ r.kind = "health"
    BY DEF RequestStates
  <2>2. request' = [request EXCEPT !["health"] = r] /\ UNCHANGED <<client, server, said>>
    BY <1>2 DEF BeginHealth, Begin
  <2> HIDE DEF r
  <2> QED
    BY <2>1, <2>2, RequestStep
<1>3. ASSUME NEW c \in Channels, Retry(c) PROVE IInv'
  <2> DEFINE r == [request[c] EXCEPT !.pc = "sending", !.attempt = NextAttempt(@)]
  <2>1. /\ request[c] \in RequestStates /\ request[c].pc = "waiting"
        /\ request[c].attempt < MaxRetries
    BY <1>3 DEF Retry, IInv, Types, OwnChannel
  <2>2. r \in RequestStates /\ r.pc = "sending" /\ r.kind = request[c].kind
    <3> DEFINE n == request[c].attempt + 1
    <3>1. n \in 0..MaxRetries
      BY <2>1 DEF RequestStates
    <3>2. r = [request[c] EXCEPT !.pc = "sending", !.attempt = n]
      BY DEF NextAttempt
    <3> HIDE DEF n, r
    <3> QED
      BY <2>1, <3>1, <3>2 DEF RequestStates
  <2>3. request' = [request EXCEPT ![c] = r] /\ UNCHANGED <<client, server, said>>
    BY <1>3, <2>1 DEF Retry, RequestStates, IInv, Types
  <2>4. r.kind # "none" /\ r.kind \in IF c = "license" THEN Kinds \cup {"none"} ELSE {"health", "none"}
    BY <2>1, <2>2 DEF IInv, OwnChannel
  <2>5. c = "license" /\ r.kind \notin {"none", "activate"} => grant # "none"
    BY <2>2 DEF IInv, Managed
  <2> HIDE DEF r
  <2> QED
    BY <2>2, <2>3, <2>4, <2>5, RequestStep
<1>4. ASSUME NEW c \in Channels, Abandon(c) PROVE IInv'
  <2>1. Idle \in RequestStates /\ Idle.pc = "idle" /\ Idle.kind = "none"
    BY DEF Idle, RequestStates
  <2>2. request' = [request EXCEPT ![c] = Idle] /\ UNCHANGED <<client, server, said>>
    BY <1>4 DEF Abandon
  <2> QED
    BY <2>1, <2>2, RequestStep
<1>5. ASSUME NEW c \in Channels, Attempt(c) PROVE IInv'
  BY <1>5, AttemptKeeps
<1>6. CASE NetChanges \/ LicenseChanges \/ SeatReleased \/ LateArrival \/ UNCHANGED vars
  <2>1. UNCHANGED <<client, request, said>>
    BY <1>6 DEF NetChanges, LicenseChanges, SeatReleased, LateArrival, vars
  <2>2. /\ net' \in {"up", "down"} /\ seat' \in BOOLEAN /\ license' \in {"good", "denied", "revoked"}
        /\ late' \subseteq {"activate", "deactivate"}
    BY <1>6, ServerTypes
    DEF NetChanges, LicenseChanges, SeatReleased, LateArrival, vars, server, IInv, Types
  <2> QED
    BY <2>1, <2>2
    DEF IInv, Types, OwnChannel, Managed, DenialHolds, OnlineIsSaid, OfflineGrantProbes, client
<1> QED
  BY <1>1, <1>2, <1>3, <1>4, <1>5, <1>6 DEF Next

-----------------------------------------------------------------------------
(* The theorems                                                            *)

LEMMA Invariance == Spec => []IInv
  BY InitHolds, StepHolds, PTL DEF Spec

(* Whatever requests the host makes, with however many retries, the state  *)
(* is well formed.                                                         *)
THEOREM TypeCorrect == Spec => []TypeOK
<1>1. IInv => TypeOK
  BY DEF IInv, Types, TypeOK, RequestStates
<1> QED
  BY <1>1, Invariance, PTL

(* client.rs retries, falls back and is answered by intermediaries: no     *)
(* number of attempts and no outage turns a denial that has reached the    *)
(* client back into a grant, and only the server grants online.            *)
THEOREM DenialStands == Spec => []DecisionStands
<1>1. IInv => DecisionStands
  BY DEF IInv, DenialHolds, OnlineIsSaid, DecisionStands, Granted
<1> QED
  BY <1>1, Invariance, PTL

(* Whatever let the client fall back on its offline state, it goes on      *)
(* asking whether the API can be reached.                                  *)
THEOREM OfflineProbes == Spec => []OfflineGrantProbes
<1>1. IInv => OfflineGrantProbes
  BY DEF IInv
<1> QED
  BY <1>1, Invariance, PTL

(* Where the local clock agrees with the server's and no intermediary      *)
(* answers 410 without a code, the client forgets a license only when the  *)
(* server has revoked it or its seat is gone: whatever else an             *)
(* intermediary answers, however a request was lost.                       *)
THEOREM NothingErasedEarly == ClockRight /\ ~BareGone => (Spec => ErasedOnlyWhenOver)
<1> SUFFICES ASSUME ClockRight, ~BareGone PROVE Spec => ErasedOnlyWhenOver
  OBVIOUS
<1>1. IInv /\ [Next]_vars => [grant # "none" /\ grant' = "none" => ~seat' \/ license = "revoked"]_vars
  <2> SUFFICES ASSUME IInv, Next, grant # "none", grant' = "none"
               PROVE  ~seat' \/ license = "revoked"
    OBVIOUS
  <2>1. PICK c \in Channels : Attempt(c)
    BY DEF Next, BeginLicense, BeginHealth, Begin, Retry, Abandon, NetChanges, LicenseChanges,
           SeatReleased, LateArrival, client
  <2> DEFINE kind == request[c].kind
  <2>2. /\ license \in {"good", "denied", "revoked"} /\ seat \in BOOLEAN /\ probing \in BOOLEAN
        /\ request[c].pc = "sending" => kind \in RequestKinds
    BY DEF IInv, Types, OwnChannel, RequestStates
  <2>3. ASSUME NEW a, NEW who, Spoken(a), Conclude(c, a, who) PROVE Forgets(kind, a)
    <3>1. Handle(kind, a)
      BY <2>3 DEF Conclude
    <3> QED
      BY <2>2, <2>3, <3>1, HandleEffect
  <2> HIDE DEF kind
  <2>4. CASE Answered(c)
    <3>1. PICK a \in ServerSays(kind) : Conclude(c, a, "server")
      BY <2>4 DEF Answered, ServerSays, kind
    <3>2. kind \in RequestKinds /\ seat' = SeatAfter(kind)
      BY <2>2, <2>4 DEF Answered, kind
    <3> QED
      BY <2>2, <2>3, <3>1, <3>2, ServerMeans
  <2>5. CASE NoAnswer(c)
    BY <2>3, <2>5, OthersMean DEF NoAnswer
  <2>6. CASE Intercepted(c)
    <3>1. PICK a \in OtherAnswers(kind) : Conclude(c, a, "other")
      BY <2>6 DEF Intercepted, kind
    <3> QED
      BY <2>3, <3>1, OthersMean
  <2> QED
    BY <2>1, <2>4, <2>5, <2>6 DEF Attempt
<1> QED
  BY <1>1, Invariance, PTL DEF Spec, ErasedOnlyWhenOver

(* A deactivation that the server answers, at the first attempt or after   *)
(* attempts whose answers were lost, ends in a client that has forgotten   *)
(* the license.                                                            *)
THEOREM DeactivationSettles == Spec => DeactivationHeals
<1>1. IInv /\ [Next]_vars =>
        [request["license"].kind = "deactivate" /\ origin = "none" /\ origin' = "server"
            => grant' = "none"]_vars
  <2> SUFFICES ASSUME IInv, Next, request["license"].kind = "deactivate",
                      origin = "none", origin' = "server"
               PROVE  grant' = "none"
    OBVIOUS
  <2>1. Attempt("license")
    BY DEF Next, BeginLicense, BeginHealth, Begin, Unanswered, Retry, Abandon, NetChanges,
           LicenseChanges, SeatReleased, LateArrival, Attempt, Answered, NoAnswer, Intercepted,
           Conclude
  <2>2. Answered("license")
    BY <2>1 DEF Attempt, NoAnswer, Intercepted, Conclude
  <2>3. PICK a \in ServerSays("deactivate") : Conclude("license", a, "server")
    BY <2>2 DEF Answered, ServerSays
  <2>4. Spoken(a) /\ Forgets("deactivate", a) /\ ~IsRetryable(a)
    BY ServerMeans DEF IInv, Types
  <2>5. Handle("deactivate", a)
    BY <2>3, <2>4 DEF Conclude
  <2> QED
    BY <2>4, <2>5, HandleEffect DEF IInv, Types
<1> QED
  BY <1>1, Invariance, PTL DEF Spec, DeactivationHeals
=============================================================================
