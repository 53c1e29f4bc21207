----------------------------- MODULE RuntimeClock -----------------------------
(***************************************************************************)
(* Time in the SDK client (client.rs, cache.rs): the wall clock, which the *)
(* user may set, the monotonic clock, the process-wide floor and the       *)
(* runtime state that floor it, and the durable watermark that survives a  *)
(* relaunch.  What expires: the authorization of a signed artifact, the    *)
(* license itself, its entitlements.                                       *)
(*                                                                         *)
(* A decision is installed under state_commit_lock in two steps, as in     *)
(* set_runtime_license_state_until: its time is read (and the floor set),  *)
(* then the state is stored.  A read of the state holds only the lock of   *)
(* the state itself, so it may come between the two.                       *)
(*                                                                         *)
(* Time is counted in ticks, Tick ticks to the second: deadlines and the   *)
(* watermark are whole seconds, expiries are not.  0 stands for None.      *)
(***************************************************************************)
EXTENDS OfflineArtifact

CONSTANTS
    Expiries,   \* the moments a license or an entitlement may expire at
    Licenses,   \* what the server answers: license expiry, entitlements
    Files,      \* machine files that may be in the cache
    Tokens,     \* offline tokens that may be in the cache
    Overlap,    \* BOOLEAN: do readers run while a decision is installed
    MaxWall,    \* bound: the clock the user may set
    MaxMono     \* bound: how long a process is observed

ASSUME TimeType == MaxWall \in Nat /\ MaxMono \in Nat
ASSUME ExpiriesType == Expiries \subseteq Nat \ {0}
ASSUME LicensesType == Licenses \subseteq [expires : Expiries \cup {0}, ents : SUBSET Expiries]
ASSUME ArtifactsType == \A a \in Files \cup Tokens :
    /\ a.genuine \in BOOLEAN /\ a.iat \in Int /\ a.nbf \in Int /\ a.exp \in Int /\ a.grace \in Int
    /\ a.expires \in Expiries \cup {0} /\ a.ents \subseteq Expiries
ASSUME FormsType == (\A a \in Files : a.form = "machine") /\ (\A a \in Tokens : a.form = "token")
ASSUME OverlapIsBool == Overlap \in BOOLEAN

VARIABLES
    wall,      \* Utc::now()
    mono,      \* Instant::now()
    floor,     \* runtime_clock_floor: the time observed, and when (mono)
    state,     \* runtime_license_state
    verified,  \* an artifact verified outside the lock, not yet finalized
    pending,   \* the decision being installed
    watermark, \* the durable last-seen timestamp
    seen,      \* history: the time of the last answer since the last online one
    accepted,  \* history: the latest second a grant was accepted at
    told,      \* history: the entitlements subscribers believe to be active
    ends       \* history: terminal events about the decision in force

clocks == <<wall, mono>>
history == <<seen, accepted, told, ends>>
vars == <<clocks, floor, state, verified, pending, watermark, history>>

Sources == {"online", "signed", "denial"}
NoFloor == [time |-> 0, at |-> 0]
NoState == [source |-> "none", valid |-> FALSE, deadline |-> 0, expires |-> 0, ents |-> {},
            wallAt |-> 0, monoAt |-> 0, last |-> 0, next |-> 0]
NoDecision == [source |-> "none", valid |-> FALSE, deadline |-> 0, expires |-> 0, ents |-> {}, now |-> 0]

Later(a, b) == IF a >= b THEN a ELSE b

Init ==
    /\ wall \in 1..MaxWall /\ mono = 0
    /\ floor = NoFloor /\ state = NoState
    /\ verified = NoArtifact /\ pending = NoDecision
    /\ watermark = 0
    /\ seen = 0 /\ accepted = 0 /\ told = {} /\ ends = 0

-----------------------------------------------------------------------------
(* Reading the clocks                                                      *)

(* Bug: only the clocks, not what has been observed before                 *)
EffectiveUnlatched(wallNow, base, elapsed, last) == Later(wallNow, base + elapsed)

(* Bug: the wall clock, whatever has been observed                         *)
EffectiveWall(wallNow, base, elapsed, last) == wallNow

(* effective_runtime_time                                                  *)
Effective(wallNow, base, elapsed, last) == Later(Later(wallNow, base + elapsed), last)

(* process_effective_now                                                   *)
ProcessNow ==
    IF floor = NoFloor THEN wall
    ELSE Effective(wall, floor.time, mono - floor.at, floor.time)

(* raise_runtime_clock_floor                                               *)
Raised(now) ==
    IF floor = NoFloor \/ now >= floor.time + (mono - floor.at)
    THEN [time |-> now, at |-> mono] ELSE floor

(* Bug: the transition is due at the start of the second (issue 9)         *)
NextTransitionTruncated(ents, after) ==
    LET ahead == {s \in {Seconds(e) * Tick : e \in ents} : s > after}
    IN  IF ahead = {} THEN 0 ELSE CHOOSE s \in ahead : \A t \in ahead : s <= t

(* next_entitlement_transition                                             *)
NextTransition(ents, after) ==
    LET ahead == {e \in ents : e > after}
    IN  IF ahead = {} THEN 0 ELSE CHOOSE e \in ahead : \A f \in ahead : e <= f

ActiveAt(ents, now) == {e \in ents : e > now}

-----------------------------------------------------------------------------
(* The clocks                                                              *)

Pass ==
    /\ mono < MaxMono /\ wall < MaxWall
    /\ mono' = mono + 1 /\ wall' = wall + 1
    /\ UNCHANGED <<floor, state, verified, pending, watermark, history>>

SetClock ==
    /\ wall' \in 1..MaxWall
    /\ UNCHANGED <<mono, floor, state, verified, pending, watermark, history>>

(* The process ends and another is launched; only the watermark survives   *)
Relaunch ==
    /\ mono' = 0
    /\ floor' = NoFloor /\ state' = NoState /\ verified' = NoArtifact /\ pending' = NoDecision
    /\ seen' = 0 /\ told' = {} /\ ends' = 0
    /\ UNCHANGED <<wall, watermark, accepted>>

-----------------------------------------------------------------------------
(* Deciding, under the lock                                                *)

Locked == pending # NoDecision
Grant(source, deadline, expires, ents, now) ==
    pending' = [source |-> source, valid |-> TRUE, deadline |-> deadline,
                expires |-> expires, ents |-> ents, now |-> now]
Refuse(source, now) == pending' = [NoDecision EXCEPT !.source = source, !.now = now]

(* An online answer re-anchors the floor to the wall clock, an accepted    *)
(* one the watermark too; both may be lowered.  Activation, validation and *)
(* heartbeat alike anchor the watermark and install a decision with        *)
(* OnlineResponse as its source.                                           *)
DecideOnline == \E l \in Licenses :
    /\ ~Locked
    /\ l.expires = 0 \/ l.expires > wall
    /\ floor' = [time |-> wall, at |-> mono]
    /\ \/ /\ Grant("online", 0, l.expires, l.ents, wall)
          /\ watermark' = Seconds(wall) /\ accepted' = Seconds(wall)
       \/ Refuse("online", wall) /\ UNCHANGED <<watermark, accepted>>
    /\ UNCHANGED <<clocks, state, verified, seen, told, ends>>

(* Every other decision inherits the floor.  Bug: it starts afresh.        *)
InheritedWall == wall
Inherited == ProcessNow

DecideDenial ==
    /\ ~Locked
    /\ floor' = Raised(Inherited)
    /\ Refuse("denial", Inherited)
    /\ UNCHANGED <<clocks, state, verified, watermark, history>>

(* What is in the cache is verified outside the lock, at the wall clock    *)
Verify == \E file \in Files \cup {NoArtifact}, token \in Tokens \cup {NoArtifact} :
    /\ verified = NoArtifact
    /\ verified' = Verdict(file, token, Seconds(wall))
    /\ UNCHANGED <<clocks, floor, state, pending, watermark, history>>

(* Bug: the watermark follows the clock                                    *)
FollowClock(now) == now

(* set_last_seen_timestamp only ratchets upward                            *)
Ratchet(now) == Later(now, watermark)

Tampered == watermark # 0 /\ Seconds(wall) < watermark - MaxSkew

(* finalize_offline_validation                                             *)
Finalize ==
    /\ ~Locked /\ verified # NoArtifact
    /\ verified' = NoArtifact
    /\ floor' = Raised(Inherited)
    /\ IF \/ verified = Rejected \/ Tampered
          \/ Seconds(Inherited) >= Deadline(verified)
          \/ verified.expires # 0 /\ verified.expires <= Inherited
       THEN Refuse("denial", Inherited) /\ UNCHANGED <<watermark, accepted>>
       ELSE /\ Grant("signed", Deadline(verified), verified.expires, verified.ents, Inherited)
            /\ watermark' = Ratchet(Seconds(wall))
            /\ accepted' = Later(Seconds(wall), accepted)
    /\ UNCHANGED <<clocks, state, seen, told, ends>>

(* The second step of set_runtime_license_state_until                      *)
Install ==
    /\ Locked
    /\ state' = [source |-> pending.source, valid |-> pending.valid,
                 deadline |-> pending.deadline, expires |-> pending.expires,
                 ents |-> pending.ents, wallAt |-> pending.now, monoAt |-> mono,
                 last |-> pending.now, next |-> NextTransition(pending.ents, pending.now)]
    /\ pending' = NoDecision
    /\ told' = ActiveAt(pending.ents, pending.now) /\ ends' = 0
    /\ seen' = IF pending.source = "online" THEN 0 ELSE seen
    /\ UNCHANGED <<clocks, floor, verified, watermark, accepted>>

(* clear_runtime_license_state: deactivation, reset                        *)
Forget ==
    /\ ~Locked
    /\ state' = NoState /\ told' = {} /\ ends' = 0
    /\ UNCHANGED <<clocks, floor, verified, pending, watermark, seen, accepted>>

-----------------------------------------------------------------------------
(* Observing                                                               *)

ArtifactOver(now) == state.deadline # 0 /\ Seconds(now) >= state.deadline

(* Bug: an ended grant ends again at every read                            *)
GrantOverAlways(now) == state.expires # 0 /\ state.expires <= now
GrantOver(now) == state.valid /\ state.expires # 0 /\ state.expires <= now
TransitionDue(now) == state.next # 0 /\ now >= state.next

(* The grant ends; the time bounds it had are dropped with it              *)
Ended(now) == [state EXCEPT !.last = now, !.valid = FALSE, !.deadline = 0, !.next = 0, !.ents = {}]

(* runtime_license_state, behind every read of the license state: the      *)
(* first read that finds a time bound passed ends the grant, or tells the  *)
(* subscribers which entitlements are left                                 *)
Observe ==
    /\ state # NoState
    /\ Overlap \/ ~Locked
    /\ LET now == Effective(wall, state.wallAt, mono - state.monoAt, state.last) IN
       /\ floor' = Raised(now) /\ seen' = now
       /\ \/ /\ ArtifactOver(now) \/ GrantOver(now)
             /\ state' = Ended(now) /\ told' = {}
             /\ ends' = IF GrantOver(now) \/ state.valid THEN ends + 1 ELSE ends
          \/ /\ ~ArtifactOver(now) /\ ~GrantOver(now) /\ TransitionDue(now)
             /\ state' = [state EXCEPT !.last = now, !.next = NextTransition(state.ents, now)]
             /\ told' = ActiveAt(state.ents, now)
             /\ UNCHANGED ends
          \/ /\ ~ArtifactOver(now) /\ ~GrantOver(now) /\ ~TransitionDue(now)
             /\ state' = [state EXCEPT !.last = now]
             /\ UNCHANGED <<told, ends>>
    /\ UNCHANGED <<clocks, verified, pending, watermark, accepted>>

Next ==
    \/ Pass \/ SetClock \/ Relaunch
    \/ DecideOnline \/ DecideDenial \/ Verify \/ Finalize \/ Install \/ Forget \/ Observe

Spec == Init /\ [][Next]_vars

-----------------------------------------------------------------------------
(* Properties                                                              *)

TypeOK ==
    /\ wall \in 1..MaxWall /\ mono \in 0..MaxMono
    /\ floor \in [time : 0..MaxWall + MaxMono, at : 0..mono]
    /\ state.source \in Sources \cup {"none"} /\ state.monoAt <= mono
    /\ state.wallAt <= state.last /\ state.ents \subseteq Expiries
    /\ verified \in Files \cup Tokens \cup {NoArtifact, Rejected}
    /\ watermark \in 0..Seconds(MaxWall) /\ accepted \in 0..Seconds(MaxWall)
    /\ told \subseteq Expiries /\ ends \in Nat

(* However the user sets the clock, the answers of one process are given   *)
(* at times that never go back, across decisions too; only an online       *)
(* answer starts afresh (seen = 0)                                         *)
AnswersNeverGoBack == [][seen' >= seen \/ seen' = 0]_vars

(* What has been seen to end does not come back without an online answer:  *)
(* neither a signed artifact past its deadline or its license's expiry,    *)
(* nor an entitlement of the artifact                                      *)
NoRevival ==
    pending.source = "signed" =>
        /\ Seconds(seen) < pending.deadline
        /\ pending.expires = 0 \/ seen < pending.expires
        /\ \A e \in Expiries : e <= seen => e \notin ActiveAt(pending.ents, pending.now)

(* Setting the clock back, however slowly and over however many launches,  *)
(* gains at most the tolerated skew: no artifact is accepted at a clock    *)
(* earlier than that before the latest accepted one, but for an online     *)
(* answer in between                                                       *)
OfflineWindow == [][
    (~Locked /\ pending'.source = "signed") => Seconds(wall) >= accepted - MaxSkew]_vars

(* Subscribers know the entitlements that are active at the time of the    *)
(* last answer: a transition is announced by the answer that first shows   *)
(* it, with the entitlements that are left                                 *)
ToldIsCurrent == state.valid => told = ActiveAt(state.ents, state.last)

(* A grant ends with one terminal event, not with one at every read        *)
EndsOnce == ends <= 1

(* An online answer re-anchors the process time: while it is installed no  *)
(* reader raises the floor over the wall clock again                       *)
OnlineReanchors == [][
    pending.source = "online" => floor'.time <= Later(wall, pending.now + mono)]_vars
=============================================================================
