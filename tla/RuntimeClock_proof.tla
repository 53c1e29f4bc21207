--------------------------- MODULE RuntimeClock_proof ---------------------------
(***************************************************************************)
(* The time arithmetic of the client, for every clock, license, artifact   *)
(* and bound: types, the watermark, the terminal event, what subscribers   *)
(* are told; and, where no reader runs inside an installation, the order   *)
(* of the answers.                                                         *)
(***************************************************************************)
EXTENDS RuntimeClock, WellFoundedInduction, TLAPS

-----------------------------------------------------------------------------
(* When an artifact is accepted, for every artifact and every moment       *)

(* Genuine, and with claims that make sense for its form                   *)
WellFormed(a) ==
    /\ a.genuine
    /\ \/ a.form = "machine" /\ TimeClaims(a)
       \/ a.form = "token" /\ TokenEnvelope(a)

(* The two places that bound an offline grant agree (offline.rs: the       *)
(* checks of verify_machine_file and check_token_validity_at, and          *)
(* authorization_deadline): a well-formed artifact is accepted from its    *)
(* nbf, less the skew, until the deadline kept after its acceptance, as    *)
(* long as the license lasts.  So no grant outlives the moment at which    *)
(* its artifact stops being accepted, and none is refused before.          *)
THEOREM AcceptedUntilDeadline ==
    ASSUME NEW a \in Artifact, WellFormed(a), NEW now \in Int
    PROVE  Accepted(a, now) <=>
               /\ a.nbf - MaxSkew <= now /\ now < Deadline(a)
               /\ ~LicenseOver(a, now)
<1> DEFINE lives == ~LicenseOver(a, now)
<1>1. a.iat \in Int /\ a.nbf \in Int /\ a.exp \in Int /\ a.grace \in Int
      /\ a.form \in Forms
  BY DEF Artifact
<1>2. MaxSkew \in Nat /\ MaxAge \in Nat
  BY LimitsType
<1>3. CASE a.form = "machine"
  <2>1. TimeClaims(a) /\ a.genuine
    BY <1>3 DEF WellFormed
  <2>2. Accepted(a, now) <=> MachineFileAccepted(a, now)
    BY <1>3 DEF Accepted
  <2>3. Deadline(a) = AuthorizationDeadline(a, a.grace)
    BY <1>3 DEF Deadline
  <2>4. a.iat <= a.nbf
    BY <2>1 DEF TimeClaims
  <2>5. MachineFileAccepted(a, now) <=>
          /\ a.iat <= now + MaxSkew /\ a.nbf <= now + MaxSkew
          /\ now < a.exp + a.grace /\ lives /\ ~TooOld(a, now)
    BY <2>1 DEF MachineFileAccepted
  <2>6. now < AuthorizationDeadline(a, a.grace) <=> now < a.exp + a.grace /\ ~TooOld(a, now)
    BY <1>1, <1>2 DEF AuthorizationDeadline, TooOld
  <2> QED
    BY <1>1, <1>2, <2>2, <2>3, <2>4, <2>5, <2>6
<1>4. CASE a.form = "token"
  <2>1. TokenEnvelope(a) /\ a.genuine
    BY <1>4 DEF WellFormed
  <2>2. Accepted(a, now) <=> TokenAccepted(a, now)
    BY <1>4 DEF Accepted
  <2>3. Deadline(a) = AuthorizationDeadline(a, 0)
    BY <1>4 DEF Deadline
  <2>4. a.iat <= a.nbf
    BY <2>1 DEF TokenEnvelope
  <2>5. TokenAccepted(a, now) <=>
          /\ a.iat <= now + MaxSkew /\ now + MaxSkew >= a.nbf
          /\ now < a.exp /\ lives /\ ~TooOld(a, now)
    BY <2>1 DEF TokenAccepted
  <2>6. now < AuthorizationDeadline(a, 0) <=> now < a.exp /\ ~TooOld(a, now)
    BY <1>1, <1>2 DEF AuthorizationDeadline, TooOld
  <2> QED
    BY <1>1, <1>2, <2>2, <2>3, <2>4, <2>5, <2>6
<1> QED
  BY <1>1, <1>3, <1>4 DEF Forms

(* perform_offline_validation grants only on an artifact that is accepted, *)
(* and prefers the machine file; an artifact that was looked at and not    *)
(* accepted never passes for an absent one.                                *)
THEOREM VerdictIsAccepted ==
    ASSUME NEW file, NEW token, NEW now
    PROVE  LET v == Verdict(file, token, now) IN
             /\ v \notin {NoArtifact, Rejected} => Accepted(v, now)
             /\ Accepted(file, now) => v = file
             /\ v = NoArtifact => file = NoArtifact
<1>1. Rejected # NoArtifact
  <2>1. Rejected.form = "rejected" /\ NoArtifact.form = "none"
    BY DEF Rejected, NoArtifact
  <2> QED
    BY <2>1
<1>5. ~Accepted(NoArtifact, now)
  BY DEF Accepted, NoArtifact
<1>2. CASE Accepted(file, now)
  <2>1. Verdict(file, token, now) = file
    BY <1>2 DEF Verdict
  <2> QED
    BY <1>2, <1>5, <2>1
<1>3. CASE ~Accepted(file, now) /\ Legacy /\ Accepted(token, now)
  <2>1. Verdict(file, token, now) = token
    BY <1>3 DEF Verdict
  <2> QED
    BY <1>3, <1>5, <2>1
<1>4. CASE ~Accepted(file, now) /\ ~(Legacy /\ Accepted(token, now))
  <2>1. Verdict(file, token, now) =
          IF file = NoArtifact /\ ~(Legacy /\ token # NoArtifact) THEN NoArtifact ELSE Rejected
    BY <1>4 DEF Verdict
  <2> QED
    BY <1>1, <1>4, <2>1
<1> QED
  BY <1>2, <1>3, <1>4

-----------------------------------------------------------------------------
(* The invariant                                                           *)

States == [source : Sources \cup {"none"}, valid : BOOLEAN, deadline : Int, expires : Nat,
           ents : SUBSET Expiries, wallAt : Nat, monoAt : Nat, last : Nat, next : Nat]
Decisions == [source : Sources \cup {"none"}, valid : BOOLEAN, deadline : Int, expires : Nat,
              ents : SUBSET Expiries, now : Nat]

Types ==
    /\ wall \in 1..MaxWall /\ mono \in 0..MaxMono
    /\ floor \in [time : Nat, at : Nat] /\ state \in States /\ pending \in Decisions
    /\ verified \in Files \cup Tokens \cup {NoArtifact, Rejected}
    /\ watermark \in 0..Seconds(MaxWall) /\ seen \in Nat /\ told \subseteq Expiries /\ ends \in Nat

(* No time observed is later than the clock could have been                *)
Bounded ==
    /\ floor.at <= mono /\ floor.time <= MaxWall + floor.at
    /\ state.monoAt <= mono /\ state.wallAt <= MaxWall + state.monoAt
    /\ state.wallAt <= state.last /\ state.last <= MaxWall + mono
    /\ pending.now <= MaxWall + mono

(* The watermark is the latest second a grant was accepted at              *)
Anchored == accepted = watermark

Ending == ends <= 1 /\ (state.valid => ends = 0)

(* The next transition is not after the entitlement that ends next         *)
Telling ==
    state.valid =>
        /\ told = ActiveAt(state.ents, state.last)
        /\ \A e \in state.ents : e > state.last => state.next # 0 /\ state.next <= e

Core == Types /\ Bounded /\ Anchored /\ Ending /\ Telling

-----------------------------------------------------------------------------
(* Operators                                                               *)

LEMMA Smallest ==
    ASSUME NEW S \in SUBSET Nat, S # {}
    PROVE  \E s \in S : \A t \in S : s <= t
<1> DEFINE R == {ss \in Nat \X Nat : ss[1] < ss[2]}
<1>1. IsWellFoundedOn(R, Nat)
  BY NatLessThanWellFounded DEF OpToRel
<1>2. PICK s \in S : \A t \in S : <<t, s>> \notin R
  <2> HIDE DEF R
  <2> QED
  BY <1>1, WFMin
<1>3. \A t \in S : ~(t < s)
  BY <1>2
<1> QED
  BY <1>3

LEMMA ExpiresNat == \A x \in Expiries \cup {0} : x \in Nat
BY ExpiriesType

LEMMA SecondsType ==
    ASSUME NEW t \in Int PROVE Seconds(t) \in Int /\ (t >= 0 => Seconds(t) >= 0)
BY TickType DEF Seconds

LEMMA SecondsMonotone ==
    ASSUME NEW s \in Int, NEW t \in Int, s <= t PROVE Seconds(s) <= Seconds(t)
BY TickType DEF Seconds

LEMMA EffectiveIs ==
    ASSUME NEW w \in Nat, NEW b \in Nat, NEW e \in Nat, NEW l \in Nat
    PROVE  LET t == Effective(w, b, e, l) IN
             t \in Nat /\ t >= w /\ t >= b + e /\ t >= l /\ t \in {w, b + e, l}
BY DEF Effective, Later

(* The next transition is the first entitlement's end after "after"        *)
LEMMA NextTransitionIs ==
    ASSUME NEW ents \in SUBSET Expiries, NEW after \in Nat
    PROVE  LET n == NextTransition(ents, after) IN
             /\ n \in Nat
             /\ \A e \in ents : e > after => n # 0 /\ n <= e
<1> DEFINE ahead == {e \in ents : e > after}
<1>1. ahead \in SUBSET Nat /\ 0 \notin ahead
  BY ExpiriesType
<1>2. CASE ahead = {}
  BY <1>2 DEF NextTransition
<1>3. CASE ahead # {}
  <2>1. \E e \in ahead : \A f \in ahead : e <= f
    BY <1>1, <1>3, Smallest
  <2> DEFINE n == CHOOSE e \in ahead : \A f \in ahead : e <= f
  <2>2. n \in ahead /\ \A f \in ahead : n <= f
    BY <2>1
  <2>3. NextTransition(ents, after) = n
    BY <1>3 DEF NextTransition
  <2> HIDE DEF n
  <2> QED
    BY <1>1, <2>2, <2>3
<1> QED
  BY <1>2, <1>3

LEMMA ProcessNowIs ==
    ASSUME Types, Bounded
    PROVE  /\ ProcessNow \in Nat /\ ProcessNow <= MaxWall + mono /\ ProcessNow >= wall
           /\ floor # NoFloor => ProcessNow >= floor.time + (mono - floor.at)
<1>1. wall \in Nat /\ mono \in Nat /\ floor.time \in Nat /\ floor.at \in Nat /\ MaxWall \in Nat
      /\ wall <= MaxWall
  BY TimeType DEF Types
<1>2. floor.at <= mono /\ floor.time <= MaxWall + floor.at
  BY DEF Bounded
<1>3. CASE floor = NoFloor
  BY <1>1, <1>3 DEF ProcessNow
<1>4. CASE floor # NoFloor
  <2> DEFINE e == mono - floor.at
             t == Effective(wall, floor.time, e, floor.time)
  <2>1. e \in Nat
    BY <1>1, <1>2
  <2>2. t \in Nat /\ t >= wall /\ t >= floor.time + e /\ t >= floor.time
        /\ t \in {wall, floor.time + e, floor.time}
    BY <1>1, <2>1, EffectiveIs
  <2>3. ProcessNow = t
    BY <1>4 DEF ProcessNow
  <2> HIDE DEF t
  <2> QED
    BY <1>1, <1>2, <2>2, <2>3
<1> QED
  BY <1>3, <1>4

(* Raising the floor keeps it within bounds, and loses no time             *)
LEMMA RaisedIs ==
    ASSUME Types, Bounded, NEW now \in Nat, now <= MaxWall + mono
    PROVE  LET f == Raised(now) IN
             /\ f \in [time : Nat, at : Nat]
             /\ f.at <= mono /\ f.time <= MaxWall + f.at
             /\ now <= f.time + (mono - f.at)
             /\ f # NoFloor \/ now = 0
<1>1. mono \in Nat /\ floor \in [time : Nat, at : Nat] /\ MaxWall \in Nat
  BY TimeType DEF Types
<1>2. floor.at <= mono /\ floor.time <= MaxWall + floor.at
  BY DEF Bounded
<1>3. CASE Raised(now) = floor /\ floor # NoFloor /\ now < floor.time + (mono - floor.at)
  BY <1>1, <1>2, <1>3
<1>4. CASE Raised(now) = [time |-> now, at |-> mono]
  BY <1>1, <1>4 DEF NoFloor
<1> QED
  BY <1>1, <1>3, <1>4 DEF Raised

(* The time of an answer                                                   *)
AnswerTime == Effective(wall, state.wallAt, mono - state.monoAt, state.last)

LEMMA AnswerTimeIs ==
    ASSUME Types, Bounded
    PROVE  AnswerTime \in Nat /\ AnswerTime >= state.last /\ AnswerTime <= MaxWall + mono
<1>1. /\ wall \in Nat /\ mono \in Nat /\ MaxWall \in Nat /\ wall <= MaxWall
      /\ state.wallAt \in Nat /\ state.monoAt \in Nat /\ state.last \in Nat
  BY TimeType DEF Types, States
<1>2. /\ state.monoAt <= mono /\ state.wallAt <= MaxWall + state.monoAt
      /\ state.last <= MaxWall + mono
  BY DEF Bounded
<1> DEFINE e == mono - state.monoAt
<1>3. e \in Nat
  BY <1>1, <1>2
<1>4. LET t == Effective(wall, state.wallAt, e, state.last) IN
        t \in Nat /\ t >= state.last /\ t \in {wall, state.wallAt + e, state.last}
  BY <1>1, <1>3, EffectiveIs
<1> QED
  BY <1>1, <1>2, <1>4 DEF AnswerTime

-----------------------------------------------------------------------------
(* Core is an invariant                                                    *)

LEMMA NoneTyped == NoState \in States /\ NoDecision \in Decisions
BY DEF NoState, NoDecision, States, Decisions, Sources

LEMMA CoreInit == Init => Core
<1> SUFFICES ASSUME Init PROVE Core
  OBVIOUS
<1>1. Seconds(MaxWall) \in Nat
  BY SecondsType, TimeType
<1>2. Types
  BY <1>1, TimeType, NoneTyped DEF Init, Types, NoFloor
<1>3. Bounded
  BY TimeType DEF Init, Bounded, NoFloor, NoState, NoDecision
<1>4. Anchored /\ Ending /\ Telling
  BY DEF Init, Anchored, Ending, Telling, NoState
<1> QED
  BY <1>2, <1>3, <1>4 DEF Core

LEMMA ClocksCore == ASSUME Core, Pass \/ SetClock PROVE Core'
<1>1. wall' \in 1..MaxWall /\ mono' \in 0..MaxMono /\ mono <= mono'
  BY TimeType DEF Pass, SetClock, Core, Types
<1>2. UNCHANGED <<floor, state, verified, pending, watermark, history>>
  BY DEF Pass, SetClock
<1>3. Types'
  BY <1>1, <1>2 DEF Core, Types, history
<1>4. Bounded'
  <2>1. mono \in Nat /\ mono' \in Nat /\ MaxWall \in Nat /\ state.last \in Nat /\ pending.now \in Nat
        /\ floor.at \in Nat /\ state.monoAt \in Nat
    BY <1>1, TimeType DEF Core, Types, States, Decisions
  <2> QED
    BY <1>1, <1>2, <2>1 DEF Core, Bounded
<1>5. Anchored' /\ Ending' /\ Telling'
  BY <1>2 DEF Core, Anchored, Ending, Telling, history, ActiveAt
<1> QED
  BY <1>3, <1>4, <1>5 DEF Core

LEMMA RelaunchCore == ASSUME Core, Relaunch PROVE Core'
<1>1. Types'
  BY NoneTyped, TimeType DEF Relaunch, Core, Types, NoFloor
<1>2. Bounded'
  BY TimeType DEF Relaunch, Bounded, NoFloor, NoState, NoDecision
<1>3. Anchored' /\ Ending' /\ Telling'
  BY DEF Relaunch, Core, Anchored, Ending, Telling, NoState
<1> QED
  BY <1>1, <1>2, <1>3 DEF Core

LEMMA ForgetCore == ASSUME Core, Forget PROVE Core'
<1>1. Types'
  BY NoneTyped DEF Forget, Core, Types, clocks
<1>2. Bounded'
  <2>1. mono \in Nat /\ MaxWall \in Nat
    BY TimeType DEF Core, Types
  <2> QED
    BY <2>1 DEF Forget, Core, Bounded, NoState, clocks
<1>3. Anchored' /\ Ending' /\ Telling'
  BY DEF Forget, Core, Anchored, Ending, Telling, NoState
<1> QED
  BY <1>1, <1>2, <1>3 DEF Core

LEMMA VerifyCore == ASSUME Core, Verify PROVE Core'
<1>1. PICK file \in Files \cup {NoArtifact}, token \in Tokens \cup {NoArtifact} :
        verified' = Verdict(file, token, Seconds(wall))
  BY DEF Verify
<1>2. verified' \in Files \cup Tokens \cup {NoArtifact, Rejected}
  BY <1>1 DEF Verdict
<1>3. UNCHANGED <<clocks, floor, state, pending, watermark, history>>
  BY DEF Verify
<1>4. Types' /\ Bounded'
  BY <1>2, <1>3 DEF Core, Types, Bounded, clocks, history
<1>5. Anchored' /\ Ending' /\ Telling'
  BY <1>3 DEF Core, Anchored, Ending, Telling, history, ActiveAt
<1> QED
  BY <1>4, <1>5 DEF Core

(* A decision changes the floor, the pending decision, and the watermark   *)
(* with the history of it                                                  *)
LEMMA DecisionCore ==
    ASSUME Core, UNCHANGED <<clocks, state, seen, told, ends>>,
           floor' \in [time : Nat, at : Nat], floor'.at <= mono, floor'.time <= MaxWall + floor'.at,
           pending' \in Decisions, pending'.now <= MaxWall + mono,
           verified' \in {verified, NoArtifact},
           watermark' \in 0..Seconds(MaxWall), accepted' = watermark'
    PROVE  Core'
<1>1. Types'
  BY DEF Core, Types, clocks
<1>2. Bounded'
  BY DEF Core, Bounded, clocks
<1>3. Anchored' /\ Ending' /\ Telling'
  BY DEF Core, Anchored, Ending, Telling, ActiveAt
<1> QED
  BY <1>1, <1>2, <1>3 DEF Core

LEMMA WallSecond ==
    ASSUME Types PROVE Seconds(wall) \in 0..Seconds(MaxWall) /\ wall \in Nat /\ wall <= MaxWall
<1>1. wall \in Nat /\ MaxWall \in Nat /\ wall <= MaxWall
  BY TimeType DEF Types
<1>2. Seconds(wall) \in Int /\ Seconds(wall) >= 0 /\ Seconds(MaxWall) \in Int
  BY <1>1, SecondsType
<1>3. Seconds(wall) <= Seconds(MaxWall)
  BY <1>1, SecondsMonotone
<1> QED
  BY <1>1, <1>2, <1>3

LEMMA RefuseType ==
    ASSUME NEW source \in Sources, NEW now \in Nat, Refuse(source, now)
    PROVE  /\ pending' \in Decisions /\ pending'.now = now
           /\ pending'.source = source /\ ~pending'.valid
<1>1. pending' = [source |-> source, valid |-> FALSE, deadline |-> 0, expires |-> 0, ents |-> {}, now |-> now]
  BY DEF Refuse, NoDecision
<1> QED
  BY <1>1 DEF Decisions

LEMMA DecideOnlineCore == ASSUME Core, DecideOnline PROVE Core'
<1>1. PICK l \in Licenses :
        \/ /\ Grant("online", 0, l.expires, l.ents, wall)
           /\ watermark' = Seconds(wall) /\ accepted' = Seconds(wall)
        \/ Refuse("online", wall) /\ UNCHANGED <<watermark, accepted>>
  BY DEF DecideOnline
<1>2. l.expires \in Nat /\ l.ents \in SUBSET Expiries
  <2>1. l \in [expires : Expiries \cup {0}, ents : SUBSET Expiries]
    BY LicensesType
  <2>2. l.expires \in Expiries \cup {0} /\ l.ents \in SUBSET Expiries
    BY <2>1
  <2> QED
    BY <2>2, ExpiresNat
<1>3. Seconds(wall) \in 0..Seconds(MaxWall) /\ wall \in Nat /\ wall <= MaxWall
  BY WallSecond DEF Core
<1>4. mono \in Nat /\ MaxWall \in Nat
  BY TimeType DEF Core, Types
<1>5. floor' = [time |-> wall, at |-> mono]
  BY DEF DecideOnline
<1>6. pending' \in Decisions /\ pending'.now = wall
  <2>1. CASE Grant("online", 0, l.expires, l.ents, wall)
    BY <1>2, <1>3, <2>1 DEF Grant, Decisions, Sources
  <2>2. CASE Refuse("online", wall)
    BY <1>3, <2>2, RefuseType DEF Sources
  <2> QED
    BY <1>1, <2>1, <2>2
<1>7. watermark' \in 0..Seconds(MaxWall) /\ accepted' = watermark'
  BY <1>1, <1>3 DEF Core, Types, Anchored
<1>8. UNCHANGED <<clocks, state, seen, told, ends>> /\ verified' = verified
  BY DEF DecideOnline
<1> QED
  BY <1>3, <1>4, <1>5, <1>6, <1>7, <1>8, DecisionCore

LEMMA DecideDenialCore == ASSUME Core, DecideDenial PROVE Core'
<1>1. Inherited \in Nat /\ Inherited <= MaxWall + mono
  BY ProcessNowIs DEF Core, Inherited
<1>2. floor' \in [time : Nat, at : Nat] /\ floor'.at <= mono /\ floor'.time <= MaxWall + floor'.at
  BY <1>1, RaisedIs DEF Core, DecideDenial
<1>3. pending' \in Decisions /\ pending'.now = Inherited
  BY <1>1, RefuseType DEF DecideDenial, Sources
<1>4. UNCHANGED <<clocks, state, seen, told, ends, verified, watermark, accepted>>
  BY DEF DecideDenial, history
<1>5. watermark' \in 0..Seconds(MaxWall) /\ accepted' = watermark'
  BY <1>4 DEF Core, Types, Anchored
<1> QED
  BY <1>1, <1>2, <1>3, <1>4, <1>5, DecisionCore

LEMMA DeadlineType == ASSUME NEW a \in Files \cup Tokens PROVE Deadline(a) \in Int
<1>1. a.iat \in Int /\ a.exp \in Int /\ a.grace \in Int /\ MaxAge \in Nat
  BY ArtifactsType, LimitsType
<1> QED
  BY <1>1 DEF Deadline, AuthorizationDeadline

(* What an offline validation grants, and when                             *)
LEMMA FinalizeIs ==
    ASSUME Core, Finalize
    PROVE  /\ UNCHANGED <<clocks, state, seen, told, ends>> /\ verified' = NoArtifact
           /\ floor' = Raised(Inherited) /\ pending'.now = Inherited
           /\ \/ Refuse("denial", Inherited) /\ UNCHANGED <<watermark, accepted>>
              \/ /\ verified \in Files \cup Tokens
                 /\ Grant("signed", Deadline(verified), verified.expires, verified.ents, Inherited)
                 /\ watermark' = Ratchet(Seconds(wall)) /\ accepted' = Later(Seconds(wall), accepted)
                 /\ ~Tampered /\ ~(Seconds(Inherited) >= Deadline(verified))
                 /\ verified.expires = 0 \/ ~(verified.expires <= Inherited)
<1>1. verified \in Files \cup Tokens \cup {Rejected}
  BY DEF Core, Types, Finalize
<1>2. CASE \/ verified = Rejected \/ Tampered
           \/ Seconds(Inherited) >= Deadline(verified)
           \/ verified.expires # 0 /\ verified.expires <= Inherited
  <2>1. Refuse("denial", Inherited) /\ UNCHANGED <<watermark, accepted>>
    BY <1>2 DEF Finalize
  <2>2. pending'.now = Inherited
    BY <2>1, RefuseType, ProcessNowIs DEF Core, Inherited, Sources
  <2> QED
    BY <2>1, <2>2 DEF Finalize
<1>3. CASE ~(\/ verified = Rejected \/ Tampered
             \/ Seconds(Inherited) >= Deadline(verified)
             \/ verified.expires # 0 /\ verified.expires <= Inherited)
  <2>1. Grant("signed", Deadline(verified), verified.expires, verified.ents, Inherited)
        /\ watermark' = Ratchet(Seconds(wall)) /\ accepted' = Later(Seconds(wall), accepted)
    BY <1>3 DEF Finalize
  <2>2. pending'.now = Inherited
    BY <2>1 DEF Grant
  <2> QED
    BY <1>1, <1>3, <2>1, <2>2 DEF Finalize
<1> QED
  BY <1>2, <1>3

LEMMA FinalizeCore == ASSUME Core, Finalize PROVE Core'
<1>1. Inherited \in Nat /\ Inherited <= MaxWall + mono
  BY ProcessNowIs DEF Core, Inherited
<1>2. floor' \in [time : Nat, at : Nat] /\ floor'.at <= mono /\ floor'.time <= MaxWall + floor'.at
  BY <1>1, RaisedIs, FinalizeIs DEF Core
<1>3. Seconds(wall) \in 0..Seconds(MaxWall)
  BY WallSecond DEF Core
<1>4. watermark \in 0..Seconds(MaxWall) /\ accepted = watermark
  BY DEF Core, Types, Anchored
<1>5. CASE Refuse("denial", Inherited) /\ UNCHANGED <<watermark, accepted>>
  <2>1. pending' \in Decisions /\ pending'.now = Inherited
    BY <1>1, <1>5, RefuseType DEF Sources
  <2> QED
    BY <1>1, <1>2, <1>4, <1>5, <2>1, FinalizeIs, DecisionCore
<1>6. CASE /\ verified \in Files \cup Tokens
           /\ Grant("signed", Deadline(verified), verified.expires, verified.ents, Inherited)
           /\ watermark' = Ratchet(Seconds(wall)) /\ accepted' = Later(Seconds(wall), accepted)
  <2>1. verified.expires \in Nat /\ verified.ents \in SUBSET Expiries
    <3>1. verified.expires \in Expiries \cup {0} /\ verified.ents \subseteq Expiries
      BY <1>6, ArtifactsType
    <3> QED
      BY <3>1, ExpiresNat
  <2>2. Deadline(verified) \in Int
    BY <1>6, DeadlineType
  <2>3. pending' \in Decisions /\ pending'.now = Inherited
    BY <1>1, <1>6, <2>1, <2>2 DEF Grant, Decisions, Sources
  <2>4. watermark' \in 0..Seconds(MaxWall) /\ accepted' = watermark'
    BY <1>3, <1>4, <1>6 DEF Ratchet, Later
  <2> QED
    BY <1>1, <1>2, <2>3, <2>4, FinalizeIs, DecisionCore
<1> QED
  BY <1>5, <1>6, FinalizeIs

LEMMA InstallCore == ASSUME Core, Install PROVE Core'
<1> DEFINE n == NextTransition(pending.ents, pending.now)
<1>1. pending \in Decisions /\ mono \in 0..MaxMono
  BY DEF Core, Types
<1>2. pending.now \in Nat /\ pending.ents \in SUBSET Expiries /\ mono \in Nat
  BY <1>1, TimeType DEF Decisions
<1>3. n \in Nat /\ \A e \in pending.ents : e > pending.now => n # 0 /\ n <= e
  BY <1>2, NextTransitionIs
<1>4. state' = [source |-> pending.source, valid |-> pending.valid,
                deadline |-> pending.deadline, expires |-> pending.expires,
                ents |-> pending.ents, wallAt |-> pending.now, monoAt |-> mono,
                last |-> pending.now, next |-> n]
  BY DEF Install
<1> HIDE DEF n
<1>5. state' \in States
  BY <1>1, <1>2, <1>3, <1>4 DEF States, Decisions
<1>6. told' \subseteq Expiries /\ seen' \in Nat
  BY <1>2 DEF Install, ActiveAt, Core, Types
<1>7. Types'
  BY <1>5, <1>6, NoneTyped DEF Install, Core, Types, clocks
<1>8. Bounded'
  <2>1. MaxWall \in Nat /\ pending.now <= MaxWall + mono
    BY TimeType DEF Core, Bounded
  <2> QED
    BY <1>2, <1>4, <2>1 DEF Install, Core, Bounded, clocks, NoDecision
<1>9. Anchored' /\ Ending'
  BY DEF Install, Core, Anchored, Ending
<1>10. Telling'
  BY <1>3, <1>4 DEF Install, Telling, ActiveAt
<1> QED
  BY <1>7, <1>8, <1>9, <1>10 DEF Core

(* The three outcomes of an observation                                    *)
LEMMA ObserveIs ==
    ASSUME Observe
    PROVE  /\ state # NoState /\ (Overlap \/ ~Locked)
           /\ floor' = Raised(AnswerTime) /\ seen' = AnswerTime
           /\ UNCHANGED <<clocks, verified, pending, watermark, accepted>>
           /\ \/ /\ state' = Ended(AnswerTime) /\ told' = {}
                 /\ ends' = IF GrantOver(AnswerTime) \/ state.valid THEN ends + 1 ELSE ends
              \/ /\ TransitionDue(AnswerTime)
                 /\ state' = [state EXCEPT !.last = AnswerTime, !.next = NextTransition(state.ents, AnswerTime)]
                 /\ told' = ActiveAt(state.ents, AnswerTime)
                 /\ UNCHANGED ends
              \/ /\ ~TransitionDue(AnswerTime)
                 /\ state' = [state EXCEPT !.last = AnswerTime]
                 /\ UNCHANGED <<told, ends>>
BY DEF Observe, AnswerTime

LEMMA ObserveCore == ASSUME Core, Observe PROVE Core'
<1> DEFINE now == AnswerTime
<1>1. now \in Nat /\ now >= state.last /\ now <= MaxWall + mono
  BY AnswerTimeIs DEF Core
<1>2. floor' \in [time : Nat, at : Nat] /\ floor'.at <= mono /\ floor'.time <= MaxWall + floor'.at
  BY <1>1, RaisedIs, ObserveIs DEF Core
<1>3. seen' = now /\ UNCHANGED <<clocks, verified, pending, watermark, accepted>>
  BY ObserveIs
<1>4. state \in States /\ told \subseteq Expiries /\ ends \in Nat
  BY DEF Core, Types
<1>5. /\ state.wallAt <= state.last /\ state.monoAt <= mono /\ state.wallAt <= MaxWall + state.monoAt
      /\ state.wallAt \in Nat /\ state.last \in Nat
  BY <1>4 DEF Core, Bounded, States
<1>6. /\ ends <= 1 /\ (state.valid => ends = 0)
  BY DEF Core, Ending
<1> HIDE DEF now
<1>7. ASSUME state' \in States, state'.last = now, state'.wallAt = state.wallAt,
             state'.monoAt = state.monoAt, told' \subseteq Expiries, ends' \in Nat, Ending', Telling'
      PROVE  Core'
  <2>1. Types'
    BY <1>1, <1>2, <1>3, <1>7 DEF Core, Types, clocks
  <2>2. Bounded'
    <3>1. MaxWall \in Nat /\ mono \in Nat
      BY TimeType DEF Core, Types
    <3> QED
      BY <1>1, <1>2, <1>3, <1>5, <1>7, <3>1 DEF Core, Bounded, clocks
  <2>3. Anchored'
    BY <1>3 DEF Core, Anchored
  <2> QED
    BY <1>7, <2>1, <2>2, <2>3 DEF Core
<1>8. CASE /\ state' = Ended(now) /\ told' = {}
           /\ ends' = IF GrantOver(now) \/ state.valid THEN ends + 1 ELSE ends
  <2>1. state' = [source |-> state.source, valid |-> FALSE, deadline |-> 0, expires |-> state.expires,
                  ents |-> {}, wallAt |-> state.wallAt, monoAt |-> state.monoAt, last |-> now, next |-> 0]
    BY <1>4, <1>8 DEF Ended, States
  <2>2. state' \in States
    BY <1>1, <1>4, <2>1 DEF States
  <2>3. GrantOver(now) => state.valid
    BY DEF GrantOver
  <2>4. ends' \in Nat /\ ends' <= 1
    BY <1>4, <1>6, <1>8, <2>3
  <2>5. Ending' /\ Telling'
    BY <2>1, <2>4 DEF Ending, Telling
  <2> QED
    BY <1>7, <1>8, <2>1, <2>2, <2>4, <2>5
<1>9. CASE /\ state' = [state EXCEPT !.last = now, !.next = NextTransition(state.ents, now)]
           /\ told' = ActiveAt(state.ents, now)
           /\ UNCHANGED ends
  <2> DEFINE n == NextTransition(state.ents, now)
  <2>1. n \in Nat /\ \A e \in state.ents : e > now => n # 0 /\ n <= e
    <3>1. state.ents \in SUBSET Expiries
      BY <1>4 DEF States
    <3> QED
      BY <1>1, <3>1, NextTransitionIs
  <2>2. state' = [state EXCEPT !.last = now, !.next = n]
    BY <1>9
  <2> HIDE DEF n
  <2>3. state' \in States /\ state'.last = now /\ state'.next = n /\ state'.ents = state.ents
        /\ state'.wallAt = state.wallAt /\ state'.monoAt = state.monoAt /\ state'.valid = state.valid
    BY <1>1, <1>4, <2>1, <2>2 DEF States
  <2>4. told' \subseteq Expiries
    BY <1>4, <1>9 DEF ActiveAt, States
  <2>5. Ending' /\ Telling'
    BY <1>6, <1>9, <2>1, <2>3 DEF Ending, Telling, ActiveAt
  <2> QED
    BY <1>4, <1>7, <1>9, <2>3, <2>4, <2>5
<1>10. CASE /\ ~TransitionDue(now)
            /\ state' = [state EXCEPT !.last = now]
            /\ UNCHANGED <<told, ends>>
  <2>1. state' \in States /\ state'.last = now /\ state'.next = state.next /\ state'.ents = state.ents
        /\ state'.wallAt = state.wallAt /\ state'.monoAt = state.monoAt /\ state'.valid = state.valid
    BY <1>1, <1>4, <1>10 DEF States
  <2>2. state.next = 0 \/ now < state.next
    BY <1>1, <1>4, <1>10 DEF TransitionDue, States
  <2>3. ASSUME state.valid
        PROVE  /\ told = ActiveAt(state.ents, now)
               /\ \A e \in state.ents : e > now => state.next # 0 /\ state.next <= e
    <3>1. told = ActiveAt(state.ents, state.last)
          /\ \A e \in state.ents : e > state.last => state.next # 0 /\ state.next <= e
      BY <2>3 DEF Core, Telling
    <3>2. state.ents \subseteq Nat /\ state.last \in Nat /\ state.next \in Nat
      BY <1>4, ExpiriesType DEF States
    <3>3. \A e \in state.ents : e > now <=> e > state.last
      BY <1>1, <2>2, <3>1, <3>2
    <3> QED
      BY <3>1, <3>3 DEF ActiveAt
  <2>4. Ending' /\ Telling'
    BY <1>6, <1>10, <2>1, <2>3 DEF Ending, Telling
  <2> QED
    BY <1>4, <1>7, <1>10, <2>1, <2>4
<1> QED
  BY <1>8, <1>9, <1>10, ObserveIs DEF now

LEMMA CoreStep == ASSUME Core, [Next]_vars PROVE Core'
<1>1. CASE UNCHANGED vars
  BY <1>1 DEF vars, clocks, history, Core, Types, Bounded, Anchored, Ending, Telling, ActiveAt
<1>2. CASE Next
  BY <1>2, ClocksCore, RelaunchCore, DecideOnlineCore, DecideDenialCore, VerifyCore,
     FinalizeCore, InstallCore, ForgetCore, ObserveCore DEF Next
<1> QED
  BY <1>1, <1>2

(* Every reachable state satisfies the invariant: the times the process    *)
(* keeps are typed and no later than its clocks allow, the watermark is    *)
(* the latest accepted second, a grant ends once, and the next transition  *)
(* set_runtime_license_state_until or runtime_license_state left behind is *)
(* never after the entitlement that ends next                              *)
THEOREM CoreInvariant == Spec => []Core
<1> QED
  BY CoreInit, CoreStep, PTL DEF Spec

-----------------------------------------------------------------------------
(* What follows from it                                                    *)

(* The times and records the client keeps have their types; no time it     *)
(* keeps is later than the clocks have been                                *)
THEOREM TypeCorrect == Spec => []TypeOK
<1>1. ASSUME Core PROVE TypeOK
  <2>1. /\ wall \in 1..MaxWall /\ mono \in 0..MaxMono
        /\ floor \in [time : Nat, at : Nat] /\ state \in States
        /\ verified \in Files \cup Tokens \cup {NoArtifact, Rejected}
        /\ watermark \in 0..Seconds(MaxWall) /\ told \subseteq Expiries /\ ends \in Nat
    BY <1>1 DEF Core, Types
  <2>2. floor \in [time : 0..MaxWall + MaxMono, at : 0..mono]
    <3>1. floor.time \in Nat /\ floor.at \in Nat /\ mono \in Nat /\ mono <= MaxMono
          /\ MaxWall \in Nat /\ MaxMono \in Nat
      BY <2>1, TimeType
    <3>2. floor.at <= mono /\ floor.time <= MaxWall + floor.at
      BY <1>1 DEF Core, Bounded
    <3>3. floor.time \in 0..MaxWall + MaxMono /\ floor.at \in 0..mono
      BY <3>1, <3>2
    <3> QED
      BY <2>1, <3>3
  <2>3. state.source \in Sources \cup {"none"} /\ state.ents \subseteq Expiries
    BY <2>1 DEF States
  <2>4. state.monoAt <= mono /\ state.wallAt <= state.last
    BY <1>1 DEF Core, Bounded
  <2>5. accepted \in 0..Seconds(MaxWall)
    BY <1>1, <2>1 DEF Core, Anchored
  <2> QED
    BY <2>1, <2>2, <2>3, <2>4, <2>5 DEF TypeOK
<1> QED
  BY <1>1, CoreInvariant, PTL

(* runtime_license_state ends a grant with one terminal event, however     *)
(* often the license is read afterwards                                    *)
THEOREM OneEnd == Spec => []EndsOnce
<1>1. ASSUME Core PROVE EndsOnce
  BY <1>1 DEF Core, Ending, EndsOnce
<1> QED
  BY <1>1, CoreInvariant, PTL

(* What subscribers were told about the entitlements is what is active at  *)
(* the time of the last answer, although only due transitions are told     *)
THEOREM SubscribersAreCurrent == Spec => []ToldIsCurrent
<1>1. ASSUME Core PROVE ToldIsCurrent
  BY <1>1 DEF Core, Telling, ToldIsCurrent
<1> QED
  BY <1>1, CoreInvariant, PTL

LEMMA FreeIsNoDecision == ASSUME ~Locked PROVE pending = NoDecision /\ pending.source = "none"
BY DEF Locked, NoDecision

LEMMA WindowStep ==
    ASSUME Core, [Next]_vars, ~Locked, pending'.source = "signed"
    PROVE  Seconds(wall) >= accepted - MaxSkew
<1>1. Finalize
  <2>1. pending'.source # pending.source
    BY FreeIsNoDecision
  <2>2. ~(Pass \/ SetClock \/ Verify \/ Forget \/ Observe \/ UNCHANGED vars)
    BY <2>1 DEF Pass, SetClock, Verify, Forget, Observe, vars
  <2>3. ~Relaunch /\ ~Install
    BY DEF Relaunch, Install, NoDecision
  <2>4. ~DecideOnline
    <3>1. ASSUME NEW l \in Licenses, Grant("online", 0, l.expires, l.ents, wall) PROVE FALSE
      BY <3>1 DEF Grant
    <3>2. ~Refuse("online", wall)
      BY DEF Refuse, NoDecision
    <3> QED
      BY <3>1, <3>2 DEF DecideOnline
  <2>5. ~DecideDenial
    BY DEF DecideDenial, Refuse, NoDecision
  <2> QED
    BY <2>2, <2>3, <2>4, <2>5 DEF Next
<1>2. ~Tampered
  <2>1. ~Refuse("denial", Inherited)
    BY DEF Refuse, NoDecision
  <2> QED
    BY <1>1, <2>1, FinalizeIs
<1>3. Seconds(wall) \in Int /\ Seconds(wall) >= 0 /\ watermark \in Int /\ MaxSkew \in Nat
      /\ accepted = watermark
  BY WallSecond, LimitsType DEF Core, Types, Anchored
<1> QED
  BY <1>2, <1>3 DEF Tampered

(* Over any number of launches and clock changes, finalize_offline_        *)
(* validation accepts nothing more than the tolerated skew before the      *)
(* latest accepted second                                                  *)
THEOREM OfflineAcceptanceWindow == Spec => OfflineWindow
<1>1. ASSUME Core, [Next]_vars
      PROVE  [(~Locked /\ pending'.source = "signed") => Seconds(wall) >= accepted - MaxSkew]_vars
  BY <1>1, WindowStep
<1> QED
  BY <1>1, CoreInvariant, PTL DEF Spec, OfflineWindow

-----------------------------------------------------------------------------
(* The order of the answers, where no reader runs inside an installation   *)

(* The floor is never behind what was seen, nor is the decision in force   *)
(* or the one being installed; a signed one was accepted at its own time   *)
Order ==
    /\ floor = NoFloor => seen = 0
    /\ pending.source # "online" => seen <= floor.time + (mono - floor.at)
    /\ (Locked /\ pending.source # "online") => seen <= pending.now
    /\ state # NoState => seen <= state.last
    /\ pending.source = "signed" =>
        /\ Seconds(pending.now) < pending.deadline
        /\ pending.expires = 0 \/ pending.now < pending.expires

LEMMA OrderInit == Init => Order
BY DEF Init, Order, NoFloor, NoDecision, Locked, Seconds

LEMMA Numbers ==
    ASSUME Core
    PROVE  /\ wall \in Nat /\ wall >= 1 /\ mono \in Nat /\ floor.time \in Nat /\ floor.at \in Nat
           /\ floor.at <= mono /\ seen \in Nat /\ state.last \in Nat /\ pending.now \in Nat
BY TimeType DEF Core, Types, Bounded, States, Decisions

(* The time of an inherited decision is not before what was seen           *)
LEMMA InheritedIs ==
    ASSUME Core, Order, ~Locked
    PROVE  /\ Inherited \in Nat /\ Inherited <= MaxWall + mono
           /\ seen <= Inherited /\ Raised(Inherited) # NoFloor
<1>1. Inherited \in Nat /\ Inherited <= MaxWall + mono /\ Inherited >= wall
      /\ (floor # NoFloor => Inherited >= floor.time + (mono - floor.at))
  BY ProcessNowIs DEF Core, Inherited
<1>2. Raised(Inherited) # NoFloor
  BY <1>1, Numbers, RaisedIs DEF Core
<1>3. floor = NoFloor \/ seen <= floor.time + (mono - floor.at)
  BY FreeIsNoDecision DEF Order
<1>4. seen <= Inherited
  BY <1>1, <1>3, Numbers DEF Order
<1> QED
  BY <1>1, <1>2, <1>4

(* What every decision but an online one does to the order                 *)
LEMMA DecisionOrder ==
    ASSUME Core, Order, ~Locked, UNCHANGED <<clocks, state, seen>>,
           floor' = Raised(Inherited), pending'.now = Inherited,
           pending'.source = "signed" =>
               /\ Seconds(Inherited) < pending'.deadline
               /\ pending'.expires = 0 \/ Inherited < pending'.expires
    PROVE  Order'
<1>1. /\ Inherited \in Nat /\ Inherited <= MaxWall + mono
      /\ seen <= Inherited /\ floor' # NoFloor
  BY InheritedIs
<1>2. Inherited <= floor'.time + (mono - floor'.at) /\ floor' \in [time : Nat, at : Nat]
  BY <1>1, RaisedIs DEF Core
<1>3. seen <= floor'.time + (mono - floor'.at)
  BY <1>1, <1>2, Numbers
<1>4. mono' = mono /\ seen' = seen /\ state' = state
  BY DEF clocks
<1> QED
  BY <1>1, <1>3, <1>4 DEF Order

LEMMA ClocksOrder == ASSUME Core, Order, Pass \/ SetClock PROVE Order'
<1>1. mono' \in Nat /\ mono <= mono'
  BY Numbers DEF Pass, SetClock
<1>2. UNCHANGED <<floor, state, pending, seen>>
  BY DEF Pass, SetClock, history
<1> QED
  BY <1>1, <1>2, Numbers DEF Order, Locked

LEMMA RelaunchOrder == ASSUME Relaunch PROVE Order'
BY DEF Relaunch, Order, NoFloor, NoDecision, Locked

LEMMA ForgetOrder == ASSUME Order, Forget PROVE Order'
BY DEF Order, Forget, clocks, Locked

LEMMA VerifyOrder == ASSUME Order, Verify PROVE Order'
BY DEF Order, Verify, clocks, history, Locked

LEMMA DecideOnlineOrder == ASSUME Core, Order, DecideOnline PROVE Order'
<1>1. pending'.source = "online"
  <2>1. ASSUME NEW l \in Licenses, Grant("online", 0, l.expires, l.ents, wall)
        PROVE  pending'.source = "online"
    BY <2>1 DEF Grant
  <2>2. ASSUME Refuse("online", wall) PROVE pending'.source = "online"
    BY <2>2 DEF Refuse, NoDecision
  <2> QED
    BY <2>1, <2>2 DEF DecideOnline
<1>2. floor' # NoFloor
  BY Numbers DEF DecideOnline, NoFloor
<1>3. UNCHANGED <<state, seen>>
  BY DEF DecideOnline
<1> QED
  BY <1>1, <1>2, <1>3 DEF Order

LEMMA DecideDenialOrder == ASSUME Core, Order, DecideDenial PROVE Order'
<1>1. pending'.source = "denial" /\ pending'.now = Inherited
  BY DEF DecideDenial, Refuse, NoDecision
<1>2. floor' = Raised(Inherited) /\ UNCHANGED <<clocks, state, seen>> /\ ~Locked
  BY DEF DecideDenial, history
<1> QED
  BY <1>1, <1>2, DecisionOrder

LEMMA FinalizeOrder == ASSUME Core, Order, Finalize PROVE Order'
<1>1. floor' = Raised(Inherited) /\ pending'.now = Inherited /\ UNCHANGED <<clocks, state, seen>>
  BY FinalizeIs
<1>2. ~Locked
  BY DEF Finalize
<1>3. CASE Refuse("denial", Inherited)
  <2>1. pending'.source = "denial"
    BY <1>3 DEF Refuse, NoDecision
  <2> QED
    BY <1>1, <1>2, <2>1, DecisionOrder
<1>4. CASE /\ verified \in Files \cup Tokens
           /\ Grant("signed", Deadline(verified), verified.expires, verified.ents, Inherited)
           /\ ~(Seconds(Inherited) >= Deadline(verified))
           /\ verified.expires = 0 \/ ~(verified.expires <= Inherited)
  <2>1. Deadline(verified) \in Int
    BY <1>4, DeadlineType
  <2>2. Inherited \in Nat
    BY <1>2, InheritedIs
  <2>3. Seconds(Inherited) \in Int
    BY <2>2, SecondsType
  <2>4. verified.expires \in Nat
    <3>1. verified.expires \in Expiries \cup {0}
      BY <1>4, ArtifactsType
    <3> QED
      BY <3>1, ExpiresNat
  <2>5. pending'.deadline = Deadline(verified) /\ pending'.expires = verified.expires
    BY <1>4 DEF Grant
  <2>6. Seconds(Inherited) < pending'.deadline
    BY <1>4, <2>1, <2>3, <2>5
  <2>7. pending'.expires = 0 \/ Inherited < pending'.expires
    BY <1>4, <2>2, <2>4, <2>5
  <2> QED
    BY <1>1, <1>2, <2>6, <2>7, DecisionOrder
<1> QED
  BY <1>3, <1>4, FinalizeIs

LEMMA InstallOrder == ASSUME Core, Order, Install PROVE Order'
<1>1. pending' = NoDecision /\ Locked /\ UNCHANGED <<clocks, floor>>
      /\ seen' = IF pending.source = "online" THEN 0 ELSE seen
  BY DEF Install
<1>2. state'.last = pending.now
  BY DEF Install
<1>3. seen' <= pending.now /\ (floor = NoFloor => seen' = 0)
  BY <1>1, Numbers DEF Order
<1>4. seen' <= floor.time + (mono - floor.at)
  BY <1>1, Numbers DEF Order
<1>5. floor' = floor /\ mono' = mono
  BY <1>1 DEF clocks
<1> QED
  BY <1>1, <1>2, <1>3, <1>4, <1>5 DEF Order, NoDecision, Locked

LEMMA ObserveOrder == ASSUME ~Overlap, Core, Order, Observe PROVE Order'
<1> DEFINE now == AnswerTime
<1>1. ~Locked /\ UNCHANGED <<clocks, pending>> /\ seen' = now /\ floor' = Raised(now)
  BY ObserveIs
<1>2. now \in Nat /\ now >= wall /\ now <= MaxWall + mono
  <2>1. now \in Nat /\ now <= MaxWall + mono
    BY AnswerTimeIs DEF Core
  <2>2. now >= wall
    <3>1. wall \in Nat /\ state.wallAt \in Nat /\ state.last \in Nat /\ mono - state.monoAt \in Nat
      BY Numbers DEF Core, Types, Bounded, States
    <3> QED
      BY <3>1, EffectiveIs DEF AnswerTime
  <2> QED
    BY <2>1, <2>2
<1>3. now <= floor'.time + (mono - floor'.at) /\ floor' # NoFloor
  BY <1>1, <1>2, Numbers, RaisedIs DEF Core
<1>4. state'.last = now
  <2>1. state \in States
    BY DEF Core, Types
  <2> QED
    BY <2>1, ObserveIs DEF Ended, States
<1>5. pending' = NoDecision /\ pending.source = "none"
  BY <1>1, FreeIsNoDecision
<1> HIDE DEF now
<1> QED
  BY <1>1, <1>2, <1>3, <1>4, <1>5 DEF Order, clocks, NoDecision, Locked

LEMMA OrderStep == ASSUME ~Overlap, Core, Order, [Next]_vars PROVE Order'
<1>1. CASE UNCHANGED vars
  BY <1>1 DEF vars, clocks, history, Order, Locked
<1>2. CASE Next
  BY <1>2, ClocksOrder, RelaunchOrder, DecideOnlineOrder, DecideDenialOrder, VerifyOrder,
     FinalizeOrder, InstallOrder, ForgetOrder, ObserveOrder DEF Next
<1> QED
  BY <1>1, <1>2

LEMMA OrderInvariant == ASSUME ~Overlap PROVE Spec => [](Core /\ Order)
<1>1. Init => Core /\ Order
  BY CoreInit, OrderInit
<1>2. Core /\ Order /\ [Next]_vars => (Core /\ Order)'
  BY CoreStep, OrderStep
<1> QED
  BY <1>1, <1>2, PTL DEF Spec

LEMMA AnswerStep == ASSUME Core, Order, [Next]_vars PROVE seen' >= seen \/ seen' = 0
<1>1. CASE Observe
  BY <1>1, AnswerTimeIs, ObserveIs, Numbers DEF Core, Order
<1>2. CASE Relaunch \/ Install
  BY <1>2, Numbers DEF Relaunch, Install
<1>3. CASE Pass \/ SetClock \/ DecideOnline \/ DecideDenial \/ Verify \/ Finalize \/ Forget
           \/ UNCHANGED vars
  <2>1. seen' = seen
    BY <1>3 DEF Pass, SetClock, DecideOnline, DecideDenial, Verify, Finalize, Forget, vars, history
  <2> QED
    BY <2>1, Numbers
<1> QED
  BY <1>1, <1>2, <1>3 DEF Next

(* Whatever the user does to the clock, a process answers reads of the     *)
(* license state at times that never go back, but for an online answer:    *)
(* each decision inherits process_effective_now, each state its last time  *)
THEOREM AnswersAdvance == ASSUME ~Overlap PROVE Spec => AnswersNeverGoBack
<1>1. Core /\ Order /\ [Next]_vars => [seen' >= seen \/ seen' = 0]_vars
  BY AnswerStep
<1> QED
  BY <1>1, OrderInvariant, PTL DEF Spec, AnswersNeverGoBack

(* finalize_offline_validation grants on nothing that a read of the        *)
(* license state has already found to be over: neither the artifact, nor   *)
(* its license, nor one of its entitlements                                *)
THEOREM NothingRevives == ASSUME ~Overlap PROVE Spec => []NoRevival
<1>1. ASSUME Core, Order, pending.source = "signed" PROVE NoRevival
  <2>1. seen <= pending.now
    BY <1>1 DEF Order, Locked, NoDecision
  <2>2. Seconds(pending.now) < pending.deadline /\ (pending.expires = 0 \/ pending.now < pending.expires)
    BY <1>1 DEF Order
  <2>3. pending.deadline \in Int /\ pending.expires \in Nat /\ pending.now \in Nat /\ seen \in Nat
    BY <1>1 DEF Core, Types, Decisions
  <2>4. Seconds(seen) <= Seconds(pending.now) /\ Seconds(seen) \in Int /\ Seconds(pending.now) \in Int
    BY <2>1, <2>3, SecondsMonotone, SecondsType
  <2>5. Seconds(seen) < pending.deadline /\ (pending.expires = 0 \/ seen < pending.expires)
    BY <2>1, <2>2, <2>3, <2>4
  <2>6. \A e \in Expiries : e <= seen => e \notin ActiveAt(pending.ents, pending.now)
    <3>1. ASSUME NEW e \in Expiries, e <= seen PROVE ~(e > pending.now)
      <4>1. e \in Nat
        BY ExpiriesType
      <4> QED
        BY <2>1, <2>3, <3>1, <4>1
    <3> QED
      BY <3>1 DEF ActiveAt
  <2> QED
    BY <2>5, <2>6 DEF NoRevival
<1>2. Core /\ Order => NoRevival
  BY <1>1 DEF NoRevival
<1> QED
  BY <1>2, OrderInvariant, PTL
=============================================================================
