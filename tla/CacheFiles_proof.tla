--------------------------- MODULE CacheFiles_proof ---------------------------
(***************************************************************************)
(* The files of the license cache (cache.rs), proved for any activations,  *)
(* any files of earlier releases and any number of transactions, failing   *)
(* file operations, damaged files and crashes between two of them:         *)
(*   - an inductive invariant of the files, the steps still to be done and *)
(*     the histories, and the promises about denials, resets, migrations   *)
(*     and moves that follow from it;                                      *)
(*   - that on an installation without files of earlier releases the files *)
(*     implement the transactions the client's modules take the cache for. *)
(***************************************************************************)
EXTENDS CacheFiles, TLAPS

(* Where value k of cache c is kept                                        *)
F(c, p, k) == file[At(c, p, k)]
USE DEF F

EarlierOf(k) == IF k = "license" THEN Earlier ELSE Artifact(Earlier.id)
NoLicense == ~Present("product", "license")
GenericLicense == Present("generic", "license")

Touches(s, c, k) == s.slot[1] = c /\ s.slot[3] = k
Moves(s) == s.group = s.slot[3]
WritesLicense(s) == s.slot = At("product", "current", "license") /\ s.content # Absent
WritesArtifact(s) == s.slot = At("product", "current", "artifact") /\ s.content # Absent

TransactionKinds == {"none", "activate", "validate", "invalidate", "clear", "store_artifact",
                     "clear_artifacts", "read", "start"}

(* The process, its transaction and the steps of it                        *)
Types ==
    /\ TypeOK
    /\ op.do \in TransactionKinds
    /\ failed \in BOOLEAN /\ gone \in BOOLEAN /\ halfway \in BOOLEAN /\ origin \in AllOrigins
    /\ \A s \in todo : s.at \in Nat /\ s.content # Corrupt
    /\ up = "starting" <=> op.do = "start"
    /\ up = "down" => op.do = "none"
    /\ op.do = "none" => op = NoOp /\ todo = {} /\ ~failed
    /\ failed => todo = {}

(* Where files of earlier releases may lie, and what they hold             *)
Inherited ==
    /\ \A c \in Caches, p \in Places, k \in Keys :
          /\ c = "generic" \/ p # "current" => F(c, p, k) \in {Absent, EarlierOf(k)}
          /\ c = "generic" /\ F(c, p, k) # Absent => origin = "generic"
          /\ c = "product" /\ p # "current" /\ F(c, p, k) # Absent => origin = p
    /\ op.do = "start" => \A p \in Places : F("product", p, "license") # Corrupt

(* What the steps of each transaction are                                  *)
Shape(s) ==
    \/ /\ Moves(s) /\ op.do \in {"read", "validate", "invalidate", "start"}
       /\ s.content # Absent => s.slot[2] = "current"
       /\ s.content = Absent => s.slot[2] # "current"
       /\ s.slot[1] = "generic" => op.do = "start"
       /\ s.slot[3] = "artifact" => op.do = "read" \/ s.slot[1] = "generic"
    \/ /\ s.group = "set" /\ s.onFail = "abort" /\ WritesLicense(s)
       /\ op.do \in {"activate", "validate", "start"}
       /\ op.do = "activate" => s.content.verdict = "granted"
    \/ /\ s.group = "set" /\ s.onFail = "abort" /\ WritesArtifact(s)
       /\ op.do \in {"store_artifact", "start"}
    \/ /\ s.group = "tombstone" /\ WritesLicense(s) /\ op.do = "invalidate"
       /\ s.content.verdict = "refused"
    \/ /\ s.group = "key" /\ s.content = Absent /\ op.do \in {"activate", "clear_artifacts"}
       /\ Touches(s, "product", "artifact")
    \/ /\ s.group = "directory" /\ s.content = Absent
       /\ \/ op.do = "activate" /\ s.slot[1] = "product" /\ s.slot[2] = "fallback"
          \/ op.do \in {"clear", "invalidate"} /\ s.slot[1] = "product" /\ s.onFail = "abort"
          \/ op.do = "start" /\ s.slot[1] = "generic" /\ s.onFail = "abort"

(* Steps of a group fail alike                                             *)
Groups == \A s, t \in todo : s.group = t.group => s.onFail = t.onFail

(* A value is moved before anything else is done to it; it is written      *)
(* before it is removed                                                    *)
Orderly(m) ==
    /\ \A t \in todo : t # m /\ Touches(t, m.slot[1], m.slot[3]) =>
          \/ m.at < t.at
          \/ Moves(t) /\ t.content # Absent /\ m.content = Absent /\ t.at < m.at
    /\ m.content # Absent => /\ F(m.slot[1], "current", m.slot[3]) = Absent
                             /\ m.content = Read(m.slot[1], m.slot[3])
    /\ m.content = Absent =>
          \/ F(m.slot[1], "current", m.slot[3]) # Absent
          \/ \E w \in todo : /\ Moves(w) /\ w.content # Absent
                             /\ Touches(w, m.slot[1], m.slot[3])
Moving == \A m \in todo : Moves(m) => Orderly(m)

(* What a transaction writes over the record it has found                  *)
Deciding == \A s \in todo : s.group = "set" /\ WritesLicense(s) =>
    /\ op.do = "validate" =>
          /\ \A t \in todo : t.group = "set" => t = s
          /\ s.content.id = License.id
          /\ s.content.verdict \in {"denied", "refused", "granted"}
                \/ License.verdict \notin OnlineDenials
    /\ op.do = "start" =>
          IF License # Absent
          THEN /\ s.content.id = License.id
               /\ s.content.verdict \in OnlineDenials <=> License.verdict \in OnlineDenials
          ELSE /\ NoLicense /\ GenericLicense
               /\ s.content.id = Earlier.id /\ s.content.verdict \notin OnlineDenials

Storing == \A s \in todo : s.group = "set" /\ WritesArtifact(s) =>
    /\ op.do = "store_artifact" => License.id = s.content.id /\ s.content.id \notin denied
    /\ op.do = "start" =>
          /\ GenericLicense /\ NoLicense
          /\ s.content.id = Read("generic", "artifact").id
          /\ \A t \in todo : t.group = "set" => t = s \/ s.at < t.at

(* Licenses go after the artifacts                                         *)
Clearing == \A s \in todo :
    s.group = "directory" /\ s.slot[3] = "license" /\ s.slot[1] = "product" /\ s.slot[2] # "fallback"
        => \A p \in Places : \/ F("product", p, "artifact") = Absent
                             \/ \E t \in todo : /\ t.slot = At("product", p, "artifact")
                                                /\ t.group = "directory" /\ t.at < s.at

(* The earlier cache is cleared once the license has been copied, and that *)
(* once the artifact has been                                              *)
Copying ==
    /\ \A s \in todo : s.group = "directory" /\ s.slot[1] = "generic" =>
          \/ ~NoLicense
          \/ \E t \in todo : t.group = "set" /\ WritesLicense(t) /\ t.at < s.at
    /\ NoLicense /\ GenericLicense =>
          ArtifactId \in {None, Read("generic", "artifact").id}
    /\ \A s \in todo : op.do = "start" /\ NoLicense /\ s.group = "set" /\ WritesLicense(s) =>
          \/ ArtifactId = Read("generic", "artifact").id
          \/ \E t \in todo : t.group = "set" /\ WritesArtifact(t) /\ t.at < s.at

(* A migration that is neither over nor stopped halfway                    *)
Migrating ==
    /\ \A s \in todo : s.slot[1] = "generic" /\ s.slot[3] = "license" /\ s.content # Absent => GenericLicense
    /\ ~halfway /\ GenericLicense =>
          /\ up # "up" /\ ~gone /\ denied = {}
          /\ up = "down" => NoLicense
          /\ up = "starting" /\ ~failed => \A p \in Places :
                (\/ F("generic", p, "license") # Absent
                 \/ \E w \in todo : w.slot = At("generic", p, "license") /\ w.content # Absent)
                => \E t \in todo : t.slot = At("generic", p, "license") /\ t.group = "directory"

(* After a reset nothing is under way that would write a license           *)
Resetting == gone /\ ~halfway => NoLicense /\ \A s \in todo : ~WritesLicense(s)

(* A denial that is recorded and no longer readable leaves no artifact of  *)
(* its activation, in any of the files                                     *)
Shielding == ~halfway /\ License.id \in denied /\ License.verdict \notin OnlineDenials =>
    \A p \in Places : F("product", p, "artifact").id # License.id

(* The inductive invariant                                                 *)
IInv == Types /\ Inherited /\ (\A s \in todo : Shape(s)) /\ Groups /\ Moving /\ Deciding /\ Storing
        /\ Clearing /\ Copying /\ Migrating /\ Resetting /\ Shielding

-----------------------------------------------------------------------------
(* The values files hold: records and artifacts name activations, what is  *)
(* absent or damaged names none.                                           *)
LEMMA Values ==
    /\ Earlier \in LicenseRecord /\ Earlier.id \in Ids /\ Earlier.verdict = "granted"
    /\ \A id \in Ids : Artifact(id) \in LicenseRecord /\ Artifact(id).id = id
    /\ Absent # Corrupt /\ Absent.id = None /\ Corrupt.id = None
    /\ Absent.verdict = "none" /\ Corrupt.verdict = "corrupt"
    /\ \A r \in LicenseRecord :
          r # Absent /\ r # Corrupt /\ r.id \in Ids /\ r.id # None /\ r.verdict \in Verdicts
    /\ \A k \in Keys : EarlierOf(k) \in LicenseRecord /\ EarlierOf(k).id = Earlier.id
  BY NoneNotAnId, SomeId DEF Earlier, LicenseRecord, Verdicts, Artifact, Absent, NoRecord, Corrupt,
     EarlierOf, Keys

(* Slots and their parts.                                                  *)
LEMMA AtForm ==
    \A c \in Caches, p \in Places, k \in Keys :
        At(c, p, k) \in Slots /\ At(c, p, k)[1] = c /\ At(c, p, k)[2] = p /\ At(c, p, k)[3] = k
  BY DEF At, Slots

(* A slot is determined by its parts.                                      *)
LEMMA SlotForm ==
    \A x \in Slots : /\ x[1] \in Caches /\ x[2] \in Places /\ x[3] \in Keys
                     /\ x = At(x[1], x[2], x[3])
  BY DEF At, Slots

(* What readers find, from the contents of the three places                *)
Firsts(current, old, fallback) ==
    IF current # Absent THEN IF current = Corrupt THEN Absent ELSE current
    ELSE IF old # Absent THEN IF old = Corrupt THEN Absent ELSE old
    ELSE IF fallback = Corrupt THEN Absent ELSE fallback

(* get_unlocked: what a reader finds, before and after a step, depends on  *)
(* the three files a value may be in.                                      *)
LEMMA ReadIs ==
    \A c \in Caches, k \in Keys :
        /\ Read(c, k) = Firsts(F(c, "current", k), F(c, "old", k), F(c, "fallback", k))
        /\ Present(c, k) <=> \/ F(c, "current", k) # Absent \/ F(c, "old", k) # Absent
                             \/ F(c, "fallback", k) # Absent
        /\ Read(c, k)' = Firsts(F(c, "current", k)', F(c, "old", k)', F(c, "fallback", k)')
        /\ Present(c, k)' <=> \/ F(c, "current", k)' # Absent \/ F(c, "old", k)' # Absent
                              \/ F(c, "fallback", k)' # Absent
  BY DEF Read, Found, Firsts, Present, Places

(* A file operation changes one file.                                      *)
LEMMA Applies ==
    ASSUME Types, NEW s \in todo, file' = Applied(s)
    PROVE  /\ file' \in [Slots -> Contents]
           /\ \A c \in Caches, p \in Places, k \in Keys :
                F(c, p, k)' = IF s.slot = At(c, p, k) THEN s.content ELSE F(c, p, k)
<1>1. s.slot \in Slots /\ s.content \in Contents /\ file \in [Slots -> Contents]
  BY DEF Types, TypeOK
<1> QED
  BY <1>1, AtForm DEF Applied

(* Moving a value, or changing another one, does not change what readers   *)
(* find                                                                    *)
LEMMA Untouched ==
    ASSUME IInv, NEW s \in todo, IsNext(s), file' = Applied(s)
    PROVE  \A c \in Caches, k \in Keys : ~Touches(s, c, k) =>
              /\ \A p \in Places : F(c, p, k)' = F(c, p, k)
              /\ Read(c, k)' = Read(c, k)
              /\ Present(c, k)' <=> Present(c, k)
<1> TAKE c \in Caches, k \in Keys
<1> HAVE ~Touches(s, c, k)
<1>1. \A p \in Places : F(c, p, k)' = F(c, p, k)
  BY Applies, AtForm DEF Touches, IInv
<1> QED
  BY <1>1, ReadIs DEF Places

(* migrate_legacy_value_unlocked: neither half of a move changes what      *)
(* readers find, and after each the value is in its new file.              *)
LEMMA Moved ==
    ASSUME IInv, NEW s \in todo, IsNext(s), file' = Applied(s), Moves(s)
    PROVE  \A c \in Caches, k \in Keys :
              /\ Read(c, k)' = Read(c, k)
              /\ Present(c, k)' <=> Present(c, k)
              /\ Touches(s, c, k) => F(c, "current", k)' # Absent
<1> TAKE c \in Caches, k \in Keys
<1>1. ASSUME ~Touches(s, c, k)  PROVE Read(c, k)' = Read(c, k) /\ (Present(c, k)' <=> Present(c, k))
  BY <1>1, Untouched
<1>2. ASSUME Touches(s, c, k)
      PROVE  /\ Read(c, k)' = Read(c, k) /\ (Present(c, k)' <=> Present(c, k))
             /\ F(c, "current", k)' # Absent
  <2>1. c = s.slot[1] /\ k = s.slot[3] /\ s.slot \in Slots /\ s.slot = At(c, s.slot[2], k)
    BY <1>2, SlotForm DEF Touches, IInv, Types, TypeOK
  <2>2. Shape(s)
    BY DEF IInv
  <2>3. s.content # Absent <=> s.slot[2] = "current"
    BY <2>1, <2>2 DEF Shape, Moves, WritesLicense, WritesArtifact, Keys
  <2>4. \A p \in Places : F(c, p, k)' = IF p = s.slot[2] THEN s.content ELSE F(c, p, k)
    BY <2>1, Applies, AtForm DEF IInv
  <2>5. CASE s.content # Absent
    <3>1. F(c, "current", k) = Absent /\ s.content = Read(c, k) /\ s.content # Corrupt
      BY <2>1, <2>5 DEF IInv, Moving, Orderly, Types
    <3>2. F(c, "current", k)' = s.content
      BY <2>3, <2>4, <2>5 DEF Places
    <3> QED
      BY <3>1, <3>2, <2>5, ReadIs DEF Firsts
  <2>6. CASE s.content = Absent
    <3>1. F(c, "current", k) # Absent
      <4>1. SUFFICES ASSUME NEW w \in todo, Moves(w), Touches(w, s.slot[1], s.slot[3]), w.content # Absent
                     PROVE  FALSE
        BY <2>1, <2>6 DEF IInv, Moving, Orderly
      <4>2. Touches(s, w.slot[1], w.slot[3]) /\ s # w
        BY <4>1, <2>6 DEF Touches
      <4>3. w.at < s.at
        BY <4>1, <4>2 DEF IInv, Moving, Orderly
      <4> QED
        BY <4>1, <4>3 DEF IsNext, IInv, Types
    <3>2. F(c, "current", k)' = F(c, "current", k)
      BY <2>3, <2>4, <2>6 DEF Places
    <3> QED
      BY <3>1, <3>2, ReadIs DEF Firsts
  <2> QED
    BY <2>5, <2>6
<1> QED
  BY <1>1, <1>2

-----------------------------------------------------------------------------
(* One file operation: done, aborting its transaction, or skipping the     *)
(* rest of its group                                                       *)
Takes(s) ==
    /\ IsNext(s)
    /\ \/ file' = file /\ denied' = denied
       \/ file' = Applied(s) /\ denied' = Recorded(s)
    /\ \/ file' = Applied(s) /\ todo' = todo \ {s} /\ failed' = FALSE
       \/ s.onFail = "abort" /\ todo' = {} /\ failed' = TRUE
       \/ s.onFail # "abort" /\ todo' = {t \in todo \ {s} : t.group # s.group} /\ failed' = FALSE
    /\ UNCHANGED <<up, op, origin, gone, halfway>>

(* Success and failure of a file operation, as one step.                   *)
LEMMA DoneTakes ==
    ASSUME IInv, Done \/ Fails  PROVE \E s \in todo : Takes(s)
<1>1. CASE Done
  <2>1. PICK s \in todo : /\ IsNext(s)
                          /\ file' = Applied(s) /\ denied' = Recorded(s)
                          /\ todo' = todo \ {s}
                          /\ UNCHANGED <<up, op, failed, origin, counts, gone, halfway>>
    BY <1>1 DEF Done
  <2>2. failed' = FALSE
    BY <2>1 DEF IInv, Types
  <2> QED
    BY <2>1, <2>2 DEF Takes
<1>2. CASE Fails
  <2>1. PICK s \in todo :
           /\ IsNext(s)
           /\ \/ UNCHANGED <<file, denied>>
              \/ file' = Applied(s) /\ denied' = Recorded(s)
           /\ failed' = (s.onFail = "abort")
           /\ todo' = IF s.onFail = "abort" THEN {} ELSE {t \in todo \ {s} : t.group # s.group}
           /\ UNCHANGED <<up, op, origin, gone, halfway>>
    BY <1>2 DEF Fails
  <2>2. CASE s.onFail = "abort"
    BY <2>1, <2>2 DEF Takes
  <2>3. CASE s.onFail # "abort"
    BY <2>1, <2>3 DEF Takes
  <2> QED
    BY <2>2, <2>3
<1> QED
  BY <1>1, <1>2

(* A step on other files, or a move, leaves what readers find of a value.  *)
LEMMA Kept ==
    ASSUME IInv, NEW s \in todo, Takes(s)
    PROVE  \A c \in Caches, k \in Keys : ~Touches(s, c, k) \/ Moves(s) \/ file' = file =>
              Read(c, k)' = Read(c, k) /\ (Present(c, k)' <=> Present(c, k))
<1>1. CASE file' = file
  BY <1>1, ReadIs
<1>2. CASE file' = Applied(s)
  <2>1. IsNext(s)
    BY DEF Takes
  <2>2. \A c \in Caches, k \in Keys : ~Touches(s, c, k) =>
            Read(c, k)' = Read(c, k) /\ (Present(c, k)' <=> Present(c, k))
    BY <1>2, <2>1, Untouched
  <2>3. Moves(s) => \A c \in Caches, k \in Keys :
            Read(c, k)' = Read(c, k) /\ (Present(c, k)' <=> Present(c, k))
    BY <1>2, <2>1, Moved
  <2>4. file' = file => \A c \in Caches, k \in Keys :
            Read(c, k)' = Read(c, k) /\ (Present(c, k)' <=> Present(c, k))
    BY ReadIs
  <2> QED
    BY <2>2, <2>3, <2>4
<1> QED
  BY <1>1, <1>2 DEF Takes

(* A step leaves every file but its own.                                   *)
LEMMA PlacesKept ==
    ASSUME IInv, NEW s \in todo, Takes(s)
    PROVE  \A c \in Caches, p \in Places, k \in Keys : s.slot # At(c, p, k) =>
              F(c, p, k)' = F(c, p, k)
<1>1. CASE file' = file
  BY <1>1
<1>2. CASE file' = Applied(s)
  BY <1>2, Applies DEF IInv
<1> QED
  BY <1>1, <1>2 DEF Takes

(* A record that is written is what readers find.                          *)
LEMMA Written ==
    ASSUME IInv, NEW s \in todo, Takes(s), WritesLicense(s), file' = Applied(s)
    PROVE  License' = s.content /\ ~NoLicense' /\ License' # Absent
<1>1. F("product", "current", "license")' = s.content
  BY Applies DEF IInv, WritesLicense, Caches, Places, Keys
<1> QED
  BY <1>1, ReadIs DEF WritesLicense, License, NoLicense, Firsts, Caches, Keys, IInv, Types

(* Only what the server has said changes the history of denials.           *)
LEMMA Denials ==
    ASSUME IInv, NEW s \in todo, Takes(s)
    PROVE  /\ denied' \subseteq Ids
           /\ (\/ s.group \notin {"set", "tombstone"}
               \/ op.do \notin {"activate", "validate", "invalidate"})
              => denied' = denied
<1>1. CASE denied' = denied
  BY <1>1 DEF IInv, Types, TypeOK
<1>2. CASE denied' = Recorded(s)
  <2>1. s.content \in Contents /\ s.content # Corrupt /\ denied \subseteq Ids /\ Shape(s)
    BY DEF IInv, Types, TypeOK
  <2>2. s.group \in {"set", "tombstone"} => s.content.id \in Ids
    BY <2>1, Values, SlotForm DEF Shape, Moves, WritesLicense, WritesArtifact, Contents, Keys,
       IInv, Types, TypeOK
  <2> QED
    BY <1>2, <2>1, <2>2 DEF Recorded
<1> QED
  BY <1>1, <1>2 DEF Takes

(* What a file operation keeps of each part of the invariant: types.       *)
LEMMA TypesKept ==
    ASSUME IInv, NEW s \in todo, Takes(s)  PROVE Types'
<1>1. file' \in [Slots -> Contents]
  BY Applies DEF IInv, Types, TypeOK, Takes
<1> QED
  BY <1>1, Denials DEF IInv, Types, TypeOK, Takes

(* Nothing is written where files of earlier releases lie, but generic     *)
(* values moved to their new name.                                         *)
LEMMA InheritedKept ==
    ASSUME IInv, NEW s \in todo, Takes(s)  PROVE Inherited'
<1> USE DEF Types, TypeOK
<1>1. s.slot \in Slots /\ s.content \in Contents /\ s.content # Corrupt /\ Shape(s) /\ Inherited
  BY DEF IInv
<1>2. ASSUME NEW c \in Caches, NEW p \in Places, NEW k \in Keys
      PROVE  /\ c = "generic" \/ p # "current" => F(c, p, k)' \in {Absent, EarlierOf(k)}
             /\ c = "generic" /\ F(c, p, k)' # Absent => origin = "generic"
             /\ c = "product" /\ p # "current" /\ F(c, p, k)' # Absent => origin = p
  <2>1. CASE F(c, p, k)' = F(c, p, k) \/ F(c, p, k)' = Absent
    BY <1>1, <2>1 DEF Inherited
  <2>2. CASE F(c, p, k)' # F(c, p, k) /\ F(c, p, k)' # Absent
    <3>1. s.slot = At(c, p, k) /\ F(c, p, k)' = s.content /\ s.content # Absent
      BY <2>2, Applies DEF Takes, IInv
    <3>2. p = "current" /\ (c = "generic" => Moves(s))
      BY <1>1, <3>1, AtForm DEF Shape, WritesLicense, WritesArtifact, Caches, Places, Keys
    <3>3. CASE c = "generic"
      <4>1. s.content = Read(c, k)
        BY <3>1, <3>2, <3>3, AtForm DEF IInv, Moving, Orderly
      <4>2. \A q \in Places : F(c, q, k) \in {Absent, EarlierOf(k)}
                              /\ (F(c, q, k) # Absent => origin = "generic")
        BY <1>1, <3>3 DEF Inherited
      <4>3. Read(c, k) \in {Absent, EarlierOf(k)} /\ (Read(c, k) # Absent => origin = "generic")
        BY <4>2, ReadIs DEF Firsts, Places
      <4> QED
        BY <3>1, <3>2, <3>3, <4>1, <4>3 DEF Caches
    <3> QED
      BY <3>2, <3>3 DEF Caches
  <2> QED
    BY <2>1, <2>2
<1>3. op'.do = "start" => \A p \in Places : F("product", p, "license")' # Corrupt
  BY <1>1, Applies DEF Takes, IInv, Inherited, Caches, Keys
<1>4. origin' = origin
  BY DEF Takes
<1> QED
  BY <1>2, <1>3, <1>4 DEF Inherited

(* No step is added.                                                       *)
LEMMA ShapesKept ==
    ASSUME IInv, NEW s \in todo, Takes(s)
    PROVE  (\A t \in todo' : Shape(t)') /\ Groups'
<1>1. todo' \subseteq todo /\ op' = op
  BY DEF Takes
<1> QED
  BY <1>1 DEF IInv, Groups, Shape

(* What is left of a move stays in order, and its value where it was.      *)
LEMMA MovingKept ==
    ASSUME IInv, NEW s \in todo, Takes(s)  PROVE Moving'
<1> SUFFICES ASSUME NEW m \in todo', Moves(m)
             PROVE  /\ \A t \in todo' : t # m /\ Touches(t, m.slot[1], m.slot[3]) =>
                          \/ m.at < t.at
                          \/ Moves(t) /\ t.content # Absent /\ m.content = Absent /\ t.at < m.at
                    /\ m.content # Absent =>
                          /\ F(m.slot[1], "current", m.slot[3])' = Absent
                          /\ m.content = Read(m.slot[1], m.slot[3])'
                    /\ m.content = Absent =>
                          \/ F(m.slot[1], "current", m.slot[3])' # Absent
                          \/ \E w \in todo' : /\ Moves(w) /\ w.content # Absent
                                              /\ Touches(w, m.slot[1], m.slot[3])
  BY DEF Moving, Orderly, Moves, Touches
<1> DEFINE c == m.slot[1]
           k == m.slot[3]
<1>1. todo' \subseteq todo \ {s} /\ m \in todo /\ m # s /\ c \in Caches /\ k \in Keys /\ "current" \in Places
  BY SlotForm DEF Takes, IInv, Types, TypeOK, Places
<1>2. Moving /\ s.at \in Nat /\ m.at \in Nat /\ s.at <= m.at
  BY <1>1 DEF IInv, Types, Takes, IsNext
<1>3. \A t \in todo' : t # m /\ Touches(t, m.slot[1], m.slot[3]) =>
          \/ m.at < t.at
          \/ Moves(t) /\ t.content # Absent /\ m.content = Absent /\ t.at < m.at
  BY <1>1, <1>2 DEF Moving, Orderly
<1>4. Touches(s, c, k) => Moves(s) /\ s.content # Absent /\ m.content = Absent
  BY <1>1, <1>2 DEF Moving, Orderly
<1>5. ~Touches(s, c, k) => /\ F(c, "current", k)' = F(c, "current", k)
                           /\ Read(c, k)' = Read(c, k)
  <2>1. ~Touches(s, c, k) => s.slot # At(c, "current", k)
    BY <1>1, AtForm DEF Touches
  <2> QED
    BY <2>1, <1>1, Kept, PlacesKept
<1>6. ASSUME m.content # Absent
      PROVE  F(c, "current", k)' = Absent /\ m.content = Read(c, k)'
  <2>1. F(c, "current", k) = Absent /\ m.content = Read(c, k)
    BY <1>1, <1>2, <1>6 DEF Moving, Orderly
  <2> QED
    BY <2>1, <1>4, <1>5, <1>6
<1>7. ASSUME m.content = Absent
      PROVE  \/ F(c, "current", k)' # Absent
             \/ \E w \in todo' : Moves(w) /\ w.content # Absent /\ Touches(w, c, k)
  <2>1. CASE F(c, "current", k) # Absent
    <3>1. ~Touches(s, c, k)
      <4>1. Touches(s, c, k) => s.content = Absent \/ F(c, "current", k) = Absent
        BY <1>4, <1>2 DEF Moving, Orderly, Touches
      <4> QED
        BY <4>1, <1>4, <2>1
    <3> QED
      BY <2>1, <3>1, <1>5
  <2>2. CASE \E w \in todo : Moves(w) /\ Touches(w, c, k) /\ w.content # Absent
    <3>1. PICK w \in todo : Moves(w) /\ Touches(w, c, k) /\ w.content # Absent
      BY <2>2
    <3>2. w.group = m.group
      BY <3>1 DEF Moves, Touches
    <3>3. CASE w = s /\ file' = Applied(s)
      BY <3>1, <3>3, <1>1, Moved DEF Takes
    <3>4. CASE w # s \/ file' # Applied(s)
      BY <3>1, <3>2, <3>4, <1>1 DEF Takes
    <3> QED
      BY <3>3, <3>4
  <2> QED
    BY <2>1, <2>2, <1>1, <1>2, <1>7 DEF Moving, Orderly
<1> QED
  BY <1>3, <1>6, <1>7

(* What a step of each transaction may be, one line per transaction.       *)
LEMMA StepsOf ==
    ASSUME IInv, NEW s \in todo
    PROVE  /\ Moves(s) => s.group \notin {"set", "tombstone", "key", "directory"}
           /\ op.do = "validate" => Moves(s) \/ (s.group = "set" /\ WritesLicense(s))
           /\ op.do = "store_artifact" => s.group = "set" /\ WritesArtifact(s)
           /\ op.do = "start" =>
                 \/ Moves(s)
                 \/ s.group = "set" /\ s.onFail = "abort" /\ (WritesLicense(s) \/ WritesArtifact(s))
                 \/ /\ s.group = "directory" /\ s.content = Absent /\ s.slot[1] = "generic"
                    /\ s.onFail = "abort"
           /\ op.do \in {"clear", "invalidate"} => WritesArtifact(s) = FALSE
           /\ s.group = "set" => s.onFail = "abort" /\ (WritesLicense(s) \/ WritesArtifact(s))
<1>1. Shape(s) /\ s.slot[3] \in Keys
  BY SlotForm DEF IInv, Types, TypeOK
<1> QED
  BY <1>1, AtForm DEF Shape, Moves, Keys, WritesLicense, WritesArtifact, Caches, Places

(* Records and artifacts are written to their current files.               *)
LEMMA WriteSlots ==
    ASSUME IInv, NEW s \in todo
    PROVE  /\ WritesLicense(s) => Touches(s, "product", "license") /\ s.slot[2] = "current"
           /\ WritesArtifact(s) => Touches(s, "product", "artifact") /\ s.slot[2] = "current"
  BY AtForm DEF WritesLicense, WritesArtifact, Touches, Caches, Places, Keys

(* The first step of a migration that clears the earlier cache finds the   *)
(* license in its new place                                                *)
LEMMA ClearsCopied ==
    ASSUME IInv, NEW s \in todo, IsNext(s), s.group = "directory", s.slot[1] = "generic"
    PROVE  ~NoLicense
<1>1. ASSUME NEW t \in todo, t.at < s.at  PROVE FALSE
  BY <1>1 DEF IsNext, IInv, Types
<1> QED
  BY <1>1 DEF IInv, Copying

(* A launch finds no damaged license: try_new has read it.                 *)
LEMMA LicenseIsPresent ==
    ASSUME IInv
    PROVE  /\ License # Absent => ~NoLicense
           /\ op.do = "start" /\ ~NoLicense => License # Absent
           /\ License # Absent => License \in LicenseRecord
<1>1. \A p \in Places : F("product", p, "license") \in Contents
  BY AtForm DEF IInv, Types, TypeOK, Caches, Keys
<1>2. op.do = "start" => \A p \in Places : F("product", p, "license") # Corrupt
  BY DEF IInv, Inherited
<1> QED
  BY <1>1, <1>2, ReadIs DEF License, NoLicense, Firsts, Caches, Keys, Places, Contents

(* The record a transaction is about to replace is the one it has read.    *)
LEMMA DecidingKept ==
    ASSUME IInv, NEW s \in todo, Takes(s)  PROVE Deciding'
<1> SUFFICES ASSUME NEW t \in todo', t.group = "set", WritesLicense(t)
             PROVE  /\ op.do = "validate" =>
                          /\ \A u \in todo' : u.group = "set" => u = t
                          /\ t.content.id = License'.id
                          /\ t.content.verdict \in {"denied", "refused", "granted"}
                                \/ License'.verdict \notin OnlineDenials
                    /\ op.do = "start" =>
                          IF License' # Absent
                          THEN /\ t.content.id = License'.id
                               /\ t.content.verdict \in OnlineDenials <=> License'.verdict \in OnlineDenials
                          ELSE /\ NoLicense' /\ GenericLicense'
                               /\ t.content.id = Earlier.id /\ t.content.verdict \notin OnlineDenials
  BY DEF Deciding, WritesLicense, Takes
<1>1. todo' \subseteq todo \ {s} /\ t \in todo /\ t # s /\ op' = op
  BY DEF Takes
<1>2. "product" \in Caches /\ "generic" \in Caches /\ "license" \in Keys
  BY DEF Caches, Keys
<1>3. Moves(s) \/ file' = file \/ ~Touches(s, "product", "license") =>
          License' = License /\ (NoLicense' <=> NoLicense)
  BY <1>2, Kept DEF License, NoLicense
<1>4. Moves(s) \/ file' = file \/ ~Touches(s, "generic", "license") =>
          (GenericLicense' <=> GenericLicense)
  BY <1>2, Kept DEF GenericLicense
<1>5. ASSUME op.do = "validate"
      PROVE  /\ \A u \in todo' : u.group = "set" => u = t
             /\ t.content.id = License'.id
             /\ t.content.verdict \in {"denied", "refused", "granted"}
                   \/ License'.verdict \notin OnlineDenials
  <2>1. Moves(s)
    BY <1>1, <1>5, StepsOf DEF IInv, Deciding
  <2> QED
    BY <2>1, <1>1, <1>3, <1>5 DEF IInv, Deciding
<1>6. ASSUME op.do = "start"
      PROVE  IF License' # Absent
             THEN /\ t.content.id = License'.id
                  /\ t.content.verdict \in OnlineDenials <=> License'.verdict \in OnlineDenials
             ELSE /\ NoLicense' /\ GenericLicense'
                  /\ t.content.id = Earlier.id /\ t.content.verdict \notin OnlineDenials
  <2> DEFINE Over(rec) == /\ t.content.id = rec.id
                          /\ t.content.verdict \in OnlineDenials <=> rec.verdict \in OnlineDenials
  <2>1. IF License # Absent THEN Over(License)
        ELSE /\ NoLicense /\ GenericLicense
             /\ t.content.id = Earlier.id /\ t.content.verdict \notin OnlineDenials
    BY <1>1, <1>6 DEF IInv, Deciding
  <2>2. CASE Moves(s) \/ file' = file
    BY <2>1, <2>2, <1>3, <1>4
  <2>3. CASE s.group = "set" /\ WritesArtifact(s)
    <3>1. ~Touches(s, "product", "license") /\ ~Touches(s, "generic", "license")
      BY <2>3, WriteSlots DEF Touches
    <3> QED
      BY <2>1, <3>1, <1>3, <1>4
  <2>4. CASE s.group = "directory" /\ s.slot[1] = "generic"
    <3>1. ~NoLicense /\ ~Touches(s, "product", "license")
      BY <2>4, ClearsCopied DEF Takes, Touches
    <3> QED
      BY <2>1, <3>1, <1>3
  <2>5. CASE s.group = "set" /\ WritesLicense(s) /\ file' # file
    <3>1. License' = s.content /\ License' # Absent
      BY <2>5, Written DEF Takes
    <3>2. IF License # Absent
          THEN /\ s.content.id = License.id
               /\ s.content.verdict \in OnlineDenials <=> License.verdict \in OnlineDenials
          ELSE s.content.id = Earlier.id /\ s.content.verdict \notin OnlineDenials
      BY <2>5, <1>6 DEF IInv, Deciding
    <3> QED
      BY <2>1, <3>1, <3>2
  <2> QED
    BY <1>6, <2>2, <2>3, <2>4, <2>5, StepsOf
<1> QED
  BY <1>5, <1>6

(* An artifact about to be stored is still that of the license.            *)
LEMMA StoringKept ==
    ASSUME IInv, NEW s \in todo, Takes(s)  PROVE Storing'
<1> SUFFICES ASSUME NEW t \in todo', t.group = "set", WritesArtifact(t)
             PROVE  /\ op.do = "store_artifact" =>
                          License'.id = t.content.id /\ t.content.id \notin denied'
                    /\ op.do = "start" =>
                          /\ GenericLicense' /\ NoLicense'
                          /\ t.content.id = Read("generic", "artifact")'.id
                          /\ \A u \in todo' : u.group = "set" => u = t \/ t.at < u.at
  BY DEF Storing, WritesArtifact, Takes
<1>1. todo' \subseteq todo \ {s} /\ t \in todo /\ t # s /\ op' = op /\ s.at <= t.at
  BY DEF Takes, IsNext
<1>2. "product" \in Caches /\ "generic" \in Caches /\ "license" \in Keys /\ "artifact" \in Keys
  BY DEF Caches, Keys
<1>3. ASSUME op.do = "store_artifact"
      PROVE  License'.id = t.content.id /\ t.content.id \notin denied'
  <2>1. License.id = t.content.id /\ t.content.id \notin denied
    BY <1>1, <1>3 DEF IInv, Storing
  <2>2. ~Touches(s, "product", "license")
    BY <1>3, StepsOf, WriteSlots DEF Touches
  <2>3. License' = License
    BY <1>2, <2>2, Kept DEF License
  <2> QED
    BY <2>1, <2>3, <1>3, Denials
<1>4. ASSUME op.do = "start"
      PROVE  /\ GenericLicense' /\ NoLicense'
             /\ t.content.id = Read("generic", "artifact")'.id
             /\ \A u \in todo' : u.group = "set" => u = t \/ t.at < u.at
  <2>1. /\ GenericLicense /\ NoLicense /\ t.content.id = Read("generic", "artifact").id
        /\ \A u \in todo : u.group = "set" => u = t \/ t.at < u.at
    BY <1>1, <1>4 DEF IInv, Storing
  <2>2. s.group # "set"
    BY <2>1, <1>1 DEF IInv, Types
  <2>3. Moves(s)
    BY <2>1, <2>2, <1>4, StepsOf, ClearsCopied DEF Takes
  <2> QED
    BY <2>1, <2>3, <1>1, <1>2, Kept DEF GenericLicense, NoLicense
<1> QED
  BY <1>3, <1>4

(* Artifacts that are removed before a license have been removed.          *)
LEMMA ClearingKept ==
    ASSUME IInv, NEW s \in todo, Takes(s)  PROVE Clearing'
<1> SUFFICES ASSUME NEW t \in todo', NEW p \in Places, t.group = "directory",
                    t.slot[3] = "license", t.slot[1] = "product", t.slot[2] # "fallback"
             PROVE  \/ F("product", p, "artifact")' = Absent
                    \/ \E u \in todo' : /\ u.slot = At("product", p, "artifact")
                                        /\ u.group = "directory" /\ u.at < t.at
  BY DEF Clearing
<1>1. todo' \subseteq todo \ {s} /\ t \in todo /\ t # s /\ op' = op
  BY DEF Takes
<1>2. Shape(t) /\ Shape(s)
  BY <1>1 DEF IInv
<1>3. op.do \in {"clear", "invalidate"}
  BY <1>2 DEF Shape, Moves, WritesLicense, WritesArtifact
<1>4. At("product", p, "artifact")[1] = "product" /\ At("product", p, "artifact")[3] = "artifact"
  BY AtForm DEF Caches, Keys
<1>5. s.slot = At("product", p, "artifact") => s.content = Absent
  BY <1>2, <1>3, <1>4, AtForm DEF Shape, Moves, WritesLicense, WritesArtifact, Caches, Places, Keys
<1>6. CASE F("product", p, "artifact") = Absent
  <2>1. F("product", p, "artifact")' \in {Absent, F("product", p, "artifact")}
    BY <1>5, Applies DEF Takes, IInv, Caches, Keys
  <2> QED
    BY <1>6, <2>1
<1>7. CASE \E u \in todo : /\ u.slot = At("product", p, "artifact")
                           /\ u.group = "directory" /\ u.at < t.at
  <2>1. PICK u \in todo : /\ u.slot = At("product", p, "artifact")
                          /\ u.group = "directory" /\ u.at < t.at
    BY <1>7
  <2>2. CASE u \in todo'
    BY <2>1, <2>2
  <2>3. CASE u \notin todo'
    <3>1. u = s /\ file' = Applied(s)
      BY <2>1, <2>3 DEF Takes
    <3> QED
      BY <3>1, <2>1, <1>5, Applies DEF IInv, Caches, Keys
  <2> QED
    BY <2>2, <2>3
<1> QED
  BY <1>1, <1>6, <1>7 DEF IInv, Clearing

(* Files of earlier releases are either generic or the product's.          *)
LEMMA OneOrigin ==
    ASSUME Inherited, GenericLicense
    PROVE  \A p \in Places, k \in Keys : p # "current" => F("product", p, k) = Absent
<1>1. origin = "generic"
  BY DEF Inherited, GenericLicense, Present, Caches, Keys
<1> QED
  BY <1>1 DEF Inherited, Caches, Places

(* A removal that the product's readers do not notice.                     *)
LEMMA RemovedUnseen ==
    ASSUME IInv, NEW s \in todo, Takes(s), GenericLicense,
           s.content = Absent, s.slot[1] = "product", s.slot[2] # "current"
    PROVE  \A c \in Caches, k \in Keys :
              Read(c, k)' = Read(c, k) /\ (Present(c, k)' <=> Present(c, k))
<1>1. \A c \in Caches, p \in Places, k \in Keys : F(c, p, k)' = F(c, p, k)
  <2> TAKE c \in Caches, p \in Places, k \in Keys
  <2>1. CASE s.slot = At(c, p, k)
    <3>1. c = "product" /\ p # "current" /\ F(c, p, k) = Absent
      BY <2>1, AtForm, OneOrigin DEF IInv
    <3> QED
      BY <2>1, <3>1, Applies DEF Takes, IInv
  <2>2. CASE s.slot # At(c, p, k)
    BY <2>2, PlacesKept
  <2> QED
    BY <2>1, <2>2
<1> QED
  BY <1>1, ReadIs DEF Places

(* migrate_from: while only the earlier cache has the license, the new one *)
(* has at most its artifact.                                               *)
LEMMA CopiedWhole ==
    ASSUME IInv, NEW s \in todo, Takes(s), NoLicense', GenericLicense'
    PROVE  ArtifactId' \in {None, Read("generic", "artifact")'.id}
<1> DEFINE gen == Read("generic", "artifact")
<1>0. "product" \in Caches /\ "generic" \in Caches /\ "license" \in Keys /\ "artifact" \in Keys
  BY DEF Caches, Keys
<1>1. Shape(s) /\ s.slot \in Slots /\ IsNext(s) /\ Inherited
  BY DEF IInv, Types, TypeOK, Takes
<1>2. NoLicense /\ GenericLicense => ArtifactId \in {None, gen.id}
  BY DEF IInv, Copying
<1>3. ASSUME \/ Moves(s) \/ file' = file
             \/ \A c \in Caches, k \in Keys :
                    Read(c, k)' = Read(c, k) /\ (Present(c, k)' <=> Present(c, k))
      PROVE  ArtifactId' \in {None, gen'.id}
  <2>1. \A c \in Caches, k \in Keys :
            Read(c, k)' = Read(c, k) /\ (Present(c, k)' <=> Present(c, k))
    BY <1>3, Kept
  <2>2. ArtifactId' = ArtifactId /\ gen' = gen /\ NoLicense /\ GenericLicense
    BY <2>1, <1>0 DEF ArtifactId, NoLicense, GenericLicense
  <2> QED
    BY <2>2, <1>2
<1>4. ASSUME s.slot[1] = "product"  PROVE GenericLicense /\ gen' = gen
  BY <1>4, <1>0, Kept DEF Touches, GenericLicense
<1>5. CASE WritesLicense(s)
  BY <1>3, <1>5, Written DEF Takes
<1>6. CASE s.group = "set" /\ WritesArtifact(s) /\ file' # file
  <2>1. ~Touches(s, "product", "license") /\ s.slot[1] = "product"
    BY <1>6, WriteSlots DEF Touches
  <2>2. NoLicense /\ License = Absent
    BY <2>1, <1>0, Kept, LicenseIsPresent DEF NoLicense
  <2>3. op.do = "start"
    <3>1. op.do \in {"store_artifact", "start"}
      BY <1>1, <1>6, StepsOf, WriteSlots DEF Shape, Touches
    <3>2. s.content \in LicenseRecord
      BY <1>6 DEF IInv, Types, TypeOK, WritesArtifact, Contents
    <3>3. op.do = "store_artifact" => License.id = s.content.id
      BY <1>6 DEF IInv, Storing
    <3> QED
      BY <3>1, <3>2, <3>3, <2>2, Values
  <2>4. s.content.id = gen.id
    BY <1>6, <2>3 DEF IInv, Storing
  <2>5. F("product", "current", "artifact")' = s.content /\ s.content # Absent /\ s.content # Corrupt
    BY <1>6, <1>0, Applies DEF Takes, IInv, Types, WritesArtifact, Places
  <2>6. ArtifactId' = s.content.id
    BY <2>5, <1>0, ReadIs DEF ArtifactId, Firsts
  <2> QED
    BY <2>1, <2>4, <2>6, <1>4
<1>7. CASE s.content = Absent /\ s.slot[1] = "product" /\ file' # file
  <2>1. GenericLicense /\ gen' = gen
    BY <1>4, <1>7
  <2>2. CASE s.slot[2] # "current"
    BY <1>3, <1>7, <2>1, <2>2, RemovedUnseen
  <2>3. CASE s.slot[2] = "current" /\ s.slot[3] = "artifact"
    <3>1. s.slot = At("product", "current", "artifact")
      BY <1>1, <1>7, <2>3, SlotForm
    <3>2. \A p \in Places : F("product", p, "artifact")' = Absent
      BY <3>1, <1>7, <2>1, OneOrigin, Applies, <1>0, <1>1 DEF Takes, IInv
    <3>3. Read("product", "artifact")' = Absent
      BY <3>2, <1>0, ReadIs DEF Firsts, Places
    <3> QED
      BY <3>3, Values DEF ArtifactId
  <2>4. CASE s.slot[2] = "current" /\ s.slot[3] = "license"
    <3>0. CASE Moves(s)
      BY <3>0, <1>3
    <3>1. CASE s.group = "directory"
      <4>1. \A p \in Places : F("product", p, "artifact") = Absent
        <5> SUFFICES ASSUME NEW t \in todo, t.at < s.at  PROVE FALSE
          BY <1>7, <2>4, <3>1 DEF IInv, Clearing
        <5> QED
          BY <1>1 DEF IsNext, IInv, Types
      <4>2. Read("product", "artifact")' = Absent
        BY <4>1, <1>0, ReadIs, Kept, <2>4 DEF Firsts, Places, Touches
      <4> QED
        BY <4>2, Values DEF ArtifactId
    <3> QED
      BY <1>1, <1>7, <2>4, <3>0, <3>1 DEF Shape, WritesLicense, WritesArtifact, Touches
  <2> QED
    BY <2>2, <2>3, <2>4, <1>1, SlotForm DEF Keys
<1>8. CASE s.group = "directory" /\ s.slot[1] = "generic"
  <2>1. ~NoLicense /\ ~Touches(s, "product", "license")
    BY <1>1, <1>8, ClearsCopied DEF Touches
  <2> QED
    BY <2>1, <1>0, Kept DEF NoLicense
<1> QED
  BY <1>1, <1>3, <1>5, <1>6, <1>7, <1>8 DEF Shape, Touches

(* The order of a migration: artifact, license, cleanup.                   *)
LEMMA CopyingKept ==
    ASSUME IInv, NEW s \in todo, Takes(s)  PROVE Copying'
<1>0. "product" \in Caches /\ "generic" \in Caches /\ "license" \in Keys /\ "artifact" \in Keys
  BY DEF Caches, Keys
<1>1. todo' \subseteq todo \ {s} /\ op' = op
  BY DEF Takes
<1>2. Moves(s) \/ file' = file \/ ~Touches(s, "product", "license") => (NoLicense' <=> NoLicense)
  BY <1>0, Kept DEF NoLicense
<1>3. ASSUME NEW t \in todo', t.group = "directory", t.slot[1] = "generic"
      PROVE  \/ ~NoLicense'
             \/ \E u \in todo' : u.group = "set" /\ WritesLicense(u) /\ u.at < t.at
  <2>1. op.do = "start"
    BY <1>1, <1>3 DEF IInv, Shape, Moves, WritesLicense, WritesArtifact
  <2>2. CASE ~NoLicense
    <3>1. CASE WritesLicense(s) /\ file' # file
      BY <3>1, Written DEF Takes
    <3>2. CASE ~(WritesLicense(s) /\ file' # file)
      BY <3>2, <1>2, <2>1, <2>2, StepsOf, WriteSlots DEF Touches
    <3> QED
      BY <3>1, <3>2
  <2>3. CASE \E u \in todo : u.group = "set" /\ WritesLicense(u) /\ u.at < t.at
    <3>1. PICK u \in todo : u.group = "set" /\ WritesLicense(u) /\ u.at < t.at
      BY <2>3
    <3>2. CASE u \in todo'
      BY <3>1, <3>2
    <3>3. CASE u \notin todo'
      <4>1. u = s /\ file' = Applied(s)
        BY <3>1, <3>3, <1>1, StepsOf DEF Takes
      <4> QED
        BY <4>1, <3>1, Written
    <3> QED
      BY <3>2, <3>3
  <2> QED
    BY <1>1, <1>3, <2>2, <2>3 DEF IInv, Copying
<1>4. ASSUME NEW t \in todo', op.do = "start", NoLicense', t.group = "set", WritesLicense(t)
      PROVE  \/ ArtifactId' = Read("generic", "artifact")'.id
             \/ \E u \in todo' : u.group = "set" /\ WritesArtifact(u) /\ u.at < t.at
  <2>1. ~(WritesLicense(s) /\ s.group = "set")
    BY <1>1, <1>4, Written, StepsOf DEF Takes
  <2>2. NoLicense
    BY <1>2, <1>4, <2>1, StepsOf, WriteSlots DEF Touches
  <2>3. Moves(s) \/ (s.group = "set" /\ WritesArtifact(s))
    BY <1>4, <2>1, <2>2, StepsOf, ClearsCopied DEF Takes
  <2>4. Read("generic", "artifact")' = Read("generic", "artifact")
    BY <2>3, <1>0, Kept, WriteSlots DEF Touches
  <2>5. CASE Moves(s)
    <3>1. ArtifactId' = ArtifactId
      BY <2>5, <1>0, Kept DEF ArtifactId
    <3>2. \A u \in todo : u.group = "set" => u \in todo'
      BY <1>1, <1>4, <2>5, StepsOf DEF Takes
    <3> QED
      BY <3>1, <3>2, <2>2, <2>4, <1>1, <1>4 DEF IInv, Copying
  <2>6. CASE s.group = "set" /\ WritesArtifact(s)
    <3>1. file' = Applied(s)
      BY <2>6, <1>4, StepsOf DEF Takes
    <3>2. F("product", "current", "artifact")' = s.content /\ s.content # Absent /\ s.content # Corrupt
      BY <2>6, <3>1, <1>0, Applies DEF Takes, IInv, Types, WritesArtifact, Places
    <3>3. ArtifactId' = s.content.id
      BY <3>2, <1>0, ReadIs DEF ArtifactId, Firsts
    <3>4. s.content.id = Read("generic", "artifact").id
      BY <2>6, <1>4 DEF IInv, Storing
    <3> QED
      BY <3>3, <3>4, <2>4
  <2> QED
    BY <2>3, <2>5, <2>6
<1> QED
  BY <1>1, <1>3, <1>4, CopiedWhole DEF Copying, WritesLicense, WritesArtifact

(* Until the cleanup has reached them the earlier cache's licenses are     *)
(* still to be cleared.                                                    *)
LEMMA MigratingKept ==
    ASSUME IInv, NEW s \in todo, Takes(s)  PROVE Migrating'
<1>0. "product" \in Caches /\ "generic" \in Caches /\ "license" \in Keys /\ "artifact" \in Keys
  BY DEF Caches, Keys
<1>1. todo' \subseteq todo \ {s} /\ op' = op /\ up' = up /\ gone' = gone /\ halfway' = halfway
  BY DEF Takes
<1>2. Moves(s) \/ file' = file \/ ~Touches(s, "generic", "license") =>
          (GenericLicense' <=> GenericLicense)
  BY <1>0, Kept DEF GenericLicense
<1>3. Shape(s) /\ s.slot \in Slots /\ s.at \in Nat /\ Migrating
  BY DEF IInv, Types, TypeOK
<1>4. Moves(s) \/ s.content = Absent \/ ~Touches(s, "generic", "license")
  BY <1>3 DEF Shape, WritesLicense, WritesArtifact, Touches, At
<1>5. GenericLicense' => GenericLicense
  <2>1. CASE s.content = Absent
    <3>1. \A p \in Places : F("generic", p, "license")' \in {Absent, F("generic", p, "license")}
      BY <2>1, <1>0, Applies DEF Takes, IInv
    <3> QED
      BY <3>1 DEF GenericLicense, Present
  <2> QED
    BY <2>1, <1>2, <1>4
<1>6. ASSUME NEW t \in todo', t.slot[1] = "generic", t.slot[3] = "license", t.content # Absent
      PROVE  GenericLicense'
  <2>1. GenericLicense /\ t \in todo /\ t # s
    BY <1>1, <1>3, <1>6 DEF Migrating
  <2>2. Moves(t)
    BY <2>1, <1>6, AtForm DEF IInv, Shape, WritesLicense, WritesArtifact, Caches, Places, Keys
  <2>3. Touches(s, "generic", "license") => t.at < s.at
    BY <2>1, <2>2, <1>6 DEF IInv, Moving, Orderly
  <2>4. ~Touches(s, "generic", "license")
    BY <2>1, <2>3 DEF Takes, IsNext, IInv, Types
  <2> QED
    BY <2>1, <2>4, <1>2
<1>7. ASSUME ~halfway, GenericLicense'
      PROVE  /\ up # "up" /\ ~gone /\ denied' = {}
             /\ up = "starting"
  <2>1. up # "up" /\ ~gone /\ denied = {}
    BY <1>3, <1>5, <1>7 DEF Migrating
  <2>2. up = "starting" /\ op.do = "start"
    BY <2>1 DEF IInv, Types, TypeOK
  <2> QED
    BY <2>1, <2>2, Denials
<1>8. ASSUME ~halfway, GenericLicense', ~failed', NEW p \in Places,
             \/ F("generic", p, "license")' # Absent
             \/ \E w \in todo' : w.slot = At("generic", p, "license") /\ w.content # Absent
      PROVE  \E t \in todo' : t.slot = At("generic", p, "license") /\ t.group = "directory"
  <2>1. op.do = "start" /\ up = "starting" /\ ~failed /\ GenericLicense
    BY <1>5, <1>7, <1>8 DEF IInv, Types
  <2>2. \/ F("generic", p, "license") # Absent
        \/ \E w \in todo : w.slot = At("generic", p, "license") /\ w.content # Absent
    BY <1>1, <1>8, <1>0, Applies DEF Takes, IInv
  <2>3. PICK t \in todo : t.slot = At("generic", p, "license") /\ t.group = "directory"
    BY <2>1, <2>2, <1>3, <1>8 DEF Migrating
  <2>4. t.onFail = "abort" /\ t.content = Absent /\ ~Moves(t) /\ Touches(t, "generic", "license")
    BY <2>1, <2>3, StepsOf, AtForm, <1>0 DEF Touches
  <2>5. CASE t \in todo'
    BY <2>3, <2>5
  <2>6. CASE t \notin todo'
    <3>1. t = s /\ file' = Applied(s)
      BY <2>3, <2>4, <2>6, <1>8, StepsOf, <2>1 DEF Takes
    <3>2. F("generic", p, "license")' = Absent
      BY <3>1, <2>3, <2>4, <1>0, Applies DEF IInv
    <3>3. PICK w \in todo' : w.slot = At("generic", p, "license") /\ w.content # Absent
      BY <3>2, <1>8
    <3>4. w \in todo /\ w # s /\ Moves(w)
      BY <3>3, <1>1, <1>0, AtForm DEF IInv, Shape, WritesLicense, WritesArtifact, Places, Keys
    <3>5. w.at < s.at
      BY <3>1, <3>3, <3>4, <2>3, <2>4, <1>0, AtForm DEF IInv, Moving, Orderly, Touches
    <3> QED
      BY <3>4, <3>5, <1>1 DEF Takes, IsNext, IInv, Types
  <2> QED
    BY <2>5, <2>6
<1> QED
  BY <1>1, <1>6, <1>7, <1>8 DEF Migrating

(* No file operation brings back a license that has been cleared.          *)
LEMMA ResettingKept ==
    ASSUME IInv, NEW s \in todo, Takes(s)  PROVE Resetting'
<1> SUFFICES ASSUME gone, ~halfway
             PROVE  NoLicense' /\ \A t \in todo' : ~WritesLicense(t)
  BY DEF Resetting, WritesLicense, Takes
<1>1. NoLicense /\ \A t \in todo : ~WritesLicense(t)
  BY DEF IInv, Resetting
<1>2. Moves(s) => NoLicense'
  BY <1>1, Kept DEF NoLicense, Caches, Keys
<1>3. s.content = Absent => NoLicense'
  BY <1>1, Applies DEF Takes, IInv, NoLicense, Present, Caches, Keys
<1>4. ~Touches(s, "product", "license") => NoLicense'
  BY <1>1, Kept DEF NoLicense, Caches, Keys
<1>5. NoLicense'
  BY <1>1, <1>2, <1>3, <1>4, WriteSlots DEF IInv, Shape, Touches
<1> QED
  BY <1>1, <1>5 DEF Takes

(* The denial outlives the artifacts it blocks: in every order in which    *)
(* single files are replaced and removed, and wherever the sequence stops. *)
LEMMA ShieldingKept ==
    ASSUME IInv, NEW s \in todo, Takes(s)  PROVE Shielding'
<1> SUFFICES ASSUME ~halfway, License'.id \in denied', License'.verdict \notin OnlineDenials,
                    NEW p \in Places
             PROVE  F("product", p, "artifact")'.id # License'.id
  BY DEF Shielding, Takes
<1> DEFINE Bare(rec) == \A q \in Places : F("product", q, "artifact").id # rec.id
<1>0. "product" \in Caches /\ "generic" \in Caches /\ "license" \in Keys /\ "artifact" \in Keys
  BY DEF Caches, Keys
<1>1. Shape(s) /\ s.slot \in Slots /\ denied \subseteq Ids /\ denied' \subseteq Ids
  BY Denials DEF IInv, Types, TypeOK
<1>2. License'.id # None /\ License' # Absent
  BY <1>1, NoneNotAnId, Values
<1>3. License.id \in denied /\ License.verdict \notin OnlineDenials => Bare(License)
  BY DEF IInv, Shielding
<1>4. Moves(s) \/ file' = file \/ ~Touches(s, "product", "license") => License' = License
  BY <1>0, Kept DEF License
<1>5. ~Touches(s, "product", "artifact") \/ s.content = Absent =>
          F("product", p, "artifact")' \in {Absent, F("product", p, "artifact")}
  BY <1>0, AtForm, Applies DEF Touches, Takes, IInv
<1>6. CASE file' = file /\ denied' = denied
  BY <1>3, <1>4, <1>6
<1>7. CASE file' = Applied(s) /\ denied' = Recorded(s)
  <2>1. CASE Moves(s)
    <3>1. denied' = denied /\ License' = License
      BY <2>1, <1>4, StepsOf, Denials
    <3>2. CASE ~Touches(s, "product", "artifact") \/ s.content = Absent
      BY <3>1, <3>2, <1>2, <1>3, <1>5, Values
    <3>3. CASE Touches(s, "product", "artifact") /\ s.content # Absent
      <4>1. s.content = Read("product", "artifact")
        BY <2>1, <3>3 DEF IInv, Moving, Orderly, Touches
      <4>2. \E q \in Places : s.content = F("product", q, "artifact")
        BY <4>1, <3>3, <1>0, ReadIs DEF Firsts, Places
      <4>3. F("product", p, "artifact")' \in {s.content, F("product", p, "artifact")}
        BY <1>0, <1>7, Applies DEF IInv
      <4> QED
        BY <3>1, <4>2, <4>3, <1>3
    <3> QED
      BY <3>2, <3>3
  <2>2. CASE s.group = "set" /\ WritesLicense(s)
    <3>1. License' = s.content /\ ~Touches(s, "product", "artifact")
      BY <2>2, <1>7, Written, WriteSlots DEF Touches
    <3>2. op.do \in {"activate", "validate", "start"}
      BY <1>1, <2>2, WriteSlots DEF Shape, Moves, Touches, Keys
    <3>3. op.do \in {"activate", "validate"} => s.content.verdict # "granted"
      BY <3>1, <1>7, <2>2 DEF Recorded, OnlineDenials
    <3>4. op.do # "activate"
      BY <1>1, <2>2, <3>3, WriteSlots DEF Shape, Moves, Touches
    <3>5. CASE op.do = "validate"
      <4>1. denied' = denied
        BY <3>1, <3>3, <3>5, <1>7 DEF Recorded
      <4>2. s.content.id = License.id /\ License.verdict \notin OnlineDenials
        BY <2>2, <3>1, <3>3, <3>5 DEF IInv, Deciding, OnlineDenials
      <4> QED
        BY <3>1, <4>1, <4>2, <1>2, <1>3, <1>5, Values
    <3>6. CASE op.do = "start"
      <4>1. denied' = denied
        BY <3>6, Denials
      <4>2. License # Absent
        <5>1. License = Absent => denied = {}
          BY <2>2, <3>6 DEF IInv, Deciding, Migrating
        <5> QED
          BY <4>1, <5>1
      <4>3. s.content.id = License.id /\ License.verdict \notin OnlineDenials
        BY <2>2, <3>1, <3>6, <4>2 DEF IInv, Deciding
      <4> QED
        BY <3>1, <4>1, <4>3, <1>2, <1>3, <1>5, Values
    <3> QED
      BY <3>2, <3>4, <3>5, <3>6
  <2>3. CASE s.group = "set" /\ WritesArtifact(s)
    <3>1. License' = License /\ F("product", p, "artifact")' \in {s.content, F("product", p, "artifact")}
      BY <2>3, <1>0, <1>4, <1>7, WriteSlots, Applies DEF Touches, IInv
    <3>2. op.do \in {"store_artifact", "start"}
      BY <1>1, <2>3, WriteSlots DEF Shape, Moves, Touches, Keys
    <3>3. denied' = denied
      BY <3>2, Denials
    <3>4. op.do = "store_artifact"
      <4>1. op.do = "start" => NoLicense
        BY <2>3 DEF IInv, Storing
      <4> QED
        BY <3>1, <3>2, <4>1, <1>2, LicenseIsPresent
    <3>5. s.content.id \notin denied
      BY <2>3, <3>4 DEF IInv, Storing
    <3> QED
      BY <3>1, <3>3, <3>5, <1>3
  <2>4. CASE s.group = "tombstone"
    <3>1. WritesLicense(s) /\ s.content.verdict = "refused"
      BY <1>1, <2>4, SlotForm DEF Shape, Moves, Keys
    <3> QED
      BY <3>1, <1>7, Written DEF OnlineDenials
  <2>5. CASE s.group \in {"key", "directory"}
    <3>1. s.content = Absent /\ denied' = denied
      BY <1>1, <2>5, SlotForm, Denials DEF Shape, Moves, Keys
    <3>2. CASE ~Touches(s, "product", "license")
      BY <3>1, <3>2, <1>2, <1>3, <1>4, <1>5, Values
    <3>3. CASE Touches(s, "product", "license") /\ s.slot[2] = "fallback"
      <4>1. License' \in {Absent, License}
        <5>1. /\ F("product", "current", "license")' = F("product", "current", "license")
              /\ F("product", "old", "license")' = F("product", "old", "license")
              /\ F("product", "fallback", "license")' \in {Absent, F("product", "fallback", "license")}
          BY <3>1, <3>3, <1>0, <1>7, AtForm, Applies DEF IInv, Places, Touches
        <5> QED
          BY <5>1, <1>0, ReadIs DEF License, Firsts
      <4> QED
        BY <4>1, <3>1, <1>2, <1>3, <1>5, Values
    <3>4. CASE Touches(s, "product", "license") /\ s.slot[2] # "fallback"
      <4>1. s.group = "directory"
        BY <1>1, <2>5, <3>4 DEF Shape, Moves, Touches
      <4>2. ~\E t \in todo : t.at < s.at
        BY DEF Takes, IsNext, IInv, Types
      <4>3. F("product", p, "artifact") = Absent
        BY <3>4, <4>1, <4>2 DEF IInv, Clearing, Touches
      <4> QED
        BY <4>3, <3>1, <1>2, <1>5, Values
    <3> QED
      BY <3>2, <3>3, <3>4
  <2> QED
    BY <1>1, <2>1, <2>2, <2>3, <2>4, <2>5 DEF Shape
<1> QED
  BY <1>6, <1>7 DEF Takes

(* Every file operation, done or failed, keeps the invariant.              *)
LEMMA StepKeeps ==
    ASSUME IInv, Done \/ Fails  PROVE IInv'
<1>1. PICK s \in todo : Takes(s)
  BY DoneTakes
<1> QED
  BY <1>1, TypesKept, InheritedKept, ShapesKept, MovingKept, DecidingKept, StoringKept, ClearingKept,
     CopyingKept, MigratingKept, ResettingKept, ShieldingKept DEF IInv

-----------------------------------------------------------------------------
(* The steps transactions are made of                                      *)

(* The two halves of a move.                                               *)
LEMMA FetchIs ==
    ASSUME Types, NEW at \in Nat, NEW c \in Caches, NEW k \in Keys, NEW onFail
    PROVE  \A m \in Fetch(at, c, k, onFail) :
              /\ m.slot \in Slots /\ m.content \in Contents /\ m.content # Corrupt /\ m.at \in Nat
              /\ m.group = k /\ Moves(m) /\ Touches(m, c, k) /\ m.onFail = onFail
              /\ m.content # Absent =>
                    /\ m.at = at /\ m.slot[2] = "current"
                    /\ F(c, "current", k) = Absent /\ m.content = Read(c, k)
              /\ m.content = Absent =>
                    /\ m.at = at + 1 /\ m.slot[2] # "current"
                    /\ \E w \in Fetch(at, c, k, onFail) : w.content # Absent
              /\ \A t \in Fetch(at, c, k, onFail) :
                    (t.content = Absent <=> m.content = Absent)
                        => t = m
<1> DEFINE q == IF F(c, "old", k) # Absent THEN "old" ELSE "fallback"
           w == Write(at, At(c, "current", k), F(c, q, k), k, onFail)
           r == Remove(at + 1, At(c, q, k), k, onFail)
<1>1. q \in {"old", "fallback"} /\ q \in Places /\ "current" \in Places /\ q # "current"
  BY DEF Places
<1>2. At(c, q, k) \in Slots /\ At(c, "current", k) \in Slots
      /\ At(c, q, k)[1] = c /\ At(c, q, k)[2] = q /\ At(c, q, k)[3] = k
      /\ At(c, "current", k)[1] = c /\ At(c, "current", k)[2] = "current" /\ At(c, "current", k)[3] = k
  BY <1>1, AtForm
<1>3. F(c, q, k) \in Contents
  BY <1>2 DEF Types, TypeOK
<1>4. SUFFICES ASSUME Present(c, k), Found(c, k)[2] # "current", F(c, "current", k) # Absent => FALSE,
                      Found(c, k) = At(c, q, k), F(c, q, k) # Corrupt, F(c, q, k) # Absent,
                      Read(c, k) = F(c, q, k),
                      Fetch(at, c, k, onFail) = {w, r}
               PROVE  \A m \in {w, r} :
              /\ m.slot \in Slots /\ m.content \in Contents /\ m.content # Corrupt /\ m.at \in Nat
              /\ m.group = k /\ Moves(m) /\ Touches(m, c, k) /\ m.onFail = onFail
              /\ m.content # Absent =>
                    /\ m.at = at /\ m.slot[2] = "current"
                    /\ F(c, "current", k) = Absent /\ m.content = Read(c, k)
              /\ m.content = Absent =>
                    /\ m.at = at + 1 /\ m.slot[2] # "current"
                    /\ \E u \in {w, r} : u.content # Absent
              /\ \A t \in {w, r} :
                    (t.content = Absent <=> m.content = Absent)
                        => t = m
  <2>1. CASE Present(c, k) /\ Found(c, k)[2] # "current" /\ file[Found(c, k)] # Corrupt
    <3>1. F(c, "current", k) = Absent
      BY <2>1, <1>2 DEF Found
    <3>2. Found(c, k) = At(c, q, k)
      BY <3>1 DEF Found
    <3>3. Read(c, k) = F(c, q, k) /\ F(c, q, k) # Corrupt /\ F(c, q, k) # Absent
      BY <2>1, <3>1, <3>2, ReadIs DEF Read
    <3>4. Fetch(at, c, k, onFail) = {w, r}
      BY <2>1, <3>2, <1>2 DEF Fetch, Move
    <3> QED
      BY <2>1, <3>1, <3>2, <3>3, <3>4
  <2>2. CASE ~(Present(c, k) /\ Found(c, k)[2] # "current" /\ file[Found(c, k)] # Corrupt)
    <3>1. Fetch(at, c, k, onFail) = {}
      BY <2>2 DEF Fetch
    <3> QED
      BY <3>1
  <2> QED
    BY <2>1, <2>2
<1>5. /\ w.at = at /\ w.slot = At(c, "current", k) /\ w.content = F(c, q, k) /\ w.group = k
      /\ w.onFail = onFail
      /\ r.at = at + 1 /\ r.slot = At(c, q, k) /\ r.content = Absent /\ r.group = k
      /\ r.onFail = onFail
  BY DEF Write, Remove
<1>6. Absent \in Contents /\ Absent # Corrupt
  BY Values DEF Contents
<1> HIDE DEF w, r, q
<1> QED
  BY <1>1, <1>2, <1>3, <1>4, <1>5, <1>6 DEF Moves, Touches

(* clear_directory_unlocked and clear_unlocked, step by step.              *)
LEMMA ClearDirectoryIs ==
    ASSUME NEW at \in Nat, NEW c \in Caches, NEW onFail
    PROVE  ClearDirectory(at, c, <<"fallback">>, onFail) =
              {Remove(at + 1, At(c, "fallback", "artifact"), "directory", onFail),
               Remove(at + 3, At(c, "fallback", "license"), "directory", onFail)}
<1>1. \A n \in Nat, k \in Keys : RemoveAll(n, c, <<"fallback">>, k, onFail) =
          {Remove(n + 1, At(c, "fallback", k), "directory", onFail)}
  BY DEF RemoveAll
<1>2. at + 2 \in Nat /\ at + 2 + 1 = at + 3
  OBVIOUS
<1> QED
  BY <1>1, <1>2 DEF ClearDirectory, Keys

(* The durable directory goes after the one it hides.                      *)
LEMMA ClearAllIs ==
    ASSUME NEW at \in Nat, NEW c \in Caches
    PROVE  ClearAll(at, c) =
              {Remove(at + 1, At(c, "fallback", "artifact"), "directory", "abort"),
               Remove(at + 3, At(c, "fallback", "license"), "directory", "abort"),
               Remove(at + 5, At(c, "current", "artifact"), "directory", "abort"),
               Remove(at + 6, At(c, "old", "artifact"), "directory", "abort"),
               Remove(at + 7, At(c, "current", "license"), "directory", "abort"),
               Remove(at + 8, At(c, "old", "license"), "directory", "abort")}
<1>1. \A n \in Nat, k \in Keys : RemoveAll(n, c, <<"current", "old">>, k, "abort") =
          {Remove(n + 1, At(c, "current", k), "directory", "abort"),
           Remove(n + 2, At(c, "old", k), "directory", "abort")}
  <2> TAKE n \in Nat, k \in Keys
  <2>1. DOMAIN <<"current", "old">> = {1, 2} /\ <<"current", "old">>[1] = "current"
        /\ <<"current", "old">>[2] = "old"
    OBVIOUS
  <2> QED
    BY <2>1 DEF RemoveAll
<1>2. /\ at + 4 \in Nat /\ at + 4 + 2 \in Nat /\ at + 4 + 1 = at + 5 /\ at + 4 + 2 = at + 6
      /\ at + 4 + 2 + 1 = at + 7 /\ at + 4 + 2 + 2 = at + 8
  OBVIOUS
<1>3. ClearDirectory(at + 4, c, <<"current", "old">>, "abort") =
              {Remove(at + 5, At(c, "current", "artifact"), "directory", "abort"),
               Remove(at + 6, At(c, "old", "artifact"), "directory", "abort"),
               Remove(at + 7, At(c, "current", "license"), "directory", "abort"),
               Remove(at + 8, At(c, "old", "license"), "directory", "abort")}
  BY <1>1, <1>2 DEF ClearDirectory, Keys
<1> QED
  BY <1>3, ClearDirectoryIs DEF ClearAll

(* In clear_unlocked every artifact file is removed, and before the        *)
(* license files of the durable directory.                                 *)
LEMMA ClearSteps ==
    ASSUME NEW at \in Nat, NEW c \in Caches
    PROVE  /\ \A s \in ClearAll(at, c) :
                 /\ s.slot \in Slots /\ s.slot[1] = c /\ s.content = Absent /\ s.at \in Nat /\ s.at > at
                 /\ s.group = "directory" /\ s.onFail = "abort"
                 /\ s.slot[3] = "license" /\ s.slot[2] # "fallback" => s.at >= at + 7
           /\ \A p \in Places : \E t \in ClearAll(at, c) :
                 t.slot = At(c, p, "artifact") /\ t.at <= at + 6
           /\ \A p \in Places : \E t \in ClearAll(at, c) : t.slot = At(c, p, "license")
<1> DEFINE f1 == Remove(at + 1, At(c, "fallback", "artifact"), "directory", "abort")
           f2 == Remove(at + 3, At(c, "fallback", "license"), "directory", "abort")
           d1 == Remove(at + 5, At(c, "current", "artifact"), "directory", "abort")
           d2 == Remove(at + 6, At(c, "old", "artifact"), "directory", "abort")
           d3 == Remove(at + 7, At(c, "current", "license"), "directory", "abort")
           d4 == Remove(at + 8, At(c, "old", "license"), "directory", "abort")
<1>1. ClearAll(at, c) = {f1, f2, d1, d2, d3, d4}
  BY ClearAllIs
<1>2. /\ f1.at = at + 1 /\ f1.slot = At(c, "fallback", "artifact")
      /\ f2.at = at + 3 /\ f2.slot = At(c, "fallback", "license")
      /\ d1.at = at + 5 /\ d1.slot = At(c, "current", "artifact")
      /\ d2.at = at + 6 /\ d2.slot = At(c, "old", "artifact")
      /\ d3.at = at + 7 /\ d3.slot = At(c, "current", "license")
      /\ d4.at = at + 8 /\ d4.slot = At(c, "old", "license")
      /\ \A s \in {f1, f2, d1, d2, d3, d4} :
            s.content = Absent /\ s.group = "directory" /\ s.onFail = "abort"
  BY DEF Remove, Write
<1> HIDE DEF f1, f2, d1, d2, d3, d4
<1>3. \A s \in {f1, f2, d1, d2, d3, d4} :
          /\ s.slot \in Slots /\ s.slot[1] = c /\ s.at \in Nat /\ s.at > at
          /\ s.slot[3] = "license" /\ s.slot[2] # "fallback" => s.at >= at + 7
  BY <1>2, AtForm DEF Places, Keys
<1> QED
  BY <1>1, <1>2, <1>3 DEF Places

(* The record's own file goes after all that it may be hiding.             *)
LEMMA ClearsLast ==
    ASSUME NEW at \in Nat, NEW c \in Caches
    PROVE  \A s, t \in ClearAll(at, c) :
              s.slot[2] = "current" /\ t.slot = At(c, "current", "license") => t = s \/ s.at < t.at
<1> DEFINE f1 == Remove(at + 1, At(c, "fallback", "artifact"), "directory", "abort")
           f2 == Remove(at + 3, At(c, "fallback", "license"), "directory", "abort")
           d1 == Remove(at + 5, At(c, "current", "artifact"), "directory", "abort")
           d2 == Remove(at + 6, At(c, "old", "artifact"), "directory", "abort")
           d3 == Remove(at + 7, At(c, "current", "license"), "directory", "abort")
           d4 == Remove(at + 8, At(c, "old", "license"), "directory", "abort")
<1>1. ClearAll(at, c) = {f1, f2, d1, d2, d3, d4}
  BY ClearAllIs
<1>2. /\ f1.slot = At(c, "fallback", "artifact") /\ f2.slot = At(c, "fallback", "license")
      /\ d1.at = at + 5 /\ d1.slot = At(c, "current", "artifact")
      /\ d2.slot = At(c, "old", "artifact")
      /\ d3.at = at + 7 /\ d4.slot = At(c, "old", "license")
  BY DEF Remove, Write
<1> HIDE DEF f1, f2, d1, d2, d3, d4
<1>3. \A t \in {f1, f2, d1, d2, d3, d4} : t.slot = At(c, "current", "license") => t = d3
  BY <1>2, AtForm DEF Places, Keys
<1>4. \A s \in {f1, f2, d1, d2, d3, d4} : s.slot[2] = "current" => s = d1 \/ s = d3
  BY <1>2, AtForm DEF Places, Keys
<1> QED
  BY <1>1, <1>2, <1>3, <1>4

-----------------------------------------------------------------------------
(* A request                                                               *)

(* Readers find the same in the same files.                                *)
LEMMA ReadsSame ==
    ASSUME file' = file
    PROVE  /\ \A c \in Caches, k \in Keys : Read(c, k)' = Read(c, k) /\ (Present(c, k)' <=> Present(c, k))
           /\ License' = License /\ ArtifactId' = ArtifactId
           /\ NoLicense' <=> NoLicense
           /\ GenericLicense' <=> GenericLicense
  BY ReadIs DEF License, ArtifactId, NoLicense, GenericLicense, Caches, Keys

(* Steps on the product's own files.                                       *)
OfProduct(steps) == \A s \in steps :
    /\ s.slot \in Slots /\ s.content \in Contents /\ s.content # Corrupt
    /\ s.at \in Nat /\ s.slot[1] = "product"

(* What a request keeps, whatever its steps are.                           *)
LEMMA Requested ==
    ASSUME IInv, NEW do \in TransactionKinds \ {"none", "start"}, NEW id, NEW v, NEW steps,
           Request(do, id, v, steps), OfProduct(steps)
    PROVE  /\ Types' /\ Inherited' /\ Copying' /\ Migrating' /\ Shielding'
           /\ todo' \subseteq steps
           /\ \A s \in steps : s.content # Absent \/ file[s.slot] # Absent => s \in todo'
           /\ op'.do = do /\ op'.id = id /\ op'.verdict = v
           /\ file' = file /\ denied' = denied /\ gone' = (gone /\ do # "activate") /\ halfway' = halfway
<1>1. /\ todo' = Needed(steps) /\ op'.do = do /\ op'.id = id /\ op'.verdict = v
      /\ file' = file /\ denied' = denied /\ gone' = (gone /\ do # "activate") /\ halfway' = halfway
      /\ up' = up /\ up = "up" /\ op.do = "none" /\ failed' = failed /\ origin' = origin
  BY DEF Request, Ready
<1>2. todo' \subseteq steps
  BY <1>1 DEF Needed
<1>3. Types'
  BY <1>1, <1>2 DEF IInv, Types, TypeOK, OfProduct
<1>4. Inherited'
  BY <1>1 DEF IInv, Inherited
<1>5. Shielding'
  BY <1>1, ReadsSame DEF IInv, Shielding
<1>6. Copying'
  <2>1. Read("generic", "artifact")' = Read("generic", "artifact")
    BY <1>1, ReadsSame DEF Caches, Keys
  <2>2. NoLicense' /\ GenericLicense' => ArtifactId' \in {None, Read("generic", "artifact")'.id}
    BY <2>1, <1>1, ReadsSame DEF IInv, Copying
  <2>3. \A s \in todo' : s.slot[1] # "generic"
    BY <1>2 DEF OfProduct
  <2> QED
    BY <1>1, <2>2, <2>3 DEF Copying
<1>7. Migrating'
  <2>1. ~halfway => ~GenericLicense
    BY <1>1 DEF IInv, Migrating
  <2>2. \A s \in todo' : s.slot[1] # "generic"
    BY <1>2 DEF OfProduct
  <2> QED
    BY <1>1, <2>1, <2>2, ReadsSame DEF Migrating
<1> QED
  BY <1>1, <1>2, <1>3, <1>4, <1>5, <1>6, <1>7 DEF Needed

(* Requests that move no earlier file                                      *)
LEMMA ActivateOpens ==
    ASSUME IInv, NEW id \in Ids, CommitActivationFiles(id)  PROVE IInv'
<1> DEFINE rec == [id |-> id, verdict |-> "granted"]
           set == Write(1, At("product", "current", "license"), rec, "set", "abort")
<1>1. rec \in LicenseRecord /\ rec # Absent /\ rec # Corrupt /\ rec.verdict = "granted"
  BY Values DEF LicenseRecord, Verdicts
<1> HIDE DEF rec
<1>2. ASSUME NEW s \in CommitSteps(id)
      PROVE  \/ s = set
             \/ \E n \in Nat, p \in Places : s = Remove(n, At("product", p, "artifact"), "key", "skip")
             \/ \E n \in Nat, k \in Keys : s = Remove(n, At("product", "fallback", k), "directory", "skip")
  <2>1. \/ s \in SetLicense(1, rec)
        \/ s \in RemoveKey(2, "product", "artifact", "skip")
        \/ s \in ClearDirectory(5, "product", <<"fallback">>, "skip")
    BY <1>2 DEF CommitSteps, rec
  <2>2. 5 \in Nat /\ "product" \in Caches
    BY DEF Caches
  <2>3. ClearDirectory(5, "product", <<"fallback">>, "skip") =
              {Remove(5 + 1, At("product", "fallback", "artifact"), "directory", "skip"),
               Remove(5 + 3, At("product", "fallback", "license"), "directory", "skip")}
    BY <2>2, ClearDirectoryIs
  <2> QED
    BY <2>1, <2>3 DEF SetLicense, RemoveKey, Places, Keys
<1>3. \A s \in CommitSteps(id) :
        /\ s.slot \in Slots /\ s.content \in Contents /\ s.content # Corrupt
        /\ s.at \in Nat /\ s.slot[1] = "product"
        /\ \/ /\ s.group = "set" /\ WritesLicense(s) /\ s.onFail = "abort"
              /\ s.content.verdict = "granted"
           \/ /\ s.group = "key" /\ s.content = Absent /\ Touches(s, "product", "artifact")
              /\ s.onFail = "skip"
           \/ s.group = "directory" /\ s.content = Absent /\ s.slot[2] = "fallback" /\ s.onFail = "skip"
  BY <1>1, <1>2, Values, AtForm DEF Write, Remove, WritesLicense, Touches, Contents, Caches, Places, Keys
<1>4. /\ Types' /\ Inherited' /\ Copying' /\ Migrating' /\ Shielding'
      /\ todo' \subseteq CommitSteps(id) /\ op'.do = "activate" /\ gone' = FALSE
  <2>1. Request("activate", id, "none", CommitSteps(id)) /\ "activate" \in TransactionKinds \ {"none", "start"}
    BY DEF CommitActivationFiles, TransactionKinds
  <2>2. OfProduct(CommitSteps(id))
    BY <1>3 DEF OfProduct
  <2> QED
    BY <2>1, <2>2, Requested
<1>5. \A s \in todo' : s.slot[3] \in Keys /\ ~Moves(s)
  BY <1>3, <1>4, SlotForm DEF Moves, Keys
<1>6. (\A s \in todo' : Shape(s)') /\ Groups'
  BY <1>3, <1>4 DEF Shape, Groups, WritesLicense, Touches
<1>7. Moving' /\ Deciding' /\ Storing' /\ Clearing' /\ Resetting'
  BY <1>3, <1>4, <1>5 DEF Moving, Orderly, Moves, Deciding, Storing, Clearing, Resetting
<1> QED
  BY <1>4, <1>6, <1>7 DEF IInv

(* clear                                                                   *)
LEMMA ClearOpens ==
    ASSUME IInv, ClearFiles  PROVE IInv'
<1> DEFINE steps == ClearAll(1, "product")
<1>1. /\ \A s \in steps :
            /\ s.slot \in Slots /\ s.slot[1] = "product" /\ s.content = Absent /\ s.at \in Nat /\ s.at > 1
            /\ s.group = "directory" /\ s.onFail = "abort"
            /\ s.slot[3] = "license" /\ s.slot[2] # "fallback" => s.at >= 8
      /\ \A p \in Places : \E t \in steps : t.slot = At("product", p, "artifact") /\ t.at <= 7
  <2>1. 1 \in Nat /\ "product" \in Caches
    BY DEF Caches
  <2> HIDE DEF steps
  <2>2. /\ \A s \in steps :
              /\ s.slot \in Slots /\ s.slot[1] = "product" /\ s.content = Absent /\ s.at \in Nat /\ s.at > 1
              /\ s.group = "directory" /\ s.onFail = "abort"
              /\ s.slot[3] = "license" /\ s.slot[2] # "fallback" => s.at >= 1 + 7
        /\ \A p \in Places : \E t \in steps : t.slot = At("product", p, "artifact") /\ t.at <= 1 + 6
    BY <2>1, ClearSteps DEF steps
  <2> QED
    BY <2>2
<1> HIDE DEF steps
<1>2. OfProduct(steps)
  BY <1>1, Values DEF OfProduct, Contents
<1>3. Request("clear", None, "none", steps) /\ "clear" \in TransactionKinds \ {"none", "start"}
  BY DEF ClearFiles, TransactionKinds, steps
<1>4. /\ Types' /\ Inherited' /\ Copying' /\ Migrating' /\ Shielding'
      /\ todo' \subseteq steps
      /\ \A s \in steps : s.content # Absent \/ file[s.slot] # Absent => s \in todo'
      /\ op'.do = "clear" /\ file' = file /\ gone' = (gone /\ "clear" # "activate") /\ halfway' = halfway
  BY <1>2, <1>3, Requested
<1>5. \A s \in todo' : ~Moves(s)
  BY <1>1, <1>4, SlotForm DEF Moves, Keys
<1>6. (\A s \in todo' : Shape(s)') /\ Groups'
  BY <1>1, <1>4 DEF Shape, Groups
<1>7. Moving' /\ Deciding' /\ Storing'
  BY <1>1, <1>4, <1>5 DEF Moving, Orderly, Moves, Deciding, Storing
<1>8. Clearing'
  <2>1. \A p \in Places : \/ F("product", p, "artifact") = Absent
                          \/ \E t \in todo' : t.slot = At("product", p, "artifact") /\ t.at <= 7
    BY <1>1, <1>4
  <2> QED
    BY <1>1, <1>4, <2>1 DEF Clearing
<1>9. Resetting'
  BY <1>1, <1>4, ReadsSame DEF IInv, Resetting, WritesLicense
<1> QED
  BY <1>4, <1>6, <1>7, <1>8, <1>9 DEF IInv

(* clear_offline_assets                                                    *)
LEMMA ClearArtifactsOpens ==
    ASSUME IInv, ClearArtifactFiles  PROVE IInv'
<1> DEFINE steps == RemoveKey(1, "product", "artifact", "abort")
<1>1. \A s \in steps :
          /\ s.slot \in Slots /\ Touches(s, "product", "artifact") /\ s.content = Absent
          /\ s.at \in Nat /\ s.group = "key" /\ s.onFail = "abort"
  BY AtForm DEF RemoveKey, Remove, Write, Touches, Caches, Places, Keys
<1> HIDE DEF steps
<1>2. OfProduct(steps)
  BY <1>1, Values DEF OfProduct, Contents, Touches
<1>3. Request("clear_artifacts", None, "none", steps)
      /\ "clear_artifacts" \in TransactionKinds \ {"none", "start"}
  BY DEF ClearArtifactFiles, TransactionKinds, steps
<1>4. /\ Types' /\ Inherited' /\ Copying' /\ Migrating' /\ Shielding'
      /\ todo' \subseteq steps /\ op'.do = "clear_artifacts" /\ file' = file
      /\ gone' = (gone /\ "clear_artifacts" # "activate") /\ halfway' = halfway
  BY <1>2, <1>3, Requested
<1>5. (\A s \in todo' : Shape(s)') /\ Groups'
  BY <1>1, <1>4 DEF Shape, Groups, Touches
<1>6. Moving' /\ Deciding' /\ Storing' /\ Clearing'
  BY <1>1, <1>4 DEF Moving, Orderly, Moves, Deciding, Storing, Clearing, Touches
<1>7. Resetting'
  BY <1>1, <1>4, ReadsSame DEF IInv, Resetting, WritesLicense
<1> QED
  BY <1>4, <1>5, <1>6, <1>7 DEF IInv

(* set_machine_file: the artifact is that of the cached license, which is  *)
(* not denied.                                                             *)
LEMMA StoreOpens ==
    ASSUME IInv, NEW id \in Ids, StoreArtifactFiles(id)  PROVE IInv'
<1> DEFINE steps == SetArtifact(1, id)
<1>1. \A s \in steps :
          /\ s.slot \in Slots /\ WritesArtifact(s) /\ Touches(s, "product", "artifact")
          /\ s.content = Artifact(id) /\ s.at \in Nat /\ s.group = "set" /\ s.onFail = "abort"
  BY Values, AtForm DEF SetArtifact, Write, Touches, Caches, Places, Keys, WritesArtifact
<1> HIDE DEF steps
<1>2. Artifact(id) \in LicenseRecord /\ Artifact(id).id = id /\ Artifact(id) # Corrupt /\ Artifact(id) # Absent
  BY Values
<1>3. OfProduct(steps)
  BY <1>1, <1>2 DEF OfProduct, Contents, Touches
<1>4. License.id = id /\ id \notin denied
      /\ Request("store_artifact", id, "none", steps)
      /\ "store_artifact" \in TransactionKinds \ {"none", "start"}
  BY DEF StoreArtifactFiles, TransactionKinds, steps
<1>5. /\ Types' /\ Inherited' /\ Copying' /\ Migrating' /\ Shielding'
      /\ todo' \subseteq steps /\ op'.do = "store_artifact" /\ file' = file /\ denied' = denied
      /\ gone' = (gone /\ "store_artifact" # "activate") /\ halfway' = halfway
  BY <1>3, <1>4, Requested
<1>6. (\A s \in todo' : Shape(s)') /\ Groups'
  BY <1>1, <1>5 DEF Shape, Groups, WritesArtifact
<1>7. ASSUME NEW s \in todo'  PROVE ~WritesLicense(s) /\ ~Moves(s)
  BY <1>1, <1>5, AtForm DEF WritesLicense, Touches, Moves, Caches, Places, Keys
<1>8. Moving' /\ Deciding' /\ Clearing'
  BY <1>1, <1>5, <1>7 DEF Moving, Orderly, Moves, Deciding, WritesLicense, Clearing
<1>9. Storing'
  BY <1>1, <1>2, <1>4, <1>5, ReadsSame DEF Storing
<1>10. Resetting'
  BY <1>5, <1>7, ReadsSame DEF IInv, Resetting, WritesLicense
<1> QED
  BY <1>5, <1>6, <1>8, <1>9, <1>10 DEF IInv

(* The part of Moving that a request with a fetch has to establish.        *)
LEMMA FetchMoves ==
    ASSUME Types, file' = file, NEW at \in Nat, NEW c \in Caches, NEW k \in Keys, NEW onFail, NEW steps,
           Fetch(at, c, k, onFail) \subseteq steps, todo' \subseteq steps,
           \A s \in steps : s.content # Absent => s \in todo',
           \A t \in steps \ Fetch(at, c, k, onFail) : Touches(t, c, k) => t.at \in Nat /\ t.at > at + 1
    PROVE  \A m \in todo' : m \in Fetch(at, c, k, onFail) => Orderly(m)'
<1> DEFINE S == Fetch(at, c, k, onFail)
<1>1. \A m \in S :
          /\ m.at \in Nat /\ Moves(m) /\ Touches(m, c, k)
          /\ m.content # Absent => m.at = at /\ F(c, "current", k) = Absent /\ m.content = Read(c, k)
          /\ m.content = Absent => m.at = at + 1 /\ \E w \in S : w.content # Absent
          /\ \A t \in S :
                (t.content = Absent <=> m.content = Absent)
                    => t = m
  BY FetchIs
<1> HIDE DEF S
<1> TAKE m \in todo'
<1> SUFFICES ASSUME m \in S
             PROVE  /\ \A t \in todo' : t # m /\ Touches(t, m.slot[1], m.slot[3]) =>
                          \/ m.at < t.at
                          \/ Moves(t) /\ t.content # Absent /\ m.content = Absent /\ t.at < m.at
                    /\ m.content # Absent =>
                          /\ F(m.slot[1], "current", m.slot[3])' = Absent
                          /\ m.content = Read(m.slot[1], m.slot[3])'
                    /\ m.content = Absent =>
                          \/ F(m.slot[1], "current", m.slot[3])' # Absent
                          \/ \E w \in todo' : /\ Moves(w) /\ w.content # Absent
                                              /\ Touches(w, m.slot[1], m.slot[3])
  BY DEF S, Orderly
<1>2. m.slot[1] = c /\ m.slot[3] = k
  BY <1>1 DEF Touches
<1>3. ASSUME NEW t \in todo', t # m, Touches(t, c, k)
      PROVE  \/ m.at < t.at
             \/ Moves(t) /\ t.content # Absent /\ m.content = Absent /\ t.at < m.at
  <2>1. CASE t \in S
    BY <1>1, <1>3, <2>1
  <2>2. CASE t \notin S
    <3>1. t.at \in Nat /\ t.at > at + 1
      BY <1>3, <2>2 DEF S
    <3>2. m.at \in {at, at + 1}
      BY <1>1
    <3>3. m.at < t.at
      BY <3>1, <3>2
    <3> QED
      BY <3>3
  <2> QED
    BY <2>1, <2>2
<1>4. Read(c, k)' = Read(c, k)
  BY ReadsSame
<1>5. m.content = Absent => \E w \in todo' : Moves(w) /\ w.content # Absent /\ Touches(w, c, k)
  BY <1>1 DEF S
<1> QED
  BY <1>1, <1>2, <1>3, <1>4, <1>5

(* get_license and get_machine_file, with the moves they make.             *)
LEMMA ReadOpens ==
    ASSUME IInv, ReadFiles  PROVE IInv'
<1> DEFINE L == Fetch(1, "product", "license", "skip")
           A == Fetch(3, "product", "artifact", "skip")
           steps == L \cup A
<1>0. "product" \in Caches /\ "license" \in Keys /\ "artifact" \in Keys /\ 1 \in Nat /\ 3 \in Nat /\ Types
  BY DEF Caches, Keys, IInv
<1>1. /\ \A m \in L :
            /\ m.slot \in Slots /\ m.content \in Contents /\ m.content # Corrupt /\ m.at \in Nat
            /\ m.group = "license" /\ Moves(m) /\ Touches(m, "product", "license") /\ m.onFail = "skip"
            /\ m.content # Absent => m.slot[2] = "current" /\ m.content = Read("product", "license")
            /\ m.content = Absent => m.slot[2] # "current"
      /\ \A m \in A :
            /\ m.slot \in Slots /\ m.content \in Contents /\ m.content # Corrupt /\ m.at \in Nat
            /\ m.group = "artifact" /\ Moves(m) /\ Touches(m, "product", "artifact") /\ m.onFail = "skip"
            /\ m.content # Absent => m.slot[2] = "current"
            /\ m.content = Absent => m.slot[2] # "current"
  BY <1>0, FetchIs
<1>2. Request("read", None, "none", steps) /\ "read" \in TransactionKinds \ {"none", "start"}
  BY DEF ReadFiles, ReadSteps, TransactionKinds
<1> HIDE DEF L, A
<1>3. OfProduct(steps)
  BY <1>1 DEF OfProduct, Touches
<1>4. /\ Types' /\ Inherited' /\ Copying' /\ Migrating' /\ Shielding'
      /\ todo' \subseteq steps
      /\ \A s \in steps : s.content # Absent \/ file[s.slot] # Absent => s \in todo'
      /\ op'.do = "read" /\ file' = file
      /\ gone' = (gone /\ "read" # "activate") /\ halfway' = halfway
  <2> HIDE DEF steps
  <2> QED
    BY <1>2, <1>3, Requested
<1>5. (\A s \in todo' : Shape(s)') /\ Groups'
  BY <1>1, <1>4 DEF Shape, Groups, Moves, Touches
<1>6. Moving'
  <2>1. L \subseteq steps /\ A \subseteq steps /\ todo' \subseteq steps
        /\ \A s \in steps : s.content # Absent => s \in todo'
    BY <1>4
  <2>2. /\ \A t \in steps \ L : Touches(t, "product", "license") => t.at \in Nat /\ t.at > 1 + 1
        /\ \A t \in steps \ A : Touches(t, "product", "artifact") => t.at \in Nat /\ t.at > 3 + 1
    BY <1>1 DEF Touches
  <2> HIDE DEF steps
  <2>3. \A m \in todo' : m \in L => Orderly(m)'
    BY <1>0, <1>4, <2>1, <2>2, FetchMoves DEF L
  <2>4. \A m \in todo' : m \in A => Orderly(m)'
    BY <1>0, <1>4, <2>1, <2>2, FetchMoves DEF A
  <2>5. \A m \in todo' : m \in L \/ m \in A
    BY <2>1 DEF steps
  <2> QED
    BY <2>3, <2>4, <2>5 DEF Moving, Moves
<1>7. Deciding' /\ Storing' /\ Clearing'
  BY <1>1, <1>4 DEF Deciding, Storing, Clearing
<1>8. Resetting'
  <2>1. \A s \in todo' : WritesLicense(s) => License # Absent
    BY <1>1, <1>4, WriteSlots, AtForm DEF WritesLicense, License, Touches, Caches, Places, Keys
  <2> QED
    BY <2>1, <1>4, ReadsSame, LicenseIsPresent DEF IInv, Resetting, WritesLicense
<1> QED
  BY <1>4, <1>5, <1>6, <1>7, <1>8 DEF IInv

(* A record is found only where a file is.                                 *)
LEMMA LicenseFound ==
    ASSUME IInv, NEW id \in Ids, License.id = id
    PROVE  License \in LicenseRecord /\ ~NoLicense
<1>1. License # Absent
  BY NoneNotAnId, Values
<1> QED
  BY <1>1, LicenseIsPresent

(* The license move a request starts with, and what it means for a reset.  *)
LEMMA LicenseMove ==
    ASSUME IInv, NEW onFail
    PROVE  \A m \in Fetch(1, "product", "license", onFail) :
              /\ m.slot \in Slots /\ m.content \in Contents /\ m.content # Corrupt
              /\ m.at \in Nat /\ m.at <= 2
              /\ m.group = "license" /\ Moves(m) /\ Touches(m, "product", "license") /\ m.onFail = onFail
              /\ m.content # Absent => m.slot[2] = "current" /\ m.content = License
              /\ m.content = Absent => m.slot[2] # "current"
              /\ WritesLicense(m) => ~NoLicense
<1>0. "product" \in Caches /\ "license" \in Keys /\ 1 \in Nat /\ Types
  BY DEF Caches, Keys, IInv
<1>1. \A m \in Fetch(1, "product", "license", onFail) :
            /\ m.slot \in Slots /\ m.content \in Contents /\ m.content # Corrupt /\ m.at \in Nat
            /\ m.group = "license" /\ Moves(m) /\ Touches(m, "product", "license") /\ m.onFail = onFail
            /\ m.content # Absent => m.at = 1 /\ m.slot[2] = "current" /\ m.content = Read("product", "license")
            /\ m.content = Absent => m.at = 1 + 1 /\ m.slot[2] # "current"
  BY <1>0, FetchIs
<1> QED
  BY <1>1, LicenseIsPresent DEF WritesLicense, License

(* update_validation: conditional on the record that is cached.            *)
LEMMA ValidateOpens ==
    ASSUME IInv, NEW id \in Ids, UpdateValidationFiles(id)  PROVE IInv'
<1>1. PICK v \in {"granted", "denied", "refused", "offgranted"} :
          /\ v = "offgranted" => License.verdict \notin OnlineDenials
          /\ Request("validate", id, v, ValidateSteps(id, v))
  BY DEF UpdateValidationFiles
<1> DEFINE L == Fetch(1, "product", "license", "skip")
           rec == [id |-> id, verdict |-> v]
           set == Write(3, At("product", "current", "license"), rec, "set", "abort")
           D == {s \in {set} : License.id = id}
           steps == ValidateSteps(id, v)
<1>2. \A m \in L :
            /\ m.slot \in Slots /\ m.content \in Contents /\ m.content # Corrupt
            /\ m.at \in Nat /\ m.at <= 2
            /\ m.group = "license" /\ Moves(m) /\ Touches(m, "product", "license") /\ m.onFail = "skip"
            /\ m.content # Absent => m.slot[2] = "current" /\ m.content = License
            /\ m.content = Absent => m.slot[2] # "current"
            /\ WritesLicense(m) => ~NoLicense
  BY LicenseMove
<1>3. rec \in LicenseRecord /\ rec # Absent /\ rec # Corrupt /\ rec.id = id /\ rec.verdict = v
  BY Values DEF LicenseRecord, Verdicts
<1>4. L \subseteq steps /\ steps \subseteq L \cup D
  BY DEF ValidateSteps, SetLicense
<1> HIDE DEF rec, steps, L
<1>5. \A s \in D :
          /\ s = set /\ License.id = id
          /\ s.slot \in Slots /\ s.content = rec /\ s.at = 3 /\ s.group = "set" /\ s.onFail = "abort"
          /\ WritesLicense(s) /\ Touches(s, "product", "license")
  BY <1>3, AtForm DEF Write, WritesLicense, Touches, Caches, Places, Keys
<1> HIDE DEF D, set
<1>6. OfProduct(steps)
  BY <1>2, <1>3, <1>4, <1>5 DEF OfProduct, Touches, Contents
<1>7. /\ Types' /\ Inherited' /\ Copying' /\ Migrating' /\ Shielding'
      /\ todo' \subseteq steps
      /\ \A s \in steps : s.content # Absent \/ file[s.slot] # Absent => s \in todo'
      /\ op'.do = "validate" /\ file' = file
      /\ gone' = (gone /\ "validate" # "activate") /\ halfway' = halfway
  <2>1. Request("validate", id, v, steps) /\ "validate" \in TransactionKinds \ {"none", "start"}
    BY <1>1 DEF steps, TransactionKinds
  <2> QED
    BY <1>6, <2>1, Requested
<1>8. (\A s \in todo' : Shape(s)') /\ Groups'
  BY <1>2, <1>4, <1>5, <1>7 DEF Shape, Groups, Moves, Touches, WritesLicense
<1>9. Moving'
  <2>1. todo' \subseteq steps /\ \A s \in steps : s.content # Absent => s \in todo'
    BY <1>7
  <2>2. \A t \in steps \ L : Touches(t, "product", "license") => t.at \in Nat /\ t.at > 1 + 1
    BY <1>4, <1>5
  <2>3. Types /\ 1 \in Nat /\ "product" \in Caches /\ "license" \in Keys
    BY DEF IInv, Caches, Keys
  <2>4. \A m \in todo' : m \in L => Orderly(m)'
    BY <1>4, <1>7, <2>1, <2>2, <2>3, FetchMoves DEF L
  <2>5. \A m \in todo' : Moves(m) => m \in L
    BY <1>4, <1>5, <1>7 DEF Moves, Touches
  <2> QED
    BY <2>4, <2>5 DEF Moving, Moves
<1>10. Deciding'
  BY <1>1, <1>2, <1>3, <1>4, <1>5, <1>7, ReadsSame DEF Deciding
<1>11. Storing' /\ Clearing'
  BY <1>2, <1>4, <1>5, <1>7 DEF Storing, Clearing
<1>12. Resetting'
  BY <1>2, <1>4, <1>5, <1>7, ReadsSame, LicenseFound DEF IInv, Resetting, WritesLicense
<1> QED
  BY <1>7, <1>8, <1>9, <1>10, <1>11, <1>12 DEF IInv

(* invalidate_and_clear: the tombstone is written before anything is       *)
(* removed.                                                                *)
LEMMA InvalidateOpens ==
    ASSUME IInv, NEW id \in Ids, InvalidateFiles(id)  PROVE IInv'
<1> DEFINE L == Fetch(1, "product", "license", "skip")
           rec == [License EXCEPT !.verdict = "refused"]
           D == {s \in Tombstone(3, License) : License.id = id}
           C == ClearAll(4, "product")
           steps == InvalidateSteps(id)
<1>1. \A m \in L :
            /\ m.slot \in Slots /\ m.content \in Contents /\ m.content # Corrupt
            /\ m.at \in Nat /\ m.at <= 2
            /\ m.group = "license" /\ Moves(m) /\ Touches(m, "product", "license") /\ m.onFail = "skip"
            /\ m.content # Absent => m.slot[2] = "current" /\ m.content = License
            /\ m.content = Absent => m.slot[2] # "current"
            /\ WritesLicense(m) => ~NoLicense
  BY LicenseMove
<1>2. License.id = id => rec \in LicenseRecord /\ rec # Absent /\ rec # Corrupt /\ rec.verdict = "refused"
  BY LicenseFound, Values DEF LicenseRecord, Verdicts
<1>3. \A s \in D :
          /\ License.id = id
          /\ s.slot \in Slots /\ s.content = rec /\ s.at = 3 /\ s.group = "tombstone" /\ s.onFail = "skip"
          /\ WritesLicense(s) /\ Touches(s, "product", "license")
  BY <1>2, AtForm DEF Tombstone, Write, WritesLicense, Touches, Caches, Places, Keys
<1>4. /\ \A s \in C :
            /\ s.slot \in Slots /\ s.slot[1] = "product" /\ s.content = Absent /\ s.at \in Nat /\ s.at > 4
            /\ s.group = "directory" /\ s.onFail = "abort"
            /\ s.slot[3] = "license" /\ s.slot[2] # "fallback" => s.at >= 11
      /\ \A p \in Places : \E t \in C : t.slot = At("product", p, "artifact") /\ t.at <= 10
  <2>1. 4 \in Nat /\ "product" \in Caches
    BY DEF Caches
  <2> HIDE DEF C
  <2>2. /\ \A s \in C :
              /\ s.slot \in Slots /\ s.slot[1] = "product" /\ s.content = Absent /\ s.at \in Nat /\ s.at > 4
              /\ s.group = "directory" /\ s.onFail = "abort"
              /\ s.slot[3] = "license" /\ s.slot[2] # "fallback" => s.at >= 4 + 7
        /\ \A p \in Places : \E t \in C : t.slot = At("product", p, "artifact") /\ t.at <= 4 + 6
    BY <2>1, ClearSteps DEF C
  <2> QED
    BY <2>2
<1>5. /\ L \subseteq steps /\ steps \subseteq L \cup D \cup C
      /\ C \subseteq steps \/ steps = L
  BY DEF InvalidateSteps
<1> HIDE DEF rec, steps, L, D, C
<1>6. OfProduct(steps)
  BY <1>1, <1>2, <1>3, <1>4, <1>5, Values DEF OfProduct, Touches, Contents
<1>7. /\ Types' /\ Inherited' /\ Copying' /\ Migrating' /\ Shielding'
      /\ todo' \subseteq steps
      /\ \A s \in steps : s.content # Absent \/ file[s.slot] # Absent => s \in todo'
      /\ op'.do = "invalidate" /\ file' = file
      /\ gone' = (gone /\ "invalidate" # "activate") /\ halfway' = halfway
  <2>1. Request("invalidate", id, "none", steps) /\ "invalidate" \in TransactionKinds \ {"none", "start"}
    BY DEF InvalidateFiles, steps, TransactionKinds
  <2> QED
    BY <1>6, <2>1, Requested
<1>8. (\A s \in todo' : Shape(s)') /\ Groups'
  <2>1. \A s \in todo' : s \in L \/ s \in D \/ s \in C
    BY <1>5, <1>7
  <2>2. \A s \in todo' : Shape(s)'
    BY <1>1, <1>2, <1>3, <1>4, <1>7, <2>1 DEF Shape, Moves, Touches, WritesLicense
  <2>3. Groups'
    BY <1>1, <1>3, <1>4, <2>1 DEF Groups
  <2> QED
    BY <2>2, <2>3
<1>9. Moving'
  <2>1. todo' \subseteq steps /\ \A s \in steps : s.content # Absent => s \in todo'
    BY <1>7
  <2>2. \A t \in steps \ L : Touches(t, "product", "license") => t.at \in Nat /\ t.at > 1 + 1
    BY <1>3, <1>4, <1>5
  <2>3. Types /\ 1 \in Nat /\ "product" \in Caches /\ "license" \in Keys
    BY DEF IInv, Caches, Keys
  <2>4. \A m \in todo' : m \in L => Orderly(m)'
    BY <1>5, <1>7, <2>1, <2>2, <2>3, FetchMoves DEF L
  <2>5. \A m \in todo' : Moves(m) => m \in L
    <3>1. \A m \in C : ~Moves(m)
      BY <1>4, SlotForm DEF Moves, Keys
    <3> QED
      BY <1>3, <1>5, <1>7, <3>1 DEF Moves, Touches
  <2> QED
    BY <2>4, <2>5 DEF Moving, Moves
<1>10. Deciding' /\ Storing'
  BY <1>1, <1>3, <1>4, <1>5, <1>7 DEF Deciding, Storing
<1>11. Clearing'
  <2>1. C \subseteq steps =>
          \A p \in Places : \/ F("product", p, "artifact") = Absent
                            \/ \E t \in todo' : /\ t.slot = At("product", p, "artifact")
                                                /\ t \in C /\ t.at <= 10
    BY <1>4, <1>7
  <2>2. \A s \in todo' : s.group = "directory" => s \in C /\ C \subseteq steps
    BY <1>1, <1>3, <1>5, <1>7
  <2> QED
    BY <1>4, <1>7, <2>1, <2>2 DEF Clearing
<1>12. Resetting'
  <2>1. \A s \in todo' : WritesLicense(s) => ~NoLicense
    BY <1>1, <1>3, <1>4, <1>5, <1>7, LicenseFound DEF WritesLicense
  <2> QED
    BY <2>1, <1>7, ReadsSame DEF IInv, Resetting, WritesLicense
<1> QED
  BY <1>7, <1>8, <1>9, <1>10, <1>11, <1>12 DEF IInv

(* An earlier release left a license that can be read.                     *)
LEMMA GenericIs ==
    ASSUME IInv
    PROVE  /\ GenericLicense <=> Read("generic", "license") # Absent
           /\ Read("generic", "license") \in {Absent, Earlier}
           /\ Read("generic", "artifact") \in {Absent, Artifact(Earlier.id)}
<1>1. \A p \in Places : /\ F("generic", p, "license") \in {Absent, Earlier}
                        /\ F("generic", p, "artifact") \in {Absent, Artifact(Earlier.id)}
  BY DEF IInv, Inherited, EarlierOf, Caches, Keys
<1>2. Earlier # Absent /\ Earlier # Corrupt /\ Artifact(Earlier.id) # Corrupt
  BY Values
<1> QED
  BY <1>1, <1>2, ReadIs DEF GenericLicense, Firsts, Places, Caches, Keys

(* What every launch does, whatever it finds.                              *)
LEMMA Launched ==
    ASSUME IInv, Start
    PROVE  /\ op'.do = "start" /\ up' = "starting" /\ up = "down" /\ ~failed' /\ failed' \in BOOLEAN
           /\ todo' = Needed(StartSteps)
           /\ file' = file /\ denied' = denied /\ gone' = gone /\ halfway' = halfway /\ origin' = origin
           /\ Inherited' /\ Shielding'
<1>1. /\ op'.do = "start" /\ up' = "starting" /\ up = "down" /\ failed' = failed /\ op.do = "none"
      /\ todo' = Needed(StartSteps) /\ ~Unreadable("product")
      /\ file' = file /\ denied' = denied /\ gone' = gone /\ halfway' = halfway /\ origin' = origin
  BY DEF Start
<1>2. ~failed' /\ failed' \in BOOLEAN
  BY <1>1 DEF IInv, Types
<1>3. \A p \in Places : F("product", p, "license") # Corrupt
  <2>1. \A p \in Places : p # "current" => F("product", p, "license") # Corrupt
    BY Values DEF IInv, Inherited, Caches, Keys, EarlierOf
  <2>2. F("product", "current", "license") # Corrupt
    BY <1>1, ReadIs, Values DEF Unreadable, Firsts, Caches, Keys
  <2> QED
    BY <2>1, <2>2
<1>4. Inherited'
  BY <1>1, <1>3 DEF IInv, Inherited
<1>5. Shielding'
  BY <1>1, ReadsSame DEF IInv, Shielding
<1> QED
  BY <1>1, <1>2, <1>4, <1>5

(* A fresh process keeps the identity and a recorded denial.               *)
LEMMA StartupKeeps ==
    ASSUME NEW rec \in LicenseRecord
    PROVE  /\ StartupRecord(rec) \in LicenseRecord /\ StartupRecord(rec).id = rec.id
           /\ StartupRecord(rec).verdict \in OnlineDenials <=> rec.verdict \in OnlineDenials
  BY DEF StartupRecord, LicenseRecord, Verdicts, OnlineDenials

(* try_new on a cache that has a license, or none anywhere.                *)
LEMMA LaunchOpens ==
    ASSUME IInv, Start, ~Migrates  PROVE IInv'
<1> DEFINE L == Fetch(1, "product", "license", "abort")
           set == Write(3, At("product", "current", "license"), StartupRecord(License), "set", "abort")
           D == {s \in {set} : License # Absent}
           steps == StartSteps
<1>1. \A m \in L :
            /\ m.slot \in Slots /\ m.content \in Contents /\ m.content # Corrupt
            /\ m.at \in Nat /\ m.at <= 2
            /\ m.group = "license" /\ Moves(m) /\ Touches(m, "product", "license") /\ m.onFail = "abort"
            /\ m.content # Absent => m.slot[2] = "current" /\ m.content = License
            /\ m.content = Absent => m.slot[2] # "current"
            /\ WritesLicense(m) => ~NoLicense
  BY LicenseMove
<1>2. License # Absent =>
          /\ StartupRecord(License) \in LicenseRecord /\ StartupRecord(License).id = License.id
          /\ StartupRecord(License).verdict \in OnlineDenials <=> License.verdict \in OnlineDenials
          /\ StartupRecord(License) # Absent /\ StartupRecord(License) # Corrupt
          /\ ~NoLicense
  BY LicenseIsPresent, StartupKeeps, Values
<1>3. L \subseteq steps /\ steps \subseteq L \cup D
  BY DEF StartSteps, SetLicense
<1>4. \A s \in D :
          /\ License # Absent
          /\ s.slot \in Slots /\ s.content = StartupRecord(License) /\ s.at = 3 /\ s.group = "set"
          /\ s.onFail = "abort" /\ WritesLicense(s) /\ Touches(s, "product", "license")
  BY <1>2, AtForm DEF Write, WritesLicense, Touches, Caches, Places, Keys
<1> HIDE DEF D, set, steps, L
<1>5. /\ op'.do = "start" /\ up' = "starting" /\ up = "down" /\ ~failed' /\ failed' \in BOOLEAN
      /\ todo' \subseteq steps /\ \A s \in steps : s.content # Absent => s \in todo'
      /\ file' = file /\ denied' = denied /\ gone' = gone /\ halfway' = halfway /\ origin' = origin
      /\ Inherited' /\ Shielding'
  BY Launched DEF steps, Needed
<1>6. Types'
  BY <1>1, <1>2, <1>3, <1>4, <1>5 DEF IInv, Types, TypeOK, TransactionKinds, Contents
<1>7. (\A s \in todo' : Shape(s)') /\ Groups'
  BY <1>1, <1>3, <1>4, <1>5 DEF Shape, Groups, Moves, Touches, WritesLicense
<1>8. Moving'
  <2>1. \A t \in steps \ L : Touches(t, "product", "license") => t.at \in Nat /\ t.at > 1 + 1
    BY <1>3, <1>4
  <2>2. Types /\ 1 \in Nat /\ "product" \in Caches /\ "license" \in Keys
    BY DEF IInv, Caches, Keys
  <2>3. \A m \in todo' : m \in L => Orderly(m)'
    BY <1>3, <1>5, <2>1, <2>2, FetchMoves DEF L
  <2>4. \A m \in todo' : Moves(m) => m \in L
    BY <1>3, <1>4, <1>5 DEF Moves, Touches
  <2> QED
    BY <2>3, <2>4 DEF Moving, Moves
<1>9. Deciding'
  BY <1>1, <1>2, <1>3, <1>4, <1>5, ReadsSame DEF Deciding
<1>10. \A s \in todo' : ~WritesArtifact(s) \/ s.group # "set"
  BY <1>1, <1>3, <1>4, <1>5, AtForm DEF WritesArtifact, Touches, Caches, Places, Keys
<1>11. Storing' /\ Clearing'
  BY <1>1, <1>3, <1>4, <1>5, <1>10 DEF Storing, Clearing, WritesArtifact
<1>12. \A s \in todo' : s.slot[1] = "product" /\ (WritesLicense(s) => ~NoLicense)
  BY <1>1, <1>2, <1>3, <1>4, <1>5 DEF Touches
<1>13. Resetting'
  BY <1>5, <1>12, ReadsSame DEF IInv, Resetting, WritesLicense
<1>14. Migrating'
  <2>1. ~halfway => ~GenericLicense
    BY <1>5, GenericIs DEF IInv, Migrating, Migrates, NoLicense
  <2> QED
    BY <2>1, <1>5, <1>12, ReadsSame DEF Migrating
<1>15. Copying'
  <2>1. Read("generic", "artifact")' = Read("generic", "artifact")
    BY <1>5, ReadsSame DEF Caches, Keys
  <2>2. NoLicense' /\ GenericLicense' => ArtifactId' \in {None, Read("generic", "artifact")'.id}
    BY <2>1, <1>5, ReadsSame DEF IInv, Copying
  <2> QED
    BY <1>5, <1>12, <2>2, ReadsSame DEF Copying, WritesLicense
<1> QED
  BY <1>5, <1>6, <1>7, <1>8, <1>9, <1>11, <1>13, <1>14, <1>15 DEF IInv

(* try_new with migrate_from.                                              *)
LEMMA MigrationOpens ==
    ASSUME IInv, Start, Migrates  PROVE IInv'
<1> DEFINE rec == Read("generic", "license")
           art == Read("generic", "artifact").id
           GL == Fetch(1, "generic", "license", "abort")
           GA == Fetch(3, "generic", "artifact", "skip")
           SA == {s \in SetArtifact(5, art) : art # None}
           s1 == Write(6, At("product", "current", "license"), rec, "set", "abort")
           s2 == Write(16, At("product", "current", "license"), StartupRecord(rec), "set", "abort")
           C == ClearAll(7, "generic")
           steps == StartSteps
<1>0. "product" \in Caches /\ "generic" \in Caches /\ "license" \in Keys /\ "artifact" \in Keys
      /\ 1 \in Nat /\ 3 \in Nat /\ 7 \in Nat /\ Types
  BY DEF Caches, Keys, IInv
<1>1. /\ NoLicense /\ License = Absent /\ GenericLicense
      /\ rec = Earlier /\ art \in {None, Earlier.id}
  BY GenericIs, LicenseIsPresent, Values DEF Migrates, NoLicense
<1>2. /\ \A m \in GL :
            /\ m.slot \in Slots /\ m.content \in Contents /\ m.content # Corrupt /\ m.at \in Nat
            /\ m.group = "license" /\ Moves(m) /\ Touches(m, "generic", "license") /\ m.onFail = "abort"
            /\ m.content # Absent => m.slot[2] = "current"
            /\ m.content = Absent => m.slot[2] # "current"
      /\ \A m \in GA :
            /\ m.slot \in Slots /\ m.content \in Contents /\ m.content # Corrupt /\ m.at \in Nat
            /\ m.group = "artifact" /\ Moves(m) /\ Touches(m, "generic", "artifact") /\ m.onFail = "skip"
            /\ m.content # Absent => m.slot[2] = "current"
            /\ m.content = Absent => m.slot[2] # "current"
  BY <1>0, FetchIs
<1>3. \A s \in SA :
          /\ art = Earlier.id
          /\ s.slot \in Slots /\ s.content = Artifact(art) /\ s.content.id = art
          /\ s.content \in LicenseRecord /\ s.content # Corrupt
          /\ s.at = 5 /\ s.group = "set" /\ s.onFail = "abort"
          /\ WritesArtifact(s) /\ Touches(s, "product", "artifact") /\ ~WritesLicense(s)
  BY <1>1, Values, AtForm DEF SetArtifact, Write, WritesArtifact, WritesLicense, Touches, Caches, Places, Keys
<1>4. \A s \in {s1, s2} :
          /\ s.slot \in Slots /\ s.content \in LicenseRecord /\ s.content # Corrupt /\ s.content # Absent
          /\ s.content.id = Earlier.id /\ s.content.verdict \notin OnlineDenials
          /\ s.at \in {6, 16} /\ s.group = "set" /\ s.onFail = "abort"
          /\ WritesLicense(s) /\ Touches(s, "product", "license") /\ ~WritesArtifact(s)
  BY <1>1, Values, StartupKeeps, AtForm
     DEF Write, WritesArtifact, WritesLicense, Touches, Caches, Places, Keys, OnlineDenials
<1>5. s1.at = 6
  BY DEF Write
<1>6. /\ \A s \in C :
            /\ s.slot \in Slots /\ s.slot[1] = "generic" /\ s.content = Absent /\ s.at \in Nat /\ s.at > 7
            /\ s.group = "directory" /\ s.onFail = "abort"
      /\ \A p \in Places : \E t \in C : t.slot = At("generic", p, "license")
  BY <1>0, ClearSteps
<1>7. steps = GL \cup GA \cup SA \cup {s1} \cup C \cup {s2}
  BY DEF StartSteps, MigrateSteps, CopyLicenseLast, SetLicense
<1>8. art # None => \E t \in SA : TRUE
  BY DEF SetArtifact
<1> HIDE DEF s1, s2, SA, C, GL, GA, steps
<1>9. /\ op'.do = "start" /\ up' = "starting" /\ up = "down" /\ ~failed' /\ failed' \in BOOLEAN
      /\ todo' \subseteq steps
      /\ \A s \in steps : /\ s.content # Absent => s \in todo'
                          /\ file[s.slot] # Absent => s \in todo'
                          /\ (\E t \in steps : t.slot = s.slot /\ t.content # Absent) => s \in todo'
      /\ file' = file /\ denied' = denied /\ gone' = gone /\ halfway' = halfway /\ origin' = origin
      /\ Inherited' /\ Shielding'
  BY Launched DEF steps, Needed
<1>10. \A s \in steps : s \in GL \/ s \in GA \/ s \in SA \/ s \in {s1, s2} \/ s \in C
  BY <1>7
<1>11. Types'
  <2>1. \A s \in steps : /\ s.slot \in Slots /\ s.content \in Contents /\ s.content # Corrupt
                         /\ s.at \in Nat
    BY <1>2, <1>3, <1>4, <1>6, <1>10, Values DEF Contents
  <2> QED
    BY <2>1, <1>9 DEF IInv, Types, TypeOK, TransactionKinds
<1>12. (\A s \in todo' : Shape(s)') /\ Groups'
  <2>1. \A s \in todo' : s \in GL \/ s \in GA \/ s \in SA \/ s \in {s1, s2} \/ s \in C
    BY <1>9, <1>10
  <2>2. \A s \in todo' : Shape(s)'
    BY <1>2, <1>3, <1>4, <1>6, <1>9, <2>1 DEF Shape, Moves, Touches, WritesLicense, WritesArtifact
  <2>3. \A s \in todo' : \/ s.group = "artifact" /\ s.onFail = "skip"
                         \/ s.group # "artifact" /\ s.onFail = "abort"
    BY <1>2, <1>3, <1>4, <1>6, <2>1
  <2>4. Groups'
    BY <2>3 DEF Groups
  <2> QED
    BY <2>2, <2>4
<1>13. Moving'
  <2>1. /\ \A t \in steps \ GL : Touches(t, "generic", "license") => t.at \in Nat /\ t.at > 1 + 1
        /\ \A t \in steps \ GA : Touches(t, "generic", "artifact") => t.at \in Nat /\ t.at > 3 + 1
    BY <1>2, <1>3, <1>4, <1>6, <1>10 DEF Touches
  <2>2. \A m \in todo' : m \in GL => Orderly(m)'
    BY <1>0, <1>7, <1>9, <2>1, FetchMoves DEF GL
  <2>3. \A m \in todo' : m \in GA => Orderly(m)'
    BY <1>0, <1>7, <1>9, <2>1, FetchMoves DEF GA
  <2>4. \A m \in todo' : Moves(m) => m \in GL \/ m \in GA
    <3>1. \A m \in C : ~Moves(m)
      BY <1>6, SlotForm DEF Moves, Keys
    <3> QED
      BY <1>3, <1>4, <1>9, <1>10, <3>1 DEF Moves, Touches
  <2> QED
    BY <2>2, <2>3, <2>4 DEF Moving, Moves
<1>14. \A s \in todo' : s.group = "set" => s \in SA \/ s \in {s1, s2}
  BY <1>2, <1>6, <1>9, <1>10
<1>15. Deciding'
  BY <1>1, <1>3, <1>4, <1>9, <1>14, ReadsSame DEF Deciding, WritesLicense
<1>16. Read("generic", "artifact")' = Read("generic", "artifact")
  BY <1>0, <1>9, ReadsSame
<1>17. Storing'
  <2>1. \A s \in SA, t \in todo' : t.group = "set" => t = s \/ s.at < t.at
    <3>1. \A s, t \in SA : s = t
      BY DEF SA, SetArtifact
    <3> QED
      BY <1>3, <1>4, <1>14, <3>1
  <2> QED
    BY <2>1, <1>1, <1>3, <1>4, <1>9, <1>14, <1>16, ReadsSame DEF Storing, WritesArtifact
<1>18. Clearing'
  BY <1>2, <1>3, <1>4, <1>6, <1>9, <1>10 DEF Clearing
<1>19. Copying'
  <2>1. s1 \in todo' /\ \A s \in SA : s \in todo'
    BY <1>3, <1>4, <1>7, <1>9, Values
  <2>2. \A s \in todo' : s.group = "directory" /\ s.slot[1] = "generic" => s1.at < s.at
    BY <1>2, <1>3, <1>4, <1>5, <1>6, <1>9, <1>10
  <2>3. ArtifactId \in {None, art}
    BY <1>1 DEF IInv, Copying
  <2>4. NoLicense' /\ GenericLicense' => ArtifactId' \in {None, Read("generic", "artifact")'.id}
    BY <2>3, <1>9, <1>16, ReadsSame
  <2>5. \A s \in todo' : s.group = "set" /\ WritesLicense(s) =>
            \/ ArtifactId' = Read("generic", "artifact")'.id
            \/ \E t \in todo' : t.group = "set" /\ WritesArtifact(t) /\ t.at < s.at
    BY <2>1, <2>3, <1>3, <1>4, <1>8, <1>9, <1>14, <1>16, ReadsSame
  <2> QED
    BY <2>1, <2>2, <2>4, <2>5, <1>4 DEF Copying, WritesLicense, WritesArtifact
<1>20. Migrating'
  <2>1. \A p \in Places :
            (\/ F("generic", p, "license") # Absent
             \/ \E w \in todo' : w.slot = At("generic", p, "license") /\ w.content # Absent)
            => \E t \in todo' : t.slot = At("generic", p, "license") /\ t.group = "directory"
    BY <1>6, <1>7, <1>9
  <2> QED
    BY <2>1, <1>1, <1>9, ReadsSame DEF IInv, Migrating
<1>21. Resetting'
  BY <1>1, <1>9 DEF IInv, Migrating, Resetting
<1> QED
  BY <1>9, <1>11, <1>12, <1>13, <1>15, <1>17, <1>18, <1>19, <1>20, <1>21 DEF IInv

-----------------------------------------------------------------------------
(* The end of a transaction, a crash, and damage                           *)

(* With no step pending, little is left to say.                            *)
LEMMA NothingPending ==
    ASSUME IInv, todo' = {}, Types', Inherited', Migrating', Resetting', Shielding',
           NoLicense' /\ GenericLicense' => ArtifactId' \in {None, Read("generic", "artifact")'.id}
    PROVE  IInv'
  BY DEF IInv, Groups, Moving, Deciding, Storing, Clearing, Copying

(* An earlier cache without a license has nothing left to migrate.         *)
LEMMA GenericUnread ==
    ASSUME IInv, GenericLicense, ~halfway, ~Migrated  PROVE NoLicense
<1>1. up = "down" => NoLicense
  BY DEF IInv, Migrating
<1>2. up = "starting" => op.do = "start"
  BY DEF IInv, Types
<1>3. op.do = "start" => License = Absent
  BY GenericIs DEF Migrated
<1>4. up # "up"
  BY DEF IInv, Migrating
<1> QED
  BY <1>1, <1>2, <1>3, <1>4, LicenseIsPresent DEF IInv, Types, TypeOK

(* A migration that has completed has cleared the earlier cache; a reset   *)
(* that has completed has removed every license file.                      *)
LEMMA CompleteKeeps ==
    ASSUME IInv, Complete  PROVE IInv'
<1>1. /\ todo = {} /\ todo' = {} /\ op' = NoOp /\ op'.do = "none" /\ failed' = FALSE /\ op.do # "none"
      /\ up' = IF op.do = "start" THEN IF failed THEN "down" ELSE "up" ELSE up
      /\ gone' = \/ gone
                 \/ op.do \in {"clear", "invalidate"} /\ ~failed /\ ~Present("product", "license")
      /\ halfway' = (halfway \/ (failed /\ Migrated))
      /\ file' = file /\ denied' = denied /\ origin' = origin
  BY DEF Complete, NoOp
<1>2. op.do = "start" <=> up = "starting"
  BY DEF IInv, Types
<1>3. up' \in {"down", "up"}
  BY <1>1, <1>2 DEF IInv, Types, TypeOK
<1>4. Types'
  <2>1. halfway' \in BOOLEAN /\ gone' \in BOOLEAN
    BY <1>1 DEF IInv, Types
  <2> QED
    BY <1>1, <1>3, <2>1 DEF IInv, Types, TypeOK, TransactionKinds
<1>5. Inherited'
  BY <1>1 DEF IInv, Inherited
<1>6. Shielding'
  BY <1>1, ReadsSame DEF IInv, Shielding
<1>7. Migrating'
  <2> SUFFICES ASSUME ~halfway', GenericLicense'
               PROVE  /\ up' # "up" /\ ~gone' /\ denied' = {}
                      /\ up' = "down" => NoLicense'
    BY <1>1, <1>3 DEF Migrating
  <2>1. GenericLicense /\ ~halfway
    BY <1>1, ReadsSame
  <2>2. up # "up" /\ ~gone /\ denied = {} /\ up = "starting"
    BY <2>1, <1>1 DEF IInv, Migrating, Types, TypeOK
  <2>3. op.do = "start" /\ ~gone'
    BY <1>1, <1>2, <2>2
  <2>4. failed
    <3> SUFFICES ASSUME ~failed  PROVE FALSE
      OBVIOUS
    <3>1. \A p \in Places : F("generic", p, "license") = Absent
      BY <1>1, <2>1, <2>2 DEF IInv, Migrating
    <3> QED
      BY <3>1, <2>1 DEF GenericLicense, Present
  <2>5. NoLicense
    BY <1>1, <2>1, <2>4, GenericUnread
  <2> QED
    BY <1>1, <2>2, <2>3, <2>4, <2>5, ReadsSame
<1>8. Resetting'
  BY <1>1, ReadsSame DEF IInv, Resetting, NoLicense
<1>9. NoLicense' /\ GenericLicense' => ArtifactId' \in {None, Read("generic", "artifact")'.id}
  BY <1>1, ReadsSame DEF IInv, Copying, Caches, Keys
<1> QED
  BY <1>1, <1>4, <1>5, <1>6, <1>7, <1>8, <1>9, NothingPending

(* A crash leaves the files as they are and forgets the rest.              *)
LEMMA CrashKeeps ==
    ASSUME IInv, Crash  PROVE IInv'
<1>1. /\ todo' = {} /\ op' = NoOp /\ op'.do = "none" /\ failed' = FALSE /\ up' = "down"
      /\ halfway' = (halfway \/ Migrated)
      /\ file' = file /\ denied' = denied /\ origin' = origin /\ gone' = gone
  BY DEF Crash, NoOp
<1>2. Types'
  <2>1. halfway' \in BOOLEAN
    BY <1>1 DEF IInv, Types
  <2> QED
    BY <1>1, <2>1 DEF IInv, Types, TypeOK, TransactionKinds
<1>3. Inherited'
  BY <1>1 DEF IInv, Inherited
<1>4. Shielding'
  BY <1>1, ReadsSame DEF IInv, Shielding
<1>5. Migrating'
  <2> SUFFICES ASSUME ~halfway', GenericLicense'
               PROVE  /\ ~gone' /\ denied' = {} /\ NoLicense'
    BY <1>1 DEF Migrating
  <2>1. GenericLicense /\ ~halfway /\ NoLicense
    BY <1>1, ReadsSame, GenericUnread
  <2> QED
    BY <1>1, <2>1, ReadsSame DEF IInv, Migrating
<1>6. Resetting'
  BY <1>1, ReadsSame DEF IInv, Resetting
<1>7. NoLicense' /\ GenericLicense' => ArtifactId' \in {None, Read("generic", "artifact")'.id}
  BY <1>1, ReadsSame DEF IInv, Copying, Caches, Keys
<1> QED
  BY <1>1, <1>2, <1>3, <1>4, <1>5, <1>6, <1>7, NothingPending

(* A damaged file is one that readers no longer find.                      *)
LEMMA DamageKeeps ==
    ASSUME IInv, NEW k \in Keys, Damage(k)  PROVE IInv'
<1> DEFINE x == At("product", "current", k)
<1>0. "product" \in Caches /\ "generic" \in Caches /\ "license" \in Keys /\ "artifact" \in Keys
      /\ "current" \in Places
  BY DEF Caches, Keys, Places
<1>1. /\ op.do = "none" /\ file[x] # Absent /\ file' = [file EXCEPT ![x] = Corrupt]
      /\ up' = up /\ op' = op /\ todo' = todo /\ failed' = failed /\ origin' = origin
      /\ denied' = denied /\ gone' = gone /\ halfway' = halfway
  BY DEF Damage
<1>2. file \in [Slots -> Contents] /\ x \in Slots /\ todo = {} /\ Corrupt \in Contents
  BY <1>0, <1>1, AtForm DEF IInv, Types, TypeOK, Contents
<1> HIDE DEF x
<1>3. /\ file' \in [Slots -> Contents]
      /\ \A c \in Caches, p \in Places, j \in Keys :
            F(c, p, j)' = IF c = "product" /\ p = "current" /\ j = k THEN Corrupt ELSE F(c, p, j)
  <2>1. \A c \in Caches, p \in Places, j \in Keys :
            At(c, p, j) \in Slots /\ (At(c, p, j) = x <=> c = "product" /\ p = "current" /\ j = k)
    BY <1>0, AtForm DEF x
  <2> QED
    BY <2>1, <1>1, <1>2
<1>4. /\ F("product", "current", k) # Absent
      /\ \A j \in Keys : /\ Present("product", j)' <=> Present("product", j)
                         /\ Read("product", j)' = IF j = k THEN Absent ELSE Read("product", j)
                         /\ Read("generic", j)' = Read("generic", j)
                         /\ Present("generic", j)' <=> Present("generic", j)
  <2>1. F("product", "current", k) # Absent
    BY <1>1 DEF x
  <2> QED
    BY <2>1, <1>0, <1>3, ReadIs, Values DEF Firsts, Places, Caches
<1>5. /\ License' \in {Absent, License} /\ (NoLicense' <=> NoLicense)
      /\ (GenericLicense' <=> GenericLicense) /\ ArtifactId' \in {None, ArtifactId}
  BY <1>0, <1>4, Values DEF License, NoLicense, GenericLicense, ArtifactId
<1>6. Types'
  BY <1>1, <1>2, <1>3 DEF IInv, Types, TypeOK
<1>7. Inherited'
  BY <1>0, <1>1, <1>3 DEF IInv, Inherited, Caches
<1>8. Shielding'
  <2> SUFFICES ASSUME ~halfway, License'.id \in denied, License'.verdict \notin OnlineDenials,
                      NEW p \in Places
               PROVE  F("product", p, "artifact")'.id # License'.id
    BY <1>1 DEF Shielding
  <2>1. License' = License /\ License'.id # None
    BY <1>5, Values, NoneNotAnId DEF IInv, Types, TypeOK
  <2> QED
    BY <2>1, <1>0, <1>3, Values DEF IInv, Shielding
<1>9. Migrating'
  BY <1>1, <1>2, <1>5 DEF IInv, Types, Migrating
<1>10. Resetting'
  BY <1>1, <1>2, <1>5 DEF IInv, Resetting
<1>11. NoLicense' /\ GenericLicense' => ArtifactId' \in {None, Read("generic", "artifact")'.id}
  BY <1>0, <1>4, <1>5 DEF IInv, Copying
<1> QED
  BY <1>1, <1>2, <1>6, <1>7, <1>8, <1>9, <1>10, <1>11, NothingPending

-----------------------------------------------------------------------------
(* Every state a first launch may find.                                    *)
LEMMA Initial ==
    ASSUME Init  PROVE IInv
<1>1. /\ origin \in AllOrigins /\ file = FilesOf(origin)
      /\ up = "down" /\ op = NoOp /\ op.do = "none" /\ todo = {} /\ failed = FALSE
      /\ denied = {} /\ gone = FALSE /\ halfway = FALSE
  BY OriginsType DEF Init, NoOp
<1>2. /\ file \in [Slots -> Contents]
      /\ \A c \in Caches, p \in Places, k \in Keys :
            F(c, p, k) = IF \/ origin = "generic" /\ c = "generic" /\ p = "fallback"
                            \/ origin \in {"old", "fallback"} /\ c = "product" /\ p = origin
                         THEN EarlierOf(k) ELSE Absent
  <2>1. \A s \in Slots : file[s] = IF \/ origin = "generic" /\ s[1] = "generic" /\ s[2] = "fallback"
                                      \/ origin \in {"old", "fallback"} /\ s[1] = "product" /\ s[2] = origin
                                   THEN EarlierOf(s[3]) ELSE Absent
    BY <1>1 DEF FilesOf, EarlierOf
  <2>2. file = [s \in Slots |-> file[s]]
    BY <1>1 DEF FilesOf
  <2>3. \A s \in Slots : file[s] \in Contents
    BY <2>1, Values, SlotForm DEF Contents
  <2> QED
    BY <2>1, <2>2, <2>3, AtForm
<1>3. Types
  BY <1>1, <1>2 DEF Types, TypeOK, TransactionKinds
<1>4. Inherited
  BY <1>1, <1>2 DEF Inherited, Caches, Places
<1>5. \A p \in Places : F("generic", p, "license") # Absent => origin = "generic"
  BY <1>2, <1>4 DEF Inherited, Caches, Keys
<1>6. GenericLicense => NoLicense /\ ArtifactId = None
  <2>1. origin = "generic" => \A p \in Places, k \in Keys : F("product", p, k) = Absent
    BY <1>2 DEF Caches, Places
  <2> QED
    BY <2>1, <1>5, ReadIs, Values
       DEF GenericLicense, NoLicense, Present, ArtifactId, Firsts, Caches, Keys, Places
<1>7. Migrating /\ Resetting /\ Shielding
  BY <1>1, <1>6 DEF Migrating, Resetting, Shielding
<1> QED
  BY <1>1, <1>3, <1>4, <1>6, <1>7 DEF IInv, Groups, Moving, Deciding, Storing, Clearing, Copying

(* The invariant is inductive.                                             *)
LEMMA Inductive ==
    ASSUME IInv, [Next]_vars  PROVE IInv'
<1>1. CASE UNCHANGED vars
  <2>1. /\ file' = file /\ up' = up /\ op' = op /\ todo' = todo /\ failed' = failed /\ origin' = origin
        /\ denied' = denied /\ gone' = gone /\ halfway' = halfway
    BY <1>1 DEF vars
  <2>2. Types' /\ Inherited' /\ (\A s \in todo' : Shape(s)') /\ Groups'
    BY <2>1 DEF IInv, Types, TypeOK, Inherited, Shape, Groups
  <2>3. Moving' /\ Deciding'
    <3>1. \A c \in Caches, k \in Keys : Read(c, k)' = Read(c, k)
      BY <2>1, ReadsSame
    <3>2. \A m \in todo : m.slot[1] \in Caches /\ m.slot[3] \in Keys
      BY SlotForm DEF IInv, Types, TypeOK
    <3>3. Moving'
      BY <2>1, <3>1, <3>2 DEF IInv, Moving, Orderly
    <3>4. Deciding'
      BY <2>1, ReadsSame DEF IInv, Deciding
    <3> QED
      BY <3>3, <3>4
  <2>4. Storing' /\ Clearing' /\ Copying' /\ Migrating' /\ Resetting' /\ Shielding'
    <3>1. Read("generic", "artifact")' = Read("generic", "artifact")
      BY <2>1, ReadsSame DEF Caches, Keys
    <3> QED
      BY <2>1, <3>1, ReadsSame DEF IInv, Storing, Clearing, Copying, Migrating, Resetting, Shielding
  <2> QED
    BY <2>2, <2>3, <2>4 DEF IInv
<1>2. CASE Start
  BY <1>2, LaunchOpens, MigrationOpens
<1>3. CASE Done \/ Fails
  BY <1>3, StepKeeps
<1>4. CASE Complete
  BY <1>4, CompleteKeeps
<1>5. CASE Crash
  BY <1>5, CrashKeeps
<1>6. CASE ClearFiles
  BY <1>6, ClearOpens
<1>7. CASE ClearArtifactFiles
  BY <1>7, ClearArtifactsOpens
<1>8. CASE ReadFiles
  BY <1>8, ReadOpens
<1>9. ASSUME NEW id \in Ids, \/ CommitActivationFiles(id) \/ UpdateValidationFiles(id)
                             \/ InvalidateFiles(id) \/ StoreArtifactFiles(id)
      PROVE  IInv'
  BY <1>9, ActivateOpens, ValidateOpens, InvalidateOpens, StoreOpens
<1>10. ASSUME NEW k \in Keys, Damage(k)  PROVE IInv'
  BY <1>10, DamageKeeps
<1> QED
  BY <1>1, <1>2, <1>3, <1>4, <1>5, <1>6, <1>7, <1>8, <1>9, <1>10 DEF Next

(* The invariant of the cache's files: it holds after every step of every  *)
(* transaction, done, failed or cut off by the death of the process.       *)
THEOREM CacheInvariant == Spec => []IInv
  BY Initial, Inductive, PTL DEF Spec

(* The state keeps its types.                                              *)
THEOREM TypeCorrect == Spec => []TypeOK
<1>1. IInv => TypeOK
  BY DEF IInv, Types
<1> QED
  BY <1>1, CacheInvariant, PTL

(* cache.rs, clear_directory_unlocked and invalidate_and_clear: whatever   *)
(* fails, and wherever the process dies, an artifact of a denied           *)
(* activation is never readable without the denial that blocks it.         *)
THEOREM DenialsShield == Spec => []DenialShields
<1>1. ASSUME IInv  PROVE DenialShields
  <2> SUFFICES ASSUME ~halfway, License.id \in denied, ArtifactId = License.id,
                      License.verdict \notin OnlineDenials
               PROVE  FALSE
    BY DEF DenialShields
  <2>1. \A p \in Places : F("product", p, "artifact").id # License.id
    BY <1>1 DEF IInv, Shielding
  <2>2. ArtifactId # None
    BY <1>1, NoneNotAnId DEF IInv, Types, TypeOK
  <2> QED
    BY <2>1, <2>2, ReadIs, Values DEF ArtifactId, Firsts, Caches, Keys, Places
<1> QED
  BY <1>1, CacheInvariant, PTL

(* cache.rs, clear and invalidate_and_clear: once a reset or a revocation  *)
(* has succeeded, no file of any release comes back as the license.        *)
THEOREM ResetsAreFinal == Spec => []ResetIsFinal
<1>1. ASSUME IInv  PROVE ResetIsFinal
  BY <1>1, LicenseIsPresent DEF IInv, Resetting, ResetIsFinal
<1> QED
  BY <1>1, CacheInvariant, PTL

(* Only file operations change what a transaction under way reads.         *)
LEMMA UnderWay ==
    ASSUME IInv, [Next]_vars, op.do # "none"
    PROVE  \/ file' = file
           \/ \E s \in todo : Takes(s)
<1>1. CASE UNCHANGED vars
  BY <1>1 DEF vars
<1>2. CASE Done \/ Fails
  BY <1>2, DoneTakes
<1>3. CASE Complete \/ Crash
  BY <1>3 DEF Complete, Crash
<1> QED
  BY <1>1, <1>2, <1>3
     DEF Next, Start, ClearFiles, ClearArtifactFiles, ReadFiles, CommitActivationFiles,
         UpdateValidationFiles, InvalidateFiles, StoreArtifactFiles, Request, Ready, Damage

(* cache.rs, migrate_from: the license a launch copies from the earlier    *)
(* cache becomes readable only after the artifact it is used with.         *)
THEOREM MigrationsAreWhole == Spec => MigrationIsWhole
<1>0. "product" \in Caches /\ "license" \in Keys /\ "artifact" \in Keys
  BY DEF Caches, Keys
<1>1. ASSUME IInv, [Next]_vars, op.do = "start", License = Absent, License' # Absent
      PROVE  ArtifactId' = Read("generic", "artifact").id
  <2>1. NoLicense
    BY <1>1, LicenseIsPresent
  <2>2. PICK s \in todo : Takes(s)
    BY <1>1, UnderWay, ReadsSame
  <2>3. ~Moves(s) /\ Touches(s, "product", "license")
    BY <1>0, <1>1, <2>2, Kept DEF License
  <2>4. s.group = "set" /\ WritesLicense(s)
    BY <1>1, <2>3, StepsOf, WriteSlots DEF Touches
  <2>5. \A t \in todo : ~(t.at < s.at)
    BY <1>1, <2>2 DEF Takes, IsNext, IInv, Types
  <2>6. ArtifactId = Read("generic", "artifact").id
    BY <1>1, <2>1, <2>4, <2>5 DEF IInv, Copying
  <2>7. ArtifactId' = ArtifactId
    BY <1>0, <1>1, <2>2, <2>3, Kept DEF ArtifactId, Touches
  <2> QED
    BY <2>6, <2>7
<1>2. ASSUME IInv, [Next]_vars
      PROVE  License = Absent /\ License' # Absent /\ Read("generic", "license") # Absent
                /\ op.do = "start" => ArtifactId' = Read("generic", "artifact").id
  BY <1>1, <1>2
<1> QED
  BY <1>2, CacheInvariant, PTL DEF Spec, MigrationIsWhole

(* cache.rs, migrate_legacy_value_unlocked and migrate_from: reading and   *)
(* launching move values between files, and at no point between two file   *)
(* operations is the activation or the artifact out of a reader's sight.   *)
THEOREM MovesLoseNothing == Spec => NothingLost
<1>0. "product" \in Caches /\ "license" \in Keys /\ "artifact" \in Keys
  BY DEF Caches, Keys
<1>1. ASSUME IInv, [Next]_vars, op.do \in {"read", "start"}
      PROVE  /\ License # Absent => License'.id = License.id
             /\ ArtifactId # None => ArtifactId' = ArtifactId
  <2>1. CASE file' = file
    BY <2>1, ReadsSame
  <2>2. ASSUME NEW s \in todo, Takes(s), file' # file
        PROVE  /\ License # Absent => License'.id = License.id
               /\ ArtifactId # None => ArtifactId' = ArtifactId
    <3>1. /\ Moves(s) \/ ~Touches(s, "product", "license") => License' = License
          /\ Moves(s) \/ ~Touches(s, "product", "artifact") => ArtifactId' = ArtifactId
      BY <1>0, <1>1, <2>2, Kept DEF License, ArtifactId
    <3>2. \/ Moves(s)
          \/ s.group = "set" /\ op.do = "start" /\ (WritesLicense(s) \/ WritesArtifact(s))
          \/ s.slot[1] = "generic"
      <4>1. op.do = "read" => Moves(s)
        BY <1>1 DEF IInv, Shape
      <4> QED
        BY <4>1, <1>1, StepsOf
    <3>3. CASE s.group = "set" /\ op.do = "start" /\ WritesLicense(s)
      <4>1. License' = s.content
        BY <1>1, <2>2, <3>3, Written DEF Takes
      <4>2. License # Absent => s.content.id = License.id
        BY <1>1, <3>3 DEF IInv, Deciding
      <4> QED
        BY <1>1, <3>1, <3>3, <4>1, <4>2, WriteSlots DEF Touches
    <3>4. CASE s.group = "set" /\ op.do = "start" /\ WritesArtifact(s)
      <4>1. GenericLicense /\ NoLicense /\ s.content.id = Read("generic", "artifact").id
        BY <1>1, <3>4 DEF IInv, Storing
      <4>2. ArtifactId \in {None, Read("generic", "artifact").id}
        BY <1>1, <4>1 DEF IInv, Copying
      <4>3. ArtifactId' = s.content.id
        <5>1. F("product", "current", "artifact")' = s.content /\ s.content # Absent /\ s.content # Corrupt
          BY <1>0, <1>1, <2>2, <3>4, Applies DEF Takes, IInv, Types, WritesArtifact, Places
        <5> QED
          BY <5>1, <1>0, ReadIs DEF ArtifactId, Firsts
      <4> QED
        BY <1>1, <3>1, <3>4, <4>1, <4>2, <4>3, WriteSlots DEF Touches
    <3> QED
      BY <3>1, <3>2, <3>3, <3>4 DEF Touches
  <2> QED
    BY <1>1, <2>1, <2>2, UnderWay
<1>2. ASSUME IInv, [Next]_vars
      PROVE  op.do \in {"read", "start"} /\ op' = op =>
                /\ License # Absent => License'.id = License.id
                /\ ArtifactId # None => ArtifactId' = ArtifactId
  BY <1>1, <1>2
<1> QED
  BY <1>2, CacheInvariant, PTL DEF Spec, NothingLost

-----------------------------------------------------------------------------
(* Without files of earlier releases: what the steps of each transaction   *)
(* write, so that each of them is one of the outcomes LicenseCache gives.  *)
Granted(id) == [id |-> id, verdict |-> "granted"]

Activating == op.do = "activate" => \A s \in todo :
    /\ s.group = "set" => s.content = Granted(op.id)
    /\ s.group = "key" => \/ License = Granted(op.id)
                          \/ \E t \in todo : t.group = "set" /\ t.at < s.at

Validating == op.do = "validate" => \A s \in todo : s.group = "set" =>
    /\ s.content = [id |-> op.id, verdict |-> op.verdict] /\ License.id = op.id
    /\ op.verdict = "offgranted" => License.verdict # "denied"

Supplying == op.do = "store_artifact" => \A s \in todo : s.content = Artifact(op.id)

Launching == op.do = "start" => \A s \in todo : s.group = "set" =>
    /\ License # Absent /\ s.content = StartupRecord(License)
    /\ \A t \in todo : t.group = "set" => t = s

Invalidating == op.do = "invalidate" =>
    /\ op.id # None
    /\ \A s \in todo :
          /\ s.group = "tombstone" =>
                /\ License.verdict # "none" /\ s.content = [License EXCEPT !.verdict = "refused"]
                /\ \A t \in todo : t # s /\ ~Moves(t) => s.at < t.at
          /\ s.group \in {"tombstone", "directory"} /\ s.slot[2] = "current" => License.id = op.id

Emptying == \A s, t \in todo :
    s.group = "directory" /\ s.slot[2] = "current"
        /\ t.group = "directory" /\ t.slot = At("product", "current", "license")
        => t = s \/ s.at < t.at

Faithful == origin = "fresh" =>
    Activating /\ Validating /\ Supplying /\ Launching /\ Invalidating /\ Emptying

(* A fresh installation has only current files ...                         *)
LEMMA FreshFiles ==
    ASSUME Inherited, origin = "fresh"
    PROVE  /\ \A p \in Places, k \in Keys : p # "current" => F("product", p, k) = Absent
           /\ \A p \in Places, k \in Keys : F("generic", p, k) = Absent
           /\ ~GenericLicense
  BY ReadIs DEF Inherited, GenericLicense, Caches, Places, Keys

(* ... so nothing is ever moved.                                           *)
LEMMA FreshFetch ==
    ASSUME Inherited, origin = "fresh"
    PROVE  \A at, onFail : \A k \in Keys : Fetch(at, "product", k, onFail) = {}
<1> TAKE at, onFail
<1> TAKE k \in Keys
<1>1. \A p \in Places : p # "current" => file[At("product", p, k)] = Absent
  BY FreshFiles
<1>2. Present("product", k) => Found("product", k) = At("product", "current", k)
  BY <1>1 DEF Present, Found, Places
<1> QED
  BY <1>2, AtForm DEF Fetch, Caches, Places

(* What readers see of one file operation on a fresh installation.         *)
LEMMA FreshView ==
    ASSUME IInv, NEW s \in todo, Takes(s), origin = "fresh"
    PROVE  /\ IF s.slot = At("product", "current", "license") /\ ~Moves(s) /\ file' # file
              THEN License' = s.content
              ELSE License' = License
           /\ IF s.slot = At("product", "current", "artifact") /\ ~Moves(s) /\ file' # file
              THEN ArtifactId' = s.content.id
              ELSE ArtifactId' = ArtifactId
<1>0. "product" \in Caches /\ "license" \in Keys /\ "artifact" \in Keys
      /\ "current" \in Places /\ "old" \in Places /\ "fallback" \in Places
  BY DEF Caches, Keys, Places
<1>1. Inherited' /\ origin' = "fresh"
  BY InheritedKept DEF Takes
<1>2. \A k \in Keys :
          /\ F("product", "old", k) = Absent /\ F("product", "fallback", k) = Absent
          /\ F("product", "old", k)' = Absent /\ F("product", "fallback", k)' = Absent
  BY <1>0, <1>1 DEF IInv, Inherited
<1>3. s.slot \in Slots /\ s.content # Corrupt
  BY DEF IInv, Types, TypeOK
<1>4. ASSUME NEW k \in Keys
      PROVE  Read("product", k)' = IF s.slot = At("product", "current", k) /\ ~Moves(s) /\ file' # file
                                   THEN s.content ELSE Read("product", k)
  <2>1. CASE file' = file \/ Moves(s)
    BY <1>0, <2>1, Kept
  <2>2. CASE s.slot # At("product", "current", k)
    <3>1. F("product", "current", k)' = F("product", "current", k)
      BY <1>0, <2>2, PlacesKept
    <3> QED
      BY <1>0, <1>2, <2>2, <3>1, ReadIs DEF Firsts
  <2>3. CASE s.slot = At("product", "current", k) /\ ~Moves(s) /\ file' # file
    <3>1. F("product", "current", k)' = s.content
      BY <1>0, <2>3, Applies DEF Takes, IInv
    <3> QED
      BY <1>0, <1>2, <1>3, <2>3, <3>1, ReadIs DEF Firsts
  <2> QED
    BY <2>1, <2>2, <2>3
<1> QED
  BY <1>0, <1>4 DEF License, ArtifactId

(* File operations keep the promises of the steps after them.              *)
LEMMA FaithfulKept ==
    ASSUME IInv, Faithful, NEW s \in todo, Takes(s)  PROVE Faithful'
<1> SUFFICES ASSUME origin = "fresh"
             PROVE  (Activating /\ Validating /\ Supplying /\ Launching /\ Invalidating /\ Emptying)'
  BY DEF Faithful, Takes
<1>1. /\ todo' \subseteq todo \ {s} /\ op' = op /\ s.at \in Nat
      /\ \A t \in todo : t.at \in Nat /\ ~(t.at < s.at)
  BY DEF Takes, IsNext, IInv, Types
<1>2. /\ Activating /\ Validating /\ Supplying /\ Launching /\ Invalidating /\ Emptying
  BY DEF Faithful
<1>3. "product" \in Caches /\ "generic" \in Caches /\ "license" \in Keys /\ "artifact" \in Keys
      /\ "current" \in Places /\ "fallback" \in Places
  BY DEF Caches, Keys, Places
<1>4. /\ Moves(s) => License' = License
      /\ s.slot # At("product", "current", "license") => License' = License
  BY FreshView
<1>5. Activating'
  <2> SUFFICES ASSUME op.do = "activate", NEW t \in todo'
               PROVE  /\ t.group = "set" => t.content = Granted(op.id)
                      /\ t.group = "key" => \/ License' = Granted(op.id)
                                            \/ \E u \in todo' : u.group = "set" /\ u.at < t.at
    BY <1>1 DEF Activating, Granted
  <2>1. t.group = "set" => t.content = Granted(op.id)
    BY <1>1, <1>2 DEF Activating
  <2>2. ASSUME t.group = "key", License = Granted(op.id)  PROVE License' = Granted(op.id)
    <3>1. CASE s.group = "set"
      BY <1>2, <2>2, <3>1, FreshView DEF Activating
    <3>2. CASE s.group # "set"
      <4>1. s.slot # At("product", "current", "license")
        <5>1. Shape(s)
          BY DEF IInv
        <5> QED
          BY <1>3, <3>2, <5>1, AtForm DEF Shape, Touches, WritesLicense
      <4> QED
        BY <1>4, <2>2, <4>1
    <3> QED
      BY <3>1, <3>2
  <2>3. ASSUME NEW u \in todo, u.group = "set", u.at < t.at
        PROVE  \/ License' = Granted(op.id)
               \/ \E w \in todo' : w.group = "set" /\ w.at < t.at
    <3>1. CASE u = s
      <4>1. s.onFail = "abort" /\ (WritesLicense(s) \/ WritesArtifact(s))
        BY <2>3, <3>1, StepsOf
      <4>2. WritesLicense(s) /\ s.content = Granted(op.id)
        <5>1. Shape(s)
          BY DEF IInv
        <5> QED
          BY <1>2, <1>3, <2>3, <3>1, <4>1, <5>1, StepsOf, AtForm
             DEF Activating, Shape, WritesLicense, WritesArtifact, Touches
      <4>3. file' = Applied(s)
        BY <4>1 DEF Takes
      <4> QED
        BY <4>2, <4>3, Written
    <3>2. CASE u # s
      <4>1. s.group = "set" => s.onFail = "abort"
        BY StepsOf
      <4>2. u \in todo'
        BY <2>3, <3>2, <4>1 DEF Takes
      <4> QED
        BY <2>3, <4>2
    <3> QED
      BY <3>1, <3>2
  <2> QED
    BY <1>1, <1>2, <2>1, <2>2, <2>3 DEF Activating
<1>6. ASSUME op.do \in {"validate", "start"}, NEW t \in todo', t.group = "set",
             \A u \in todo : u.group = "set" => u = t
      PROVE  License' = License
  <2>1. s.group # "set"
    BY <1>1, <1>6
  <2>2. Moves(s) \/ (s.group = "directory" /\ s.slot[1] = "generic")
    BY <1>6, <2>1, StepsOf
  <2> QED
    BY <1>3, <1>4, <2>2, AtForm
<1>7. Validating'
  <2> SUFFICES ASSUME op.do = "validate", NEW t \in todo', t.group = "set"
               PROVE  /\ t.content = [id |-> op.id, verdict |-> op.verdict] /\ License'.id = op.id
                      /\ op.verdict = "offgranted" => License'.verdict # "denied"
    BY <1>1 DEF Validating
  <2>1. WritesLicense(t)
    BY <1>1, StepsOf
  <2>2. \A u \in todo : u.group = "set" => u = t
    BY <1>1, <2>1 DEF IInv, Deciding
  <2>3. License' = License
    BY <1>6, <2>2
  <2> QED
    BY <1>1, <1>2, <2>3 DEF Validating
<1>8. Supplying'
  BY <1>1, <1>2 DEF Supplying, Artifact
<1>9. Launching'
  <2> SUFFICES ASSUME op.do = "start", NEW t \in todo', t.group = "set"
               PROVE  /\ License' # Absent /\ t.content = StartupRecord(License')
                      /\ \A u \in todo' : u.group = "set" => u = t
    BY <1>1 DEF Launching, StartupRecord
  <2>1. /\ License # Absent /\ t.content = StartupRecord(License)
        /\ \A u \in todo : u.group = "set" => u = t
    BY <1>1, <1>2 DEF Launching
  <2>2. License' = License
    BY <1>6, <2>1
  <2> QED
    BY <1>1, <2>1, <2>2
<1>10. Invalidating'
  <2> SUFFICES ASSUME op.do = "invalidate", NEW t \in todo'
               PROVE  /\ t.group = "tombstone" =>
                            /\ License'.verdict # "none" /\ t.content = [License' EXCEPT !.verdict = "refused"]
                            /\ \A u \in todo' : u # t /\ ~Moves(u) => t.at < u.at
                      /\ t.group \in {"tombstone", "directory"} /\ t.slot[2] = "current" =>
                            License'.id = op.id
    BY <1>1, <1>2 DEF Invalidating, Moves
  <2>1. t \in todo /\ t # s
    BY <1>1
  <2>2. ASSUME t.group = "tombstone"
        PROVE  /\ License'.verdict # "none" /\ t.content = [License' EXCEPT !.verdict = "refused"]
               /\ \A u \in todo' : u # t /\ ~Moves(u) => t.at < u.at
    <3>1. Moves(s)
      BY <1>1, <1>2, <2>1, <2>2 DEF Invalidating
    <3> QED
      BY <1>1, <1>2, <1>4, <2>1, <2>2, <3>1 DEF Invalidating
  <2>3. ASSUME t.group \in {"tombstone", "directory"}, t.slot[2] = "current"
        PROVE  License'.id = op.id
    <3>1. License.id = op.id
      BY <1>2, <2>1, <2>3 DEF Invalidating
    <3>2. CASE License' = License
      BY <3>1, <3>2
    <3>3. CASE License' # License
      <4>1. /\ s.slot = At("product", "current", "license") /\ ~Moves(s) /\ License' = s.content
        BY <3>3, FreshView
      <4>2. Shape(s) /\ s.slot[2] = "current"
        BY <1>3, <4>1, AtForm DEF IInv
      <4>3. CASE s.group = "tombstone"
        <5>1. License.verdict # "none" /\ s.content = [License EXCEPT !.verdict = "refused"]
          BY <1>2, <4>3, <2>1 DEF Invalidating
        <5>2. License \in LicenseRecord
          BY <5>1, LicenseIsPresent, Values
        <5>3. s.content.id = License.id
          BY <5>1, <5>2 DEF LicenseRecord
        <5> QED
          BY <3>1, <4>1, <5>3
      <4>4. CASE s.group = "directory"
        <5>1. CASE t.group = "directory"
          BY <1>1, <1>2, <2>1, <2>3, <4>1, <4>4, <5>1 DEF Emptying
        <5>2. CASE t.group = "tombstone"
          BY <1>1, <1>2, <2>1, <4>1, <5>2 DEF Invalidating
        <5> QED
          BY <2>3, <5>1, <5>2
      <4> QED
        BY <4>1, <4>2, <4>3, <4>4 DEF Shape
    <3> QED
      BY <3>2, <3>3
  <2> QED
    BY <2>2, <2>3
<1>11. Emptying'
  BY <1>1, <1>2 DEF Emptying
<1> QED
  BY <1>5, <1>7, <1>8, <1>9, <1>10, <1>11

(* A request on a fresh installation finds nothing to move.                *)
LEMMA RequestIs ==
    ASSUME NEW do, NEW id, NEW v, NEW steps, Request(do, id, v, steps)
    PROVE  /\ op' = [do |-> do, id |-> id, verdict |-> v] /\ op.do = "none"
           /\ op'.do = do /\ op'.id = id /\ op'.verdict = v
           /\ todo' \subseteq steps /\ \A s \in steps : s.content # Absent => s \in todo'
           /\ file' = file /\ origin' = origin
           /\ License' = License /\ ArtifactId' = ArtifactId
  BY ReadsSame DEF Request, Ready, Needed

(* Every request opens with steps that do what its transaction promises.   *)
LEMMA FaithfulOpens ==
    ASSUME Inherited, origin = "fresh", NEW id \in Ids
    PROVE  /\ CommitActivationFiles(id) => Faithful'
           /\ UpdateValidationFiles(id) => Faithful'
           /\ InvalidateFiles(id) => Faithful'
           /\ StoreArtifactFiles(id) => Faithful'
           /\ ClearFiles => Faithful'
           /\ ClearArtifactFiles => Faithful'
           /\ ReadFiles => Faithful'
<1>0. "product" \in Caches /\ "license" \in Keys /\ "artifact" \in Keys
  BY DEF Caches, Keys
<1>1. ASSUME CommitActivationFiles(id)  PROVE Faithful'
  <2>1. Request("activate", id, "none", CommitSteps(id))
    BY <1>1 DEF CommitActivationFiles
  <2>2. /\ op'.do = "activate" /\ op'.id = id /\ todo' \subseteq CommitSteps(id)
        /\ \A s \in CommitSteps(id) : s.content # Absent => s \in todo'
    BY <2>1, RequestIs
  <2>3. /\ \A s \in SetLicense(1, Granted(id)) :
              s.group = "set" /\ s.content = Granted(id) /\ s.at = 1 /\ s.content # Absent
        /\ SetLicense(1, Granted(id)) # {}
    BY NoneNotAnId DEF SetLicense, Write, Granted, Absent, NoRecord
  <2>4. \A s \in RemoveKey(2, "product", "artifact", "skip") : s.group = "key" /\ 1 < s.at
    BY DEF RemoveKey, Remove, Write
  <2>5. \A s \in ClearDirectory(5, "product", <<"fallback">>, "skip") :
            s.group = "directory" /\ s.slot[2] # "current"
    <3>1. 5 \in Nat
      OBVIOUS
    <3>2. ClearDirectory(5, "product", <<"fallback">>, "skip") =
              {Remove(5 + 1, At("product", "fallback", "artifact"), "directory", "skip"),
               Remove(5 + 3, At("product", "fallback", "license"), "directory", "skip")}
      BY <1>0, <3>1, ClearDirectoryIs
    <3> QED
      BY <1>0, <3>2, AtForm DEF Remove, Write, Places
  <2>6. CommitSteps(id) = SetLicense(1, Granted(id))
            \cup RemoveKey(2, "product", "artifact", "skip")
            \cup ClearDirectory(5, "product", <<"fallback">>, "skip")
    BY DEF CommitSteps, Granted
  <2>7. PICK u \in SetLicense(1, Granted(id)) : u \in todo' /\ u.group = "set" /\ u.at = 1
    BY <2>2, <2>3, <2>6
  <2>8. Activating'
    BY <2>2, <2>3, <2>4, <2>5, <2>6, <2>7 DEF Activating, Granted
  <2>9. Emptying'
    BY <2>2, <2>3, <2>4, <2>5, <2>6 DEF Emptying
  <2> QED
    BY <2>2, <2>8, <2>9 DEF Faithful, Validating, Supplying, Launching, Invalidating
<1>2. ASSUME UpdateValidationFiles(id)  PROVE Faithful'
  <2>1. PICK v : Request("validate", id, v, ValidateSteps(id, v))
    BY <1>2 DEF UpdateValidationFiles
  <2>2. /\ op'.do = "validate" /\ op'.id = id /\ op'.verdict = v /\ License' = License
        /\ todo' \subseteq ValidateSteps(id, v)
    BY <2>1, RequestIs
  <2>3. \A s \in ValidateSteps(id, v) :
            /\ s \in SetLicense(3, [id |-> id, verdict |-> v])
            /\ License.id = id /\ ~(v = "offgranted" /\ License.verdict = "denied")
    BY <1>0, FreshFetch DEF ValidateSteps
  <2>4. \A s \in SetLicense(3, [id |-> id, verdict |-> v]) :
            s.group = "set" /\ s.content = [id |-> id, verdict |-> v]
    BY DEF SetLicense, Write
  <2>5. Validating' /\ Emptying'
    BY <2>2, <2>3, <2>4 DEF Validating, Emptying
  <2> QED
    BY <2>2, <2>5 DEF Faithful, Activating, Supplying, Launching, Invalidating
<1>3. ASSUME InvalidateFiles(id)  PROVE Faithful'
  <2> DEFINE mark == [License EXCEPT !.verdict = "refused"]
             clear == ClearAll(4, "product")
  <2>1. Request("invalidate", id, "none", InvalidateSteps(id))
    BY <1>3 DEF InvalidateFiles
  <2>2. /\ op'.do = "invalidate" /\ op'.id = id /\ License' = License
        /\ todo' \subseteq InvalidateSteps(id)
    BY <2>1, RequestIs
  <2>3. \A s \in InvalidateSteps(id) :
            License.id = id /\ (s \in Tombstone(3, License) \/ s \in clear)
    BY <1>0, FreshFetch DEF InvalidateSteps
  <2>4. \A s \in Tombstone(3, License) :
            /\ s.group = "tombstone" /\ s.content = mark /\ s.at = 3 /\ License.verdict # "none"
            /\ \A t \in Tombstone(3, License) : t = s
    BY DEF Tombstone, Write
  <2>5. \A s \in clear : s.group = "directory" /\ s.at > 4 /\ s.at \in Nat
    <3>1. 4 \in Nat
      OBVIOUS
    <3> QED
      BY <1>0, <3>1, ClearSteps
  <2>6. \A s, t \in clear : s.slot[2] = "current" /\ t.slot = At("product", "current", "license") =>
            t = s \/ s.at < t.at
    <3>1. 4 \in Nat
      OBVIOUS
    <3> QED
      BY <1>0, <3>1, ClearsLast
  <2> HIDE DEF clear
  <2>7. Emptying'
    BY <2>2, <2>3, <2>4, <2>6 DEF Emptying
  <2>8. \A s \in todo' : s.group = "tombstone" =>
            /\ License.verdict # "none" /\ s.content = mark
            /\ \A t \in todo' : t # s => s.at < t.at
    BY <2>2, <2>3, <2>4, <2>5
  <2>9. \A s \in todo' : License.id = id
    BY <2>2, <2>3
  <2>10. Invalidating'
    BY <2>2, <2>8, <2>9, NoneNotAnId DEF Invalidating
  <2> QED
    BY <2>2, <2>7, <2>10 DEF Faithful, Activating, Supplying, Launching, Validating
<1>4. ASSUME StoreArtifactFiles(id)  PROVE Faithful'
  <2>1. Request("store_artifact", id, "none", SetArtifact(1, id))
    BY <1>4 DEF StoreArtifactFiles
  <2>2. op'.do = "store_artifact" /\ op'.id = id /\ todo' \subseteq SetArtifact(1, id)
    BY <2>1, RequestIs
  <2>3. \A s \in SetArtifact(1, id) : s.group = "set" /\ s.content = Artifact(id)
    BY DEF SetArtifact, Write
  <2>4. Supplying' /\ Emptying'
    BY <2>2, <2>3 DEF Supplying, Artifact, Emptying
  <2> QED
    BY <2>2, <2>4 DEF Faithful, Activating, Validating, Launching, Invalidating
<1>5. ASSUME ClearFiles  PROVE Faithful'
  <2>1. Request("clear", None, "none", ClearAll(1, "product"))
    BY <1>5 DEF ClearFiles
  <2>2. op'.do = "clear" /\ todo' \subseteq ClearAll(1, "product")
    BY <2>1, RequestIs
  <2>3. Emptying'
    <3>1. 1 \in Nat
      OBVIOUS
    <3> QED
      BY <1>0, <2>2, <3>1, ClearsLast DEF Emptying
  <2> QED
    BY <2>2, <2>3 DEF Faithful, Activating, Validating, Supplying, Launching, Invalidating
<1>6. ASSUME ClearArtifactFiles  PROVE Faithful'
  <2>1. Request("clear_artifacts", None, "none", RemoveKey(1, "product", "artifact", "abort"))
    BY <1>6 DEF ClearArtifactFiles
  <2>2. op'.do = "clear_artifacts" /\ todo' \subseteq RemoveKey(1, "product", "artifact", "abort")
    BY <2>1, RequestIs
  <2>3. Emptying'
    BY <2>2 DEF Emptying, RemoveKey, Remove, Write
  <2> QED
    BY <2>2, <2>3 DEF Faithful, Activating, Validating, Supplying, Launching, Invalidating
<1>7. ASSUME ReadFiles  PROVE Faithful'
  <2>1. Request("read", None, "none", ReadSteps)
    BY <1>7 DEF ReadFiles
  <2>2. op'.do = "read" /\ todo' = {}
    BY <1>0, <2>1, RequestIs, FreshFetch DEF ReadSteps
  <2> QED
    BY <2>2 DEF Faithful, Activating, Validating, Supplying, Launching, Invalidating, Emptying
<1> QED
  BY <1>1, <1>2, <1>3, <1>4, <1>5, <1>6, <1>7

(* A launch writes the record it has read, without its grant.              *)
LEMMA FaithfulLaunch ==
    ASSUME IInv, origin = "fresh", Start  PROVE Faithful'
<1>0. "product" \in Caches /\ "license" \in Keys
  BY DEF Caches, Keys
<1>1. op'.do = "start" /\ todo' \subseteq StartSteps /\ file' = file
  BY Launched DEF Needed
<1>2. ~Migrates
  BY FreshFiles, ReadIs DEF IInv, Migrates, GenericLicense, Firsts, Caches, Keys, Places
<1>3. \A s \in StartSteps : License # Absent /\ s \in SetLicense(3, StartupRecord(License))
  BY <1>0, <1>2, FreshFetch DEF StartSteps, IInv
<1>4. \A s \in SetLicense(3, StartupRecord(License)) :
          /\ s.group = "set" /\ s.content = StartupRecord(License)
          /\ \A t \in SetLicense(3, StartupRecord(License)) : t = s
  BY DEF SetLicense, Write
<1>5. License' = License
  BY <1>1, ReadsSame
<1>6. Launching' /\ Emptying'
  BY <1>1, <1>3, <1>4, <1>5 DEF Launching, StartupRecord, Emptying
<1> QED
  BY <1>1, <1>6 DEF Faithful, Activating, Validating, Supplying, Invalidating

-----------------------------------------------------------------------------
(* The refinement                                                          *)

View(license, artifact) == [license |-> license, art |-> artifact]
Seen == IF origin = "fresh" THEN View(License, ArtifactId) ELSE EmptyCache
Asked == IF origin = "fresh" THEN op ELSE NoOp

(* The outcomes of the abstract transactions that file operations reach.   *)
Reaches(r, l, a, view) == \E o \in Tx!Outcomes(r, View(l, a)) : view = o.disk

(* The outcomes LicenseCache gives for each transaction include the views  *)
(* its file operations pass through.                                       *)
LEMMA OutcomesAre ==
    ASSUME NEW r, NEW l, NEW a
    PROVE  /\ r.do = "activate" =>
                /\ Reaches(r, l, a, View(Granted(r.id), a))
                /\ Reaches(r, l, a, View(Granted(r.id), None))
           /\ r.do = "validate" /\ l.id = r.id /\ r.id # None
                  /\ ~(r.verdict = "offgranted" /\ l.verdict = "denied") =>
                Reaches(r, l, a, View([id |-> r.id, verdict |-> r.verdict], a))
           /\ r.do = "invalidate" /\ l.id = r.id /\ r.id # None =>
                /\ l.verdict # "none" => Reaches(r, l, a, View([l EXCEPT !.verdict = "refused"], a))
                /\ Reaches(r, l, a, View(l, None))
                /\ Reaches(r, l, a, EmptyCache)
           /\ r.do = "clear" => Reaches(r, l, a, View(l, None)) /\ Reaches(r, l, a, EmptyCache)
           /\ r.do = "store_artifact" => Reaches(r, l, a, View(l, r.id))
           /\ r.do = "clear_artifacts" => Reaches(r, l, a, View(l, None))
           /\ r.do = "start" /\ l # Absent => Reaches(r, l, a, View(StartupRecord(l), a))
<1> DEFINE d == View(l, a)
           outcomes == Tx!Outcomes(r, d)
<1>0. \A x, res : Tx!Outcome(x, res) \in outcomes => Reaches(r, l, a, x)
  <2>1. \A x, res : Tx!Outcome(x, res).disk = x
    BY DEF Tx!Outcome
  <2> QED
    BY <2>1 DEF Reaches
<1>1. /\ [d EXCEPT !.art = None] = View(l, None)
      /\ \A rec : [d EXCEPT !.license = rec] = View(rec, a)
      /\ [d EXCEPT !.license.verdict = "refused"] = View([l EXCEPT !.verdict = "refused"], a)
      /\ \A id : [d EXCEPT !.art = id] = View(l, id)
      /\ \A rec : [View(rec, a) EXCEPT !.art = None] = View(rec, None)
      /\ d.license = l
      /\ Tx!EmptyCache = EmptyCache
      /\ \A rec : Tx!StartupRecord(rec) = StartupRecord(rec)
  BY DEF View, Tx!EmptyCache, EmptyCache, Tx!NoRecord, NoRecord, Tx!StartupRecord, StartupRecord
<1> HIDE DEF d
<1>2. ASSUME r.do = "activate"
      PROVE  Reaches(r, l, a, View(Granted(r.id), a)) /\ Reaches(r, l, a, View(Granted(r.id), None))
  <2>1. outcomes = Tx!CommitActivation(d, r.id)
    BY <1>2 DEF Tx!Outcomes
  <2>2. Tx!Outcome(View(Granted(r.id), a), "err") \in outcomes
    BY <1>1, <2>1 DEF Tx!CommitActivation, Granted, Tx!Failed
  <2>3. Tx!Outcome(View(Granted(r.id), None), "ok") \in outcomes
    <3> DEFINE marker == [d EXCEPT !.license = Granted(r.id)]
               clean == [marker EXCEPT !.art = None]
    <3>1. clean = View(Granted(r.id), None)
      BY <1>1
    <3>2. Tx!Outcome(clean, "ok") \in Tx!Ok({clean} \cup {marker})
      BY DEF Tx!Ok
    <3>3. outcomes = Tx!Ok({clean} \cup {marker}) \cup Tx!Failed({d, marker})
      BY <2>1 DEF Tx!CommitActivation, Granted
    <3> QED
      BY <3>1, <3>2, <3>3
  <2> HIDE DEF outcomes
  <2> QED
    BY <1>0, <2>2, <2>3
<1>3. ASSUME r.do = "validate", l.id = r.id, r.id # None,
             ~(r.verdict = "offgranted" /\ l.verdict = "denied")
      PROVE  Reaches(r, l, a, View([id |-> r.id, verdict |-> r.verdict], a))
  <2>1. outcomes = Tx!UpdateValidation(d, r.id, r.verdict)
    BY <1>3 DEF Tx!Outcomes
  <2>2. outcomes = Tx!StoreLicense(d, [id |-> r.id, verdict |-> r.verdict])
    BY <1>1, <1>3, <2>1 DEF Tx!UpdateValidation, Tx!Matches
  <2>3. Tx!Outcome(View([id |-> r.id, verdict |-> r.verdict], a), "ok") \in outcomes
    BY <1>1, <2>2 DEF Tx!StoreLicense, Tx!Ok
  <2> HIDE DEF outcomes
  <2> QED
    BY <1>0, <2>3
<1>4. \A x : /\ Tx!Outcome(x, "err") \in Tx!Clear(x)
             /\ Tx!Outcome([x EXCEPT !.art = None], "err") \in Tx!Clear(x)
             /\ Tx!Outcome(EmptyCache, "ok") \in Tx!Clear(x)
  BY <1>1 DEF Tx!Clear, Tx!Ok, Tx!Failed
<1>5. ASSUME r.do = "invalidate", l.id = r.id, r.id # None
      PROVE  /\ l.verdict # "none" => Reaches(r, l, a, View([l EXCEPT !.verdict = "refused"], a))
             /\ Reaches(r, l, a, View(l, None)) /\ Reaches(r, l, a, EmptyCache)
  <2>1. outcomes = UNION {Tx!Clear(marked) : marked \in Tx!MarkInvalid(d)}
    BY <1>1, <1>5 DEF Tx!Outcomes, Tx!InvalidateAndClear, Tx!Matches
  <2>2. d \in Tx!MarkInvalid(d)
    BY DEF Tx!MarkInvalid
  <2>3. l.verdict # "none" => View([l EXCEPT !.verdict = "refused"], a) \in Tx!MarkInvalid(d)
    BY <1>1 DEF Tx!MarkInvalid
  <2>4. /\ l.verdict # "none" => Tx!Outcome(View([l EXCEPT !.verdict = "refused"], a), "err") \in outcomes
        /\ Tx!Outcome(View(l, None), "err") \in outcomes
        /\ Tx!Outcome(EmptyCache, "ok") \in outcomes
    BY <1>1, <1>4, <2>1, <2>2, <2>3
  <2> HIDE DEF outcomes
  <2> QED
    BY <1>0, <2>4
<1>6. ASSUME r.do = "clear"
      PROVE  Reaches(r, l, a, View(l, None)) /\ Reaches(r, l, a, EmptyCache)
  <2>1. outcomes = Tx!Clear(d)
    BY <1>6 DEF Tx!Outcomes
  <2>2. Tx!Outcome(View(l, None), "err") \in outcomes /\ Tx!Outcome(EmptyCache, "ok") \in outcomes
    BY <1>1, <1>4, <2>1
  <2> HIDE DEF outcomes
  <2> QED
    BY <1>0, <2>2
<1>7. ASSUME r.do = "store_artifact"  PROVE Reaches(r, l, a, View(l, r.id))
  <2>1. outcomes = Tx!SetMachineFile(d, r.id)
    BY <1>7 DEF Tx!Outcomes
  <2>2. Tx!Outcome(View(l, r.id), "ok") \in outcomes
    BY <1>1, <2>1 DEF Tx!SetMachineFile, Tx!Ok
  <2> HIDE DEF outcomes
  <2> QED
    BY <1>0, <2>2
<1>8. ASSUME r.do = "clear_artifacts"  PROVE Reaches(r, l, a, View(l, None))
  <2>1. outcomes = Tx!ClearOfflineAssets(d)
    BY <1>8 DEF Tx!Outcomes
  <2>2. Tx!Outcome(View(l, None), "ok") \in outcomes
    BY <1>1, <2>1 DEF Tx!ClearOfflineAssets, Tx!Ok
  <2> HIDE DEF outcomes
  <2> QED
    BY <1>0, <2>2
<1>9. ASSUME r.do = "start", l # Absent  PROVE Reaches(r, l, a, View(StartupRecord(l), a))
  <2>1. outcomes = Tx!StoreLicense(d, StartupRecord(l))
    BY <1>1, <1>9 DEF Tx!Outcomes, Absent, NoRecord, Tx!NoRecord
  <2>2. Tx!Outcome(View(StartupRecord(l), a), "ok") \in outcomes
    BY <1>1, <2>1 DEF Tx!StoreLicense, Tx!Ok
  <2> HIDE DEF outcomes
  <2> QED
    BY <1>0, <2>2
<1> QED
  BY <1>2, <1>3, <1>5, <1>6, <1>7, <1>8, <1>9

(* A file operation changes what readers see into one of the outcomes of   *)
(* its transaction, or not at all.                                         *)
LEMMA StepRefines ==
    ASSUME IInv, Faithful, origin = "fresh", NEW s \in todo, Takes(s)
    PROVE  \/ View(License, ArtifactId)' = View(License, ArtifactId)
           \/ Reaches(op, License, ArtifactId, View(License, ArtifactId)')
<1> DEFINE Onto(l, a) == License' = l /\ ArtifactId' = a
           Lands(l, a) == Reaches(op, License, ArtifactId, View(l, a))
<1>0. "product" \in Caches /\ "generic" \in Caches /\ "license" \in Keys /\ "artifact" \in Keys
      /\ "current" \in Places /\ "fallback" \in Places
  BY DEF Caches, Keys, Places
<1>1. /\ Activating /\ Validating /\ Supplying /\ Launching /\ Invalidating /\ Emptying
      /\ Shape(s) /\ s.slot \in Slots /\ s.content # Corrupt /\ s.content \in Contents
      /\ \A t \in todo : ~(t.at < s.at)
  BY DEF Faithful, IInv, Types, TypeOK, Takes, IsNext
<1>2. SUFFICES ASSUME ~Onto(License, ArtifactId)
               PROVE  \E l, a : Onto(l, a) /\ Lands(l, a)
  BY DEF View
<1>3. ~Moves(s) /\ (\/ s.slot = At("product", "current", "license")
                    \/ s.slot = At("product", "current", "artifact"))
  BY <1>2, FreshView
<1>4. /\ s.slot = At("product", "current", "license") => Onto(s.content, ArtifactId)
      /\ s.slot = At("product", "current", "artifact") => Onto(License, s.content.id)
  BY <1>0, <1>2, <1>3, FreshView, AtForm
<1>5. s.slot[1] = "product" /\ s.slot[2] = "current"
  BY <1>0, <1>3, AtForm
<1>6. CASE op.do = "activate"
  <2>1. CASE s.group = "set"
    <3>1. s.content = Granted(op.id) /\ s.slot = At("product", "current", "license")
      BY <1>0, <1>1, <1>6, <2>1, <1>3, AtForm
         DEF Activating, Shape, WritesLicense, WritesArtifact, Touches
    <3> QED
      BY <1>4, <1>6, <3>1, OutcomesAre
  <2>2. CASE s.group = "key"
    <3>1. License = Granted(op.id)
      BY <1>1, <1>6, <2>2 DEF Activating
    <3>2. s.content = Absent /\ s.slot = At("product", "current", "artifact")
      BY <1>0, <1>1, <1>3, <2>2, AtForm DEF Shape, Touches
    <3>3. Onto(License, None)
      BY <1>4, <3>2, Values
    <3>4. Lands(Granted(op.id), None)
      BY <1>6, OutcomesAre
    <3> QED
      BY <3>1, <3>3, <3>4
  <2> QED
    BY <1>0, <1>1, <1>3, <1>5, <1>6, <2>1, <2>2 DEF Shape
<1>7. CASE op.do = "validate"
  <2>1. s.group = "set" /\ s.slot = At("product", "current", "license") /\ s.content # Absent
    BY <1>3, <1>7, StepsOf DEF WritesLicense
  <2>2. /\ s.content = [id |-> op.id, verdict |-> op.verdict] /\ License.id = op.id
        /\ op.verdict = "offgranted" => License.verdict # "denied"
    BY <1>1, <1>7, <2>1 DEF Validating
  <2>3. op.id # None
    BY <1>1, <2>1, <2>2, Values DEF Contents
  <2>4. Lands([id |-> op.id, verdict |-> op.verdict], ArtifactId)
    BY <1>7, <2>2, <2>3, OutcomesAre
  <2> QED
    BY <1>4, <2>1, <2>2, <2>4
<1>8. CASE op.do \in {"invalidate", "clear"}
  <2>1. op.do = "invalidate" => op.id # None
                                /\ (s.group \in {"tombstone", "directory"} => License.id = op.id)
    BY <1>1, <1>5 DEF Invalidating
  <2>2. CASE s.group = "tombstone"
    <3>1. /\ op.do = "invalidate" /\ s.slot = At("product", "current", "license")
          /\ License.verdict # "none" /\ s.content = [License EXCEPT !.verdict = "refused"]
      BY <1>1, <1>3, <1>8, <2>2, SlotForm DEF Invalidating, Shape, WritesLicense, Keys
    <3>2. Lands([License EXCEPT !.verdict = "refused"], ArtifactId)
      BY <2>1, <2>2, <3>1, OutcomesAre
    <3> QED
      BY <1>4, <3>1, <3>2
  <2>3. CASE s.group = "directory" /\ s.slot = At("product", "current", "artifact")
    <3>1. Onto(License, None)
      BY <1>1, <1>4, <2>3, SlotForm, Values DEF Shape, Moves, Keys
    <3>2. Lands(License, None)
      BY <1>8, <2>1, <2>3, OutcomesAre
    <3> QED
      BY <3>1, <3>2
  <2>4. CASE s.group = "directory" /\ s.slot = At("product", "current", "license")
    <3>1. s.content = Absent
      BY <1>1, <2>4, SlotForm DEF Shape, Moves, Keys
    <3>2. \A p \in Places : F("product", p, "artifact") = Absent
      BY <1>0, <1>1, <2>4, AtForm DEF IInv, Clearing
    <3>3. ArtifactId = None
      BY <1>0, <3>2, ReadIs, Values DEF ArtifactId, Firsts, Places
    <3>4. View(Absent, None) = EmptyCache
      BY DEF View, Absent, EmptyCache
    <3>5. Lands(Absent, None)
      BY <1>8, <2>1, <2>4, <3>4, OutcomesAre
    <3> QED
      BY <1>4, <2>4, <3>1, <3>3, <3>5
  <2> QED
    BY <1>1, <1>3, <1>8, <2>2, <2>3, <2>4 DEF Shape
<1>9. CASE op.do = "store_artifact"
  <2>1. s.slot = At("product", "current", "artifact") /\ s.content.id = op.id
    BY <1>1, <1>9, StepsOf DEF Supplying, WritesArtifact, Artifact
  <2>2. Lands(License, op.id)
    BY <1>9, OutcomesAre
  <2> QED
    BY <1>4, <2>1, <2>2
<1>10. CASE op.do = "clear_artifacts"
  <2>1. s.content = Absent /\ s.slot = At("product", "current", "artifact")
    BY <1>0, <1>1, <1>3, <1>10, AtForm DEF Shape, Touches
  <2>2. Lands(License, None)
    BY <1>10, OutcomesAre
  <2> QED
    BY <1>4, <2>1, <2>2, Values
<1>11. CASE op.do = "start"
  <2>1. s.group = "set"
    BY <1>3, <1>5, <1>11, StepsOf
  <2>2. ~GenericLicense
    BY FreshFiles DEF IInv
  <2>3. s.slot = At("product", "current", "license")
    BY <1>1, <1>3, <1>11, <2>1, <2>2, StepsOf DEF IInv, Storing, WritesLicense
  <2>4. License # Absent /\ s.content = StartupRecord(License)
    BY <1>1, <1>11, <2>1 DEF Launching
  <2>5. Lands(StartupRecord(License), ArtifactId)
    BY <1>11, <2>4, OutcomesAre
  <2> QED
    BY <1>4, <2>3, <2>4, <2>5
<1>12. CASE op.do = "read"
  BY <1>1, <1>3, <1>12 DEF Shape
<1> QED
  BY <1>6, <1>7, <1>8, <1>9, <1>10, <1>11, <1>12, <1>1, <1>3 DEF Shape

(* Requests, launches and ends leave the files alone.                      *)
LEMMA NextRefines ==
    ASSUME IInv, Faithful, [Next]_vars
    PROVE  Faithful' /\ [Tx!TNext]_<<Seen, Asked>>
<1>1. origin' = origin
  BY DEF Next, vars, Start, Done, Fails, Complete, Crash, ClearFiles, ClearArtifactFiles, ReadFiles,
         CommitActivationFiles, UpdateValidationFiles, InvalidateFiles, StoreArtifactFiles, Request, Damage
<1>2. CASE origin # "fresh"
  BY <1>1, <1>2 DEF Faithful, Seen, Asked
<1>3. CASE origin = "fresh"
  <2>1. /\ Seen = View(License, ArtifactId) /\ Asked = op
        /\ Seen' = View(License, ArtifactId)' /\ Asked' = op'
    BY <1>1, <1>3 DEF Seen, Asked
  <2>2. Inherited /\ (op.do = "none" => op = NoOp) /\ NoOp = Tx!NoOp /\ NoOp.do = "none"
    BY DEF IInv, Types, NoOp, Tx!NoOp
  <2>3. ASSUME file' = file  PROVE View(License, ArtifactId)' = View(License, ArtifactId)
    BY <2>3, ReadsSame DEF View
  <2>4. CASE UNCHANGED vars
    <3>1. Faithful'
      <4>1. op' = op /\ todo' = todo /\ origin' = origin /\ License' = License
        BY <2>4, ReadsSame DEF vars
      <4>2. (Activating /\ Validating /\ Supplying /\ Emptying)'
        BY <4>1, <1>3 DEF Faithful, Activating, Validating, Supplying, Emptying
      <4>3. (Launching /\ Invalidating)'
        BY <4>1, <1>3 DEF Faithful, Launching, Invalidating, Moves
      <4> QED
        BY <4>2, <4>3 DEF Faithful
    <3>2. Seen' = Seen /\ Asked' = Asked
      BY <2>1, <2>3, <2>4 DEF vars
    <3> QED
      BY <3>1, <3>2
  <2>5. ASSUME NEW do \in Tx!Kinds, NEW id \in Ids \cup {None}, NEW v \in Verdicts, op.do = "none",
               op' = [do |-> do, id |-> id, verdict |-> v], file' = file
        PROVE  Tx!Begin
    <3>1. op' \in Tx!Requests
      BY <2>5 DEF Tx!Requests, Tx!Verdicts, Verdicts
    <3> QED
      BY <2>1, <2>2, <2>3, <2>5, <3>1 DEF Tx!Begin, Seen, Asked, View
  <2>6. CASE Start
    <3>1. Faithful'
      BY <1>3, <2>6, FaithfulLaunch
    <3>2. op.do = "none" /\ op' = [do |-> "start", id |-> None, verdict |-> "none"] /\ file' = file
      BY <2>6 DEF Start
    <3>3. "start" \in Tx!Kinds /\ "none" \in Verdicts
      BY DEF Tx!Kinds, Verdicts
    <3>4. Tx!Begin
      BY <2>5, <3>2, <3>3
    <3> QED
      BY <3>1, <3>4 DEF Tx!TNext
  <2>7. ASSUME NEW id \in Ids, \/ ClearFiles \/ ClearArtifactFiles \/ ReadFiles
                               \/ CommitActivationFiles(id) \/ UpdateValidationFiles(id)
                               \/ InvalidateFiles(id) \/ StoreArtifactFiles(id)
        PROVE  Faithful' /\ Tx!TNext
    <3>1. Faithful'
      BY <1>3, <2>2, <2>7, FaithfulOpens
    <3>2. PICK do \in Tx!Kinds, i \in Ids \cup {None}, v \in Verdicts :
                \E steps : Request(do, i, v, steps)
      <4>1. /\ {"activate", "validate", "invalidate", "clear", "store_artifact", "clear_artifacts", "read"}
                   \subseteq Tx!Kinds
            /\ {"none", "granted", "denied", "refused", "offgranted"} \subseteq Verdicts
            /\ id \in Ids \cup {None} /\ None \in Ids \cup {None}
        BY DEF Tx!Kinds, Verdicts
      <4> QED
        BY <2>7, <4>1 DEF ClearFiles, ClearArtifactFiles, ReadFiles, CommitActivationFiles,
           UpdateValidationFiles, InvalidateFiles, StoreArtifactFiles
    <3>3. op.do = "none" /\ op' = [do |-> do, id |-> i, verdict |-> v] /\ file' = file
      BY <3>2, RequestIs
    <3>4. Tx!Begin
      BY <2>5, <3>3
    <3> QED
      BY <3>1, <3>4 DEF Tx!TNext
  <2>8. CASE Done \/ Fails
    <3>1. PICK s \in todo : Takes(s)
      BY <2>8, DoneTakes
    <3>2. Faithful'
      BY <3>1, FaithfulKept
    <3>3. op' = op /\ op # NoOp
      BY <3>1, <2>2 DEF Takes, IInv, Types
    <3>4. \/ View(License, ArtifactId)' = View(License, ArtifactId)
          \/ Reaches(op, License, ArtifactId, View(License, ArtifactId)')
      BY <1>3, <3>1, StepRefines
    <3>5. CASE View(License, ArtifactId)' = View(License, ArtifactId)
      BY <2>1, <3>2, <3>3, <3>5
    <3>6. CASE Reaches(op, License, ArtifactId, View(License, ArtifactId)')
      <4>1. \E o \in Tx!Outcomes(Asked, Seen) : Seen' = o.disk
        BY <2>1, <3>6 DEF Reaches
      <4>2. Tx!Change
        BY <2>1, <2>2, <3>3, <4>1 DEF Tx!Change, Seen, Asked, View
      <4> QED
        BY <3>2, <4>2 DEF Tx!TNext
    <3> QED
      BY <3>4, <3>5, <3>6
  <2>9. CASE Complete \/ Crash
    <3>1. op' = NoOp /\ todo' = {} /\ file' = file
      BY <2>9 DEF Complete, Crash
    <3>2. Faithful'
      BY <2>2, <3>1 DEF Faithful, Activating, Validating, Supplying, Launching, Invalidating, Emptying
    <3>3. Seen' = Seen
      BY <2>1, <2>3, <3>1
    <3>4. CASE op = NoOp
      BY <2>1, <3>1, <3>2, <3>3, <3>4
    <3>5. CASE op # NoOp
      <4>1. Tx!End
        BY <2>1, <2>2, <3>1, <3>3, <3>5 DEF Tx!End, Seen, Asked, View
      <4> QED
        BY <3>2, <4>1 DEF Tx!TNext
    <3> QED
      BY <3>4, <3>5
  <2>10. ASSUME NEW k \in Keys, Damage(k)  PROVE FALSE
    BY <1>3, <2>10 DEF Damage
  <2> QED
    BY <2>4, <2>6, <2>7, <2>8, <2>9, <2>10, SomeId DEF Next
<1> QED
  BY <1>2, <1>3

(* cache.rs as a whole, on an installation without files of an earlier     *)
(* release: whatever fails and wherever the process dies, what readers see *)
(* of a transaction is one of the outcomes LicenseCache gives for it, the  *)
(* level at which the client's modules take the cache.                     *)
THEOREM FilesImplementTransactions == Spec => ImplementsTransactions
<1>1. Init => Faithful /\ Tx!TInit
  <2> SUFFICES ASSUME Init  PROVE Faithful /\ Tx!TInit
    OBVIOUS
  <2>1. Faithful
    BY DEF Init, NoOp, Faithful, Activating, Validating, Supplying, Launching, Invalidating, Emptying
  <2>2. origin = "fresh" => License = Absent /\ ArtifactId = None
    <3> SUFFICES ASSUME origin = "fresh"  PROVE License = Absent /\ ArtifactId = None
      OBVIOUS
    <3>1. \A x \in Slots : file[x] = Absent
      BY DEF Init, FilesOf
    <3> QED
      BY <3>1, AtForm, ReadIs, Values DEF License, ArtifactId, Firsts, Caches, Keys, Places
  <2> QED
    BY <2>1, <2>2 DEF Tx!TInit, Tx!EmptyCache, EmptyCache, Tx!NoRecord, NoRecord, Absent, Tx!NoOp,
       NoOp, Init
<1>2. IInv /\ Faithful /\ [Next]_vars => Faithful' /\ [Tx!TNext]_<<Seen, Asked>>
  BY NextRefines
<1> QED
  BY <1>1, <1>2, CacheInvariant, PTL
     DEF Spec, ImplementsTransactions, Tx!TSpec, Seen, Asked, View
===============================================================================
