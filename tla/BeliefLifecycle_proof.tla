----------------------- MODULE BeliefLifecycle_proof -----------------------
(***************************************************************************)
(* For every number of slots, sensors and candidates and every legal       *)
(* configuration: the types and the object identity of BeliefLifecycle,    *)
(* and that its counters are worth what BeliefHistory says really          *)
(* happened.                                                               *)
(***************************************************************************)
EXTENDS BeliefHistory, FiniteSetTheorems, SequenceTheorems, TLAPS

(* The slots are a finite interval, so the free ones can be ranked.        *)
LEMMA FreeFinite ==
  /\ IsFiniteSet(Free)
  /\ Cardinality(Free) \in Nat
<1>1. IsFiniteSet(Slots)
  BY FS_Interval, CapacityAssumption DEF Slots
<1>2. IsFiniteSet(Free)
  BY <1>1, FS_Difference DEF Free
<1> QED
  BY <1>2, FS_CardinalityType

(* The rank of a free slot among the free slots in index order.            *)
LEMMA RankType ==
  ASSUME NEW s \in Free
  PROVE  /\ IsFiniteSet({r \in Free : r <= s})
         /\ FreeRank(s) \in 1 .. Cardinality(Free)
<1> DEFINE below == {r \in Free : r <= s}
<1>1. below \subseteq Free
  OBVIOUS
<1>2. /\ IsFiniteSet(below)
      /\ Cardinality(below) \in Nat
      /\ Cardinality(below) <= Cardinality(Free)
  BY <1>1, FreeFinite, FS_Subset, FS_CardinalityType
<1>3. s \in below
  BY CapacityAssumption DEF Free, Slots
<1>4. Cardinality(below) # 0
  BY <1>2, <1>3, FS_EmptySet
<1> QED
  BY <1>2, <1>4, FreeFinite DEF FreeRank

(* Ranks strictly increase with the index, so no two free slots share one. *)
LEMMA RankIncreases ==
  ASSUME NEW r \in Free, NEW s \in Free, r < s
  PROVE  FreeRank(r) < FreeRank(s)
<1> DEFINE upto(x) == {q \in Free : q <= x}
<1>1. r \in Int /\ s \in Int /\ \A q \in Free : q \in Int
  BY CapacityAssumption DEF Free, Slots
<1>2. \A q \in Free : q <= r => q <= s
  BY <1>1
<1>3. upto(r) \subseteq upto(s)
  BY <1>2
<1>4. s \in upto(s) /\ s \notin upto(r)
  BY <1>1
<1>5. IsFiniteSet(upto(s))
  BY RankType
<1>6. Cardinality(upto(r)) < Cardinality(upto(s))
  <2> HIDE DEF upto
  <2>1. /\ IsFiniteSet(upto(r))
        /\ Cardinality(upto(r)) <= Cardinality(upto(s))
        /\ Cardinality(upto(r)) = Cardinality(upto(s)) => upto(r) = upto(s)
    BY <1>3, <1>5, FS_Subset
  <2>2. Cardinality(upto(r)) \in Nat /\ Cardinality(upto(s)) \in Nat
    BY <1>5, <2>1, FS_CardinalityType
  <2> QED
    BY <1>4, <2>1, <2>2
<1> QED
  BY <1>6 DEF FreeRank

LEMMA RankInjective ==
  ASSUME NEW r \in Free, NEW s \in Free, FreeRank(r) = FreeRank(s)
  PROVE  r = s
<1>1. r \in Int /\ s \in Int
  BY CapacityAssumption DEF Free, Slots
<1>2. FreeRank(r) \in 1 .. Cardinality(Free) /\ FreeRank(s) \in 1 .. Cardinality(Free)
  BY RankType
<1>3. FreeRank(r) \in Int /\ FreeRank(s) \in Int
  BY <1>2, FreeFinite
<1> QED
  BY <1>1, <1>3, RankIncreases

(* Correction and accounting keep a track well formed and never touch its  *)
(* identifier or its activity.                                             *)
LEMMA CorrectedTrack ==
  ASSUME NEW t \in Track, NEW e \in Evidence
  PROVE  /\ Corrected(t, e) \in Track
         /\ Corrected(t, e).active = t.active
         /\ Corrected(t, e).id = t.id
<1>1. e.logit \in Int /\ t.existence \in Int /\ t.visibility \in Int
  BY RetentionAssumption DEF Evidence, Track
<1>2. CASE e.match = "none"
  BY <1>2 DEF Corrected
<1>3. CASE e.match # "none"
  <2>1. [t EXCEPT !.existence = IF e.logit > @ THEN e.logit ELSE @,
                  !.visibility = IF MeasuresVisibility THEN e.logit ELSE @]
          \in Track
    BY <1>1 DEF Track
  <2> QED
    BY <1>1, <1>3, <2>1 DEF Corrected, Track
<1> QED
  BY <1>2, <1>3

LEMMA AccountedTrack ==
  ASSUME NEW t \in Track, NEW observed \in BOOLEAN, NEW occluded \in BOOLEAN
  PROVE  /\ Accounted(t, observed, occluded) \in Track
         /\ Accounted(t, observed, occluded).active = t.active
         /\ Accounted(t, observed, occluded).id = t.id
<1> DEFINE
  missed == MissedSteps(t, observed, occluded)
  existence == t.existence + ExistenceDelta(observed, occluded)
  visibility == t.visibility + IF observed THEN ObservedVisibilityDelta
                                           ELSE -MissedVisibilityDecay
  mode == CASE ~observed /\ occluded -> "OCCLUDED"
            [] t.mode = "OCCLUDED" /\ (observed \/ ~occluded) -> "FREE"
            [] OTHER -> t.mode
<1>1. missed \in Nat
  BY DEF MissedSteps, Track
<1>2. existence \in Int
  BY RetentionAssumption DEF ExistenceDelta, Track
<1>3. visibility \in Int
  BY RetentionAssumption DEF Track
<1>4. mode \in Modes
  BY DEF Track, Modes
<1>5. Accounted(t, observed, occluded) =
        [t EXCEPT !.missed = missed, !.existence = existence,
                  !.visibility = visibility, !.mode = mode]
  BY DEF Accounted
<1> HIDE DEF missed, existence, visibility, mode
<1> QED
  BY <1>1, <1>2, <1>3, <1>4, <1>5 DEF Track

LEMMA RemovedTrack ==
  ASSUME NEW t \in Track
  PROVE  /\ Removed(t) \in Track
         /\ ~Removed(t).active
         /\ Removed(t).id = NoId
<1>1. t.existence \in Int
  BY DEF Track
<1>2. NoId \in Int /\ {"FREE", "REMOVED"} \subseteq Modes
  BY DEF NoId, Modes
<1>3. EmptyTrack \in Track /\ ~EmptyTrack.active /\ EmptyTrack.id = NoId
  BY <1>2 DEF EmptyTrack, Track
<1>4. Removed(t) = [EmptyTrack EXCEPT !.existence = t.existence,
                                      !.mode = "REMOVED"]
  BY DEF Removed
<1> QED
  BY <1>1, <1>2, <1>3, <1>4 DEF Track

(* Visibility accounting keeps a track well formed, never revives a slot,  *)
(* and either keeps its identifier or clears it with the slot.             *)
LEMMA UpdatedTrack ==
  ASSUME NEW t \in Track, NEW e \in Evidence
  PROVE  /\ Updated(t, e) \in Track
         /\ \/ /\ Updated(t, e).active = t.active
               /\ Updated(t, e).id = t.id
            \/ /\ t.active
               /\ ~Updated(t, e).active
               /\ Updated(t, e).id = NoId
<1> DEFINE observed == e.match = "strong"
           after == Accounted(Corrected(t, e), observed, e.occluded)
<1>1. e.occluded \in BOOLEAN
  BY DEF Evidence
<1>2. /\ after \in Track
      /\ after.active = t.active
      /\ after.id = t.id
  <2>1. /\ Corrected(t, e) \in Track
        /\ Corrected(t, e).active = t.active
        /\ Corrected(t, e).id = t.id
    BY CorrectedTrack
  <2>2. observed \in BOOLEAN
    OBVIOUS
  <2> HIDE DEF observed
  <2> QED
    BY <1>1, <2>1, <2>2, AccountedTrack
<1>3. /\ Removed(after) \in Track
      /\ ~Removed(after).active
      /\ Removed(after).id = NoId
  BY <1>2, RemovedTrack
<1>4. CASE ~t.active
  BY <1>4 DEF Updated
<1>5. CASE t.active /\ Expired(after, observed, e.occluded)
  <2>1. Updated(t, e) = Removed(after)
    BY <1>5 DEF Updated
  <2> QED
    BY <1>3, <1>5, <2>1
<1>6. CASE t.active /\ ~Expired(after, observed, e.occluded)
  <2>1. Updated(t, e) = after
    BY <1>6 DEF Updated
  <2> QED
    BY <1>2, <2>1
<1> QED
  BY <1>4, <1>5, <1>6

(* An optimal matching sends previous candidates to new ones.              *)
LEMMA MatchingType ==
  ASSUME NEW old \in SUBSET Positions, NEW new,
         NEW m \in OptimalMatchings(old, new)
  PROVE  DOMAIN m \subseteq Positions
  BY DEF OptimalMatchings, Matchings

LEMMA CountsType ==
  ASSUME TypeOK, NEW k \in Sensors, NEW eligible,
         NEW m \in OptimalMatchings(Comparable(k), eligible)
  PROVE  Counts(k, eligible, m) \in [Positions -> Nat]
<1>1. Comparable(k) \in SUBSET Positions
  BY DEF Comparable
<1>2. DOMAIN m \subseteq Positions
  BY <1>1, MatchingType
<1> SUFFICES ASSUME NEW q \in Positions
             PROVE  Counts(k, eligible, m)[q] \in Nat
  BY DEF Counts
<1>3. CASE q \in eligible /\ \E p \in DOMAIN m : m[p] = q
  <2>1. (CHOOSE p \in DOMAIN m : m[p] = q) \in Positions
    BY <1>2, <1>3
  <2> QED
    BY <1>3, <2>1 DEF Counts, TypeOK
<1>4. CASE ~(q \in eligible /\ \E p \in DOMAIN m : m[p] = q)
  BY <1>4 DEF Counts
<1> QED
  BY <1>3, <1>4
-----------------------------------------------------------------------------
(* What any step may do to one slot. *)
Unchanged(s) ==
  /\ tracks'[s].active = tracks[s].active
  /\ tracks'[s].id = tracks[s].id

Dropped(s) ==
  /\ tracks[s].active /\ ~tracks'[s].active
  /\ tracks'[s].id = NoId

Taken(s) ==
  /\ ~tracks[s].active /\ tracks'[s].active
  /\ tracks'[s].id \in nextId .. nextId' - 1

Steps ==
  /\ nextId' \in Nat /\ nextId' >= nextId
  /\ \A s \in Slots : Unchanged(s) \/ Dropped(s) \/ Taken(s)
  /\ \A r, s \in Slots :
       Taken(r) /\ Taken(s) /\ tracks'[r].id = tracks'[s].id => r = s

(* A discovery allocates consecutive identifiers, one for each slot taken. *)
LEMMA Births ==
  ASSUME TypeOK, NEW eligible, NEW m \in OptimalMatchings(Comparable(stream), eligible),
         NEW kept, NEW logits \in [Free -> Measured],
         Discover(eligible, m, kept, logits)
  PROVE  TypeOK' /\ Steps
<1> DEFINE counts == Counts(stream, eligible, m)
           n == Cardinality(kept)
           newId(s) == nextId + FreeRank(s) - 1
<1>1. /\ nextId \in Nat /\ stream \in Sensors
      /\ \A s \in Slots : tracks[s] \in Track
  BY DEF TypeOK
<1>2. n \in Nat
  <2>1. kept \subseteq Positions
    BY DEF Discover, Confirmed
  <2> QED
    BY <2>1, BirthAssumption, FS_Subset, FS_CardinalityType
<1>3. \A s \in Allocated(n) : s \in Slots /\ s \in Free /\ ~tracks[s].active
  BY DEF Allocated, Free, Active
<1>4. \A s \in Allocated(n) : FreeRank(s) \in Int /\ 1 <= FreeRank(s) /\ FreeRank(s) <= n
  <2> SUFFICES ASSUME NEW s \in Allocated(n)
               PROVE  FreeRank(s) \in Int /\ 1 <= FreeRank(s) /\ FreeRank(s) <= n
    OBVIOUS
  <2>1. FreeRank(s) \in 1 .. Cardinality(Free)
    BY <1>3, RankType
  <2> QED
    BY <2>1, FreeFinite DEF Allocated
<1>5. nextId' = nextId + n
  BY DEF Discover
<1>6. \A s \in Slots :
        tracks'[s] = IF s \in Allocated(n) THEN Born(newId(s), logits[s]) ELSE tracks[s]
  BY DEF Discover
<1>7. \A s \in Allocated(n) : newId(s) \in nextId .. nextId' - 1
  BY <1>1, <1>2, <1>4, <1>5
<1>8. \A s \in Allocated(n) : logits[s] \in Int
  BY <1>3, RetentionAssumption
<1>9. \A s \in Slots : tracks'[s] \in Track
  <2> SUFFICES ASSUME NEW s \in Allocated(n)
               PROVE  Born(newId(s), logits[s]) \in Track
    BY <1>1, <1>6
  <2>1. newId(s) \in Int
    BY <1>1, <1>4
  <2>2. "CREATED" \in Modes
    BY DEF Modes
  <2> HIDE DEF newId
  <2> QED
    BY <1>8, <2>1, <2>2 DEF Born, Track
<1>10. tracks' \in [Slots -> Track]
  BY <1>9 DEF Discover
<1>11. tentative' \in [Sensors -> [Positions -> Nat]]
  <2>1. counts \in [Positions -> Nat]
    BY <1>1, CountsType
  <2>2. [q \in Positions |-> IF q \in Confirmed(counts) THEN 0 ELSE counts[q]]
          \in [Positions -> Nat]
    BY <2>1
  <2> QED
    BY <2>2 DEF Discover, TypeOK
<1>12. TypeOK'
  BY <1>1, <1>2, <1>5, <1>10, <1>11 DEF Discover, TypeOK
<1>13. \A s \in Slots :
         IF s \in Allocated(n) THEN Taken(s) /\ tracks'[s].id = newId(s)
                               ELSE Unchanged(s) /\ ~Taken(s)
  <2> SUFFICES ASSUME NEW s \in Slots
               PROVE  IF s \in Allocated(n) THEN Taken(s) /\ tracks'[s].id = newId(s)
                                            ELSE Unchanged(s) /\ ~Taken(s)
    OBVIOUS
  <2>1. CASE s \in Allocated(n)
    <3>1. tracks'[s].active /\ tracks'[s].id = newId(s)
      <4>1. tracks'[s] = Born(newId(s), logits[s])
        BY <1>6, <2>1
      <4> HIDE DEF newId
      <4> QED
        BY <4>1 DEF Born
    <3> QED
      BY <1>3, <1>7, <2>1, <3>1 DEF Taken
  <2>2. CASE s \notin Allocated(n)
    BY <1>6, <2>2 DEF Unchanged, Taken
  <2> QED
    BY <2>1, <2>2
<1>14. \A r, s \in Allocated(n) : newId(r) = newId(s) => r = s
  <2> SUFFICES ASSUME NEW r \in Allocated(n), NEW s \in Allocated(n),
                      newId(r) = newId(s)
               PROVE  r = s
    OBVIOUS
  <2>1. FreeRank(r) = FreeRank(s)
    BY <1>1, <1>4
  <2> QED
    BY <1>3, <2>1, RankInjective
<1> HIDE DEF n, newId
<1>15. Steps
  BY <1>1, <1>2, <1>5, <1>13, <1>14 DEF Steps
<1> QED
  BY <1>12, <1>15

(* Every step keeps the state well typed and does to each slot one of the  *)
(* three things above.                                                     *)
LEMMA TypeStep ==
  ASSUME TypeOK, [Next]_vars
  PROVE  TypeOK' /\ Steps
<1> USE DEF TypeOK
<1>0. \A s \in Slots : tracks[s] \in Track
  OBVIOUS
<1>1. ASSUME NEW touching \in SUBSET Active, Propagate(touching)
      PROVE  TypeOK' /\ Steps
  <2>1. \A s \in Slots : PropagatedMode(tracks[s], s \in touching) \in Modes
    BY DEF PropagatedMode, EventMode, Modes
  <2>2. \A s \in Slots : tracks'[s] \in Track /\ Unchanged(s)
    <3> SUFFICES ASSUME NEW s \in Slots
                 PROVE  tracks'[s] \in Track /\ Unchanged(s)
      OBVIOUS
    <3> DEFINE mode == PropagatedMode(tracks[s], s \in touching)
    <3>1. mode \in Modes
      BY <2>1
    <3>2. tracks'[s] = IF tracks[s].active THEN [tracks[s] EXCEPT !.mode = mode]
                                           ELSE tracks[s]
      BY <1>1 DEF Propagate
    <3>3. tracks[s] \in Track
      BY <1>0
    <3> HIDE DEF mode
    <3>4. CASE tracks[s].active
      <4>1. tracks'[s] = [tracks[s] EXCEPT !.mode = mode]
        BY <3>2, <3>4
      <4> QED
        BY <3>1, <3>3, <4>1 DEF Track, Unchanged
    <3>5. CASE ~tracks[s].active
      BY <3>2, <3>3, <3>5 DEF Unchanged
    <3> QED
      BY <3>4, <3>5
  <2>3. TypeOK'
    BY <1>1, <2>2 DEF Propagate
  <2> QED
    BY <1>1, <2>2, <2>3 DEF Propagate, Steps, Unchanged, Taken
<1>2. ASSUME SameTimestamp
      PROVE  TypeOK' /\ Steps
  BY <1>2 DEF SameTimestamp, Steps, Unchanged, Taken
<1>3. ASSUME NEW k \in Sensors, NEW seen \in Frames, UpdateVisibility(k, seen)
      PROVE  TypeOK' /\ Steps
  <2>1. \A s \in Slots : tracks'[s] \in Track /\ (Unchanged(s) \/ Dropped(s))
    <3> SUFFICES ASSUME NEW s \in Slots
                 PROVE  tracks'[s] \in Track /\ (Unchanged(s) \/ Dropped(s))
      OBVIOUS
    <3>1. seen[s] \in Evidence
      BY DEF Frames
    <3>2. tracks'[s] = Updated(tracks[s], seen[s])
      BY <1>3 DEF UpdateVisibility
    <3> QED
      BY <1>0, <3>1, <3>2, UpdatedTrack DEF Unchanged, Dropped
  <2>2. TypeOK'
    BY <1>3, <2>1 DEF UpdateVisibility
  <2>3. \A s \in Slots : ~Taken(s)
    BY <2>1 DEF Unchanged, Dropped, Taken
  <2> QED
    BY <1>3, <2>1, <2>2, <2>3 DEF UpdateVisibility, Steps
<1>4. ASSUME NEW eligible \in Candidates,
             NEW m \in OptimalMatchings(Comparable(stream), eligible),
             NEW kept \in SUBSET eligible, NEW logits \in [Free -> Measured],
             Discover(eligible, m, kept, logits)
      PROVE  TypeOK' /\ Steps
  BY <1>4, Births
<1>5. ASSUME FastFrame
      PROVE  TypeOK' /\ Steps
  BY <1>5 DEF FastFrame, Steps, Unchanged, Taken
<1>6. ASSUME UNCHANGED vars
      PROVE  TypeOK' /\ Steps
  BY <1>6 DEF vars, Steps, Unchanged, Taken
<1> QED
  BY <1>1, <1>2, <1>3, <1>4, <1>5, <1>6 DEF Next

(* The state of BeliefLifecycle is always well typed.                      *)
THEOREM TypeCorrect == Spec => []TypeOK
<1>1. Init => TypeOK
  BY DEF Init, TypeOK, EmptyTrack, Track, Modes, NoId, NoEvidence
<1>2. TypeOK /\ [Next]_vars => TypeOK'
  BY TypeStep
<1> QED
  BY <1>1, <1>2, PTL DEF Spec

(* Identity needs nothing but types to be inductive: the counter bounds    *)
(* every identifier, so what a birth takes from it no other slot holds.    *)
LEMMA IdentityStep ==
  ASSUME TypeOK, Identity, Steps
  PROVE  Identity'
<1>1. /\ nextId \in Nat /\ nextId' \in Nat /\ nextId' >= nextId
      /\ \A s \in Slots : Unchanged(s) \/ Dropped(s) \/ Taken(s)
      /\ \A r, s \in Slots :
           Taken(r) /\ Taken(s) /\ tracks'[r].id = tracks'[s].id => r = s
  BY DEF TypeOK, Steps
<1>2. ASSUME NEW s \in Slots
      PROVE  IF tracks'[s].active THEN tracks'[s].id \in 0 .. nextId' - 1
                                  ELSE tracks'[s].id = NoId
  BY <1>1 DEF Identity, Active, Unchanged, Dropped, Taken
<1>3. ASSUME NEW r \in Slots, NEW s \in Slots, tracks'[r].active, tracks'[s].active,
             tracks'[r].id = tracks'[s].id
      PROVE  r = s
  <2>1. CASE Taken(r) /\ Taken(s)
    BY <1>1, <1>3, <2>1
  <2>2. CASE Unchanged(r) /\ Unchanged(s)
    BY <1>3, <2>2 DEF Identity, Active, Unchanged
  <2>3. CASE Taken(r) /\ Unchanged(s)
    BY <1>1, <1>3, <2>3 DEF Identity, Active, Unchanged, Taken
  <2>4. CASE Unchanged(r) /\ Taken(s)
    BY <1>1, <1>3, <2>4 DEF Identity, Active, Unchanged, Taken
  <2> QED
    BY <1>1, <1>3, <2>1, <2>2, <2>3, <2>4 DEF Dropped
<1> QED
  BY <1>2, <1>3 DEF Identity, Active

(* One active slot per identifier, none on free slots, all below the       *)
(* counter: whatever is removed, born, re-ingested or skipped.             *)
THEOREM IdentityHolds == Spec => []Identity
<1>1. Init => Identity
  BY DEF Init, Identity, Active, EmptyTrack
<1>2. TypeOK /\ Identity /\ [Next]_vars => Identity'
  BY TypeStep, IdentityStep
<1> QED
  BY <1>1, <1>2, TypeCorrect, PTL DEF Spec

(* No identifier is ever recycled (PROJECT_SPEC.md, 20.5).                  *)
THEOREM NoRecycling == Spec => IdentifiersAreFresh
<1> DEFINE Fresh ==
      /\ nextId' >= nextId
      /\ \A s \in Slots :
           tracks'[s].id # tracks[s].id /\ tracks'[s].id # NoId =>
             /\ tracks[s].id = NoId
             /\ tracks'[s].id \in nextId .. nextId' - 1
<1>1. TypeOK /\ Identity /\ [Next]_vars => Fresh
  <2> SUFFICES ASSUME TypeOK, Identity, [Next]_vars
               PROVE  Fresh
    OBVIOUS
  <2>1. Steps
    BY TypeStep
  <2> QED
    BY <2>1 DEF Steps, Unchanged, Dropped, Taken, Identity, Active
<1>2. TypeOK /\ Identity /\ [Next]_vars => [Fresh]_vars
  BY <1>1
<1> QED
  BY <1>2, TypeCorrect, IdentityHolds, PTL DEF Spec, IdentifiersAreFresh

(* An identifier is borne by the slot that holds it.                        *)
LEMMA BearerIs ==
  ASSUME Identity, NEW s \in Active
  PROVE  tracks[s].id \in DOMAIN Bearer /\ Bearer[tracks[s].id] = s
<1>1. (CHOOSE r \in Active : tracks[r].id = tracks[s].id) = s
  BY DEF Identity
<1> QED
  BY <1>1 DEF Bearer

(* What identifiers mean outside the lifecycle: every step of a frame is a *)
(* turnover of the registry, births, removals and all, and none starts it   *)
(* over.                                                                    *)
THEOREM LifecycleIsRegistry == Spec => IsRegistry
<1>1. Init => Registry!Init
  <2> SUFFICES ASSUME Init
               PROVE  Registry!Init
    OBVIOUS
  <2>1. Active = {}
    BY DEF Init, Active, EmptyTrack
  <2>2. {tracks[s].id : s \in Active} = {}
    BY <2>1
  <2>3. Bearer = [i \in {} |-> i]
    BY <2>2 DEF Bearer
  <2> QED
    BY <2>3 DEF Init, Registry!Init, Registry!NoBearer
<1>2. TypeOK /\ Identity /\ Identity' /\ [Next]_vars => Registry!Turnover
  <2> SUFFICES ASSUME TypeOK, Identity, Identity', [Next]_vars
               PROVE  Registry!Turnover
    OBVIOUS
  <2>1. /\ nextId \in Nat /\ nextId' \in Nat /\ nextId' >= nextId
        /\ \A s \in Slots : Unchanged(s) \/ Dropped(s) \/ Taken(s)
    BY TypeStep DEF Steps, TypeOK
  <2>2. ASSUME NEW i \in DOMAIN Bearer'
        PROVE  IF i < nextId THEN i \in DOMAIN Bearer /\ Bearer'[i] = Bearer[i] ELSE i < nextId'
    <3>1. PICK s \in Active' : tracks'[s].id = i
      BY <2>2 DEF Bearer
    <3>2. s \in Slots /\ tracks'[s].active /\ i \in 0 .. nextId' - 1
      BY <3>1 DEF Active, Identity, Slots
    <3>3. Bearer'[i] = s
      <4>1. (CHOOSE r \in Active' : tracks'[r].id = i) = s
        BY <3>1 DEF Identity
      <4> QED
        BY <2>2, <4>1 DEF Bearer
    <3>4. CASE Unchanged(s)
      <4>1. s \in Active /\ tracks[s].id = i
        BY <3>1, <3>2, <3>4 DEF Unchanged, Active
      <4>2. i \in 0 .. nextId - 1
        BY <3>2, <4>1 DEF Identity
      <4>3. i \in DOMAIN Bearer /\ Bearer[i] = s
        BY <4>1, BearerIs
      <4> QED
        BY <2>1, <3>3, <4>2, <4>3
    <3>5. CASE Taken(s)
      BY <2>1, <3>1, <3>2, <3>5 DEF Taken
    <3> QED
      BY <2>1, <3>2, <3>4, <3>5 DEF Dropped
  <2>3. Cardinality(DOMAIN Bearer') <= MaxObjects
    <3> DEFINE ids == {tracks'[s].id : s \in Active'}
    <3>1. DOMAIN Bearer' = ids
      BY DEF Bearer
    <3>2. IsFiniteSet(Slots) /\ Cardinality(Slots) = MaxObjects
      BY FS_Interval, CapacityAssumption DEF Slots
    <3>3. Active' \subseteq Slots
      BY DEF Active, Slots
    <3>4. IsFiniteSet(Active') /\ Cardinality(Active') <= MaxObjects
      BY <3>2, <3>3, FS_Subset
    <3>5. IsFiniteSet(ids) /\ Cardinality(ids) <= Cardinality(Active')
      <4> DEFINE f == [s \in Active' |-> tracks'[s].id]
      <4>1. f \in Surjection(Active', ids)
        BY DEF Surjection
      <4> QED
        BY <3>4, <4>1, FS_Surjection
    <3>6. Cardinality(ids) \in Nat /\ Cardinality(Active') \in Nat /\ MaxObjects \in Nat
      BY <3>4, <3>5, FS_CardinalityType, CapacityAssumption
    <3> QED
      BY <3>1, <3>4, <3>5, <3>6
  <2>4. \A S : Registry!Cardinality(S) = Cardinality(S)
    BY DEF Registry!Cardinality, Cardinality
  <2> QED
    BY <2>1, <2>2, <2>3, <2>4 DEF Registry!Turnover
<1> QED
  BY <1>1, <1>2, TypeCorrect, IdentityHolds, PTL DEF Spec, IsRegistry, Registry!Episode

-----------------------------------------------------------------------------
(* The counters against what really happened (BeliefHistory). *)

LEMMA HStepIsStep ==
  ASSUME [HNext]_hvars
  PROVE  [Next]_vars
BY DEF HNext, hvars, vars, Next, HPropagate, HSameTimestamp, HUpdateVisibility, HDiscover, HFastFrame

(* Whatever restarts the miss counter, it never runs ahead of the misses.  *)
Overdue == MaxMissedSteps + 1
Counted(s) ==
  /\ absence[s].total \in 0 .. Overdue
  /\ tracks[s].active => absence[s].total = Overdue \/ tracks[s].missed <= absence[s].total
CountedInv == TypeOK /\ \A s \in Slots : Counted(s)

(* One packet, one slot: a miss counts on both sides, a match restarts     *)
(* both, and what is given up without its existence logit has been unseen  *)
(* too long.                                                               *)
LEMMA CountedOnce ==
  ASSUME NEW t \in Track, t.active, NEW e \in Evidence, NEW a, a.total \in 0 .. Overdue,
         a.total = Overdue \/ t.missed <= a.total
  PROVE  /\ AbsenceAfter(a, e).total \in 0 .. Overdue
         /\ Updated(t, e).active =>
              \/ AbsenceAfter(a, e).total = Overdue
              \/ Updated(t, e).missed <= AbsenceAfter(a, e).total
         /\ ~Updated(t, e).active =>
              \/ Updated(t, e).existence < RemovalExistenceLogit
              \/ AbsenceAfter(a, e).total > MaxMissedSteps
<1> DEFINE observed == e.match = "strong"
           before == Corrected(t, e)
           after == Accounted(before, observed, e.occluded)
           total == AbsenceAfter(a, e).total
<1>1. /\ MaxMissedSteps \in Nat /\ MaxOccludedSteps \in Nat /\ MaxOccludedSteps >= MaxMissedSteps
      /\ Overdue = MaxMissedSteps + 1 /\ e.occluded \in BOOLEAN /\ observed \in BOOLEAN
  BY RetentionAssumption DEF Overdue, Evidence
<1>2. total = IF observed THEN 0 ELSE IF a.total = Overdue THEN Overdue ELSE a.total + 1
  BY <1>1 DEF AbsenceAfter, Present, OneMore, Smaller
<1>3. before \in Track /\ before.missed = t.missed
  BY CorrectedTrack DEF Corrected, Track
<1>4. after \in Track /\ after.missed = MissedSteps(before, observed, e.occluded)
  <2> HIDE DEF before, observed
  <2>1. after \in Track
    BY <1>1, <1>3, AccountedTrack
  <2>2. after.missed = MissedSteps(before, observed, e.occluded)
    BY <1>3 DEF Accounted, Track
  <2> QED BY <2>1, <2>2
<1>5. before.missed \in Nat
  BY <1>3 DEF Track
<1>6. /\ observed => after.missed = 0
      /\ after.missed = 0 \/ after.missed = 1 \/ after.missed = t.missed + 1
      /\ ~observed => after.missed = 1 \/ after.missed = t.missed + 1
  <2> HIDE DEF before, observed, after
  <2> QED BY <1>1, <1>3, <1>4 DEF MissedSteps
<1>7. total = Overdue \/ after.missed <= total
  <2> HIDE DEF before, observed, after, total
  <2> QED BY <1>1, <1>2, <1>3, <1>5, <1>6
<1>8. total \in 0 .. Overdue
  <2> HIDE DEF observed, total
  <2> QED BY <1>1, <1>2
<1>9. CASE Expired(after, observed, e.occluded)
  <2>1. Updated(t, e) = Removed(after)
    BY <1>9 DEF Updated
  <2>2. /\ ~Updated(t, e).active
        /\ Updated(t, e).existence = after.existence
    BY <1>4, <2>1, RemovedTrack DEF Removed, EmptyTrack
  <2>3. after.existence < RemovalExistenceLogit \/ total > MaxMissedSteps
    <3>1. after.missed \in Nat
      BY <1>4 DEF Track
    <3> HIDE DEF before, observed, after, total
    <3> QED BY <1>1, <1>7, <1>8, <1>9, <3>1 DEF Expired
  <2> QED BY <1>8, <2>2, <2>3
<1>10. CASE ~Expired(after, observed, e.occluded)
  <2>1. Updated(t, e) = after
    BY <1>10 DEF Updated
  <2>2. before.active
    BY CorrectedTrack
  <2>3. after.active
    <3> HIDE DEF before, observed
    <3> QED BY <1>1, <1>3, <2>2, AccountedTrack
  <2> QED BY <1>7, <1>8, <2>1, <2>3
<1> QED BY <1>9, <1>10

LEMMA CountedStep ==
  ASSUME CountedInv, [HNext]_hvars
  PROVE  /\ CountedInv'
         /\ \A s \in Active : ~tracks'[s].active =>
              \/ tracks'[s].existence < RemovalExistenceLogit
              \/ absence'[s].total > MaxMissedSteps
<1>1. TypeOK /\ TypeOK' /\ \A s \in Slots : tracks[s] \in Track /\ Counted(s)
  BY HStepIsStep, TypeStep DEF CountedInv, TypeOK
<1>2. Present.total = 0 /\ 0 \in 0 .. Overdue
  BY RetentionAssumption DEF Present, Overdue
<1>3. CASE \E k \in Sensors, seen \in Frames : HUpdateVisibility(k, seen)
  <2>1. PICK k \in Sensors, seen \in Frames : HUpdateVisibility(k, seen)
    BY <1>3
  <2>2. ASSUME NEW s \in Slots
        PROVE  /\ Counted(s)'
               /\ tracks[s].active /\ ~tracks'[s].active =>
                    \/ tracks'[s].existence < RemovalExistenceLogit
                    \/ absence'[s].total > MaxMissedSteps
    <3>1. /\ tracks'[s] = Updated(tracks[s], seen[s]) /\ seen[s] \in Evidence
          /\ absence'[s] = IF tracks[s].active THEN AbsenceAfter(absence[s], seen[s]) ELSE Present
      BY <2>1 DEF HUpdateVisibility, UpdateVisibility, Frames
    <3>2. CASE tracks[s].active
      BY <1>1, <3>1, <3>2, CountedOnce DEF Counted, Overdue
    <3>3. CASE ~tracks[s].active
      BY <1>2, <3>1, <3>3 DEF Counted, Updated, Overdue
    <3> QED BY <3>2, <3>3
  <2> QED BY <1>1, <2>2 DEF CountedInv, Active
<1>4. CASE \E touching \in SUBSET Active : HPropagate(touching)
  <2>1. PICK touching \in SUBSET Active : HPropagate(touching)
    BY <1>4
  <2>2. absence' = absence
    BY <2>1 DEF HPropagate
  <2>3. ASSUME NEW s \in Slots
        PROVE  tracks'[s].active = tracks[s].active /\ tracks'[s].missed = tracks[s].missed
    BY <1>1, <2>1, <2>3 DEF HPropagate, Propagate, Track
  <2> QED BY <1>1, <2>2, <2>3 DEF CountedInv, Counted, Active, Overdue
<1>5. CASE \E eligible \in Candidates :
             \E m \in OptimalMatchings(Comparable(stream), eligible),
                kept \in SUBSET eligible, logits \in [Free -> Measured] :
               HDiscover(eligible, m, kept, logits)
  <2>1. PICK eligible \in Candidates :
             \E m \in OptimalMatchings(Comparable(stream), eligible),
                kept \in SUBSET eligible, logits \in [Free -> Measured] :
               HDiscover(eligible, m, kept, logits)
    BY <1>5
  <2>2. PICK m \in OptimalMatchings(Comparable(stream), eligible),
             kept \in SUBSET eligible, logits \in [Free -> Measured] :
               HDiscover(eligible, m, kept, logits)
    BY <2>1
  <2>3. ASSUME NEW s \in Slots
        PROVE  Counted(s)' /\ (tracks[s].active => tracks'[s] = tracks[s])
    <3>1. absence'[s] = IF tracks[s].active THEN absence[s] ELSE Present
      BY <2>2 DEF HDiscover
    <3>2. tracks'[s] = tracks[s] \/ (s \in Free /\ tracks'[s].missed = 0)
      BY <2>2 DEF HDiscover, Discover, Allocated, Born
    <3>3. s \in Free <=> ~tracks[s].active
      BY DEF Free, Active
    <3> QED BY <1>1, <1>2, <3>1, <3>2, <3>3 DEF Counted, Overdue
  <2> QED BY <1>1, <2>3 DEF CountedInv, Active
<1>6. CASE HSameTimestamp \/ HFastFrame \/ UNCHANGED hvars
  <2>1. UNCHANGED <<tracks, absence>>
    BY <1>6 DEF HSameTimestamp, SameTimestamp, HFastFrame, FastFrame, hvars, vars
  <2> QED BY <1>1, <2>1 DEF CountedInv, Counted, Active, Overdue
<1> QED BY <1>3, <1>4, <1>5, <1>6 DEF HNext

(* A track is given up only for its existence logit, or after more than    *)
(* max_missed_steps consecutive packets that did not see it.               *)
THEOREM RetiredForCause == HSpec => NoPrematureRetirement
<1> DEFINE Cause == \A s \in Active : ~tracks'[s].active =>
              \/ tracks'[s].existence < RemovalExistenceLogit
              \/ absence'[s].total > MaxMissedSteps
<1>1. HInit => CountedInv
  BY RetentionAssumption
     DEF HInit, Init, CountedInv, Counted, Overdue, Present, TypeOK, EmptyTrack, Track, Modes, NoId,
         NoEvidence
<1>2. CountedInv /\ [HNext]_hvars => CountedInv'
  BY CountedStep
<1>3. CountedInv /\ [HNext]_hvars => [Cause]_hvars
  BY CountedStep
<1> QED
  BY <1>1, <1>2, <1>3, PTL DEF HSpec, NoPrematureRetirement

(* Sighted, of a trail of its own.                                         *)
SightedIn(t, p, n) ==
  /\ n <= Len(t)
  /\ \E chain \in [1 .. n -> Positions] :
       /\ chain[1] = p
       /\ \A i \in 1 .. n : chain[i] \in t[i].seen
       /\ \A i \in 1 .. n - 1 :
            /\ t[i].fresh
            /\ Distance(chain[i], chain[i + 1]) <= BirthConfirmationDistance

(* What a sensor's last discoveries held, and what its tentative counts    *)
(* are worth.                                                              *)
Sighting == [seen : SUBSET Positions, fresh : BOOLEAN]
EvidenceInv ==
  /\ TypeOK
  /\ trail \in [Sensors -> Seq(Sighting)]
  /\ \A k \in Sensors, p \in Positions :
       /\ tentative[k][p] < BirthConfirmations
       /\ tentative[k][p] > 0 => SightedIn(trail[k], p, tentative[k][p])
  /\ \A p \in bornAt : SightedIn(trail[stream], p, BirthConfirmations)

LEMMA Prefix ==
  ASSUME NEW S, NEW s, NEW n \in Nat, n >= 1, \A i \in 1 .. n : s[i] \in S
  PROVE  /\ SubSeq(s, 1, n) \in Seq(S) /\ Len(SubSeq(s, 1, n)) = n
         /\ \A i \in 1 .. n : SubSeq(s, 1, n)[i] = s[i]
BY SubSeqProperties

(* A discovery goes first in the trail of its sensor, whose length is kept *)
(* to what a birth needs.                                                  *)
Newest(d, old) == SubSeq(<<d>> \o old, 1, Smaller(Len(<<d>> \o old), BirthConfirmations))

Continues(new, d, old) ==
  /\ new \in Seq(Sighting)
  /\ Len(new) \in Nat /\ Len(new) >= 1
  /\ \A k \in Nat : k <= Len(old) /\ k + 1 <= BirthConfirmations => k + 1 <= Len(new)
  /\ new[1] = d
  /\ \A i \in Nat : 1 <= i /\ i < Len(new) => new[i + 1] = old[i]

LEMMA Remembered ==
  ASSUME NEW d \in Sighting, NEW old \in Seq(Sighting), NEW new, new = Newest(d, old)
  PROVE  Continues(new, d, old)
<1> DEFINE all == <<d>> \o old
           n == Smaller(Len(all), BirthConfirmations)
<1>0. new = SubSeq(all, 1, n)
  BY DEF Newest
<1>1. /\ BirthConfirmations \in Nat /\ BirthConfirmations >= 1 /\ Len(old) \in Nat
      /\ <<d>> \in Seq(Sighting) /\ Len(<<d>>) = 1 /\ <<d>>[1] = d
  BY BirthAssumption
<1>2. /\ all \in Seq(Sighting) /\ Len(all) = 1 + Len(old)
      /\ \A i \in 1 .. 1 + Len(old) : all[i] = IF i <= 1 THEN <<d>>[i] ELSE old[i - 1]
  <2> DEFINE one == <<d>>
  <2>1. one \in Seq(Sighting) /\ Len(one) = 1
    BY <1>1
  <2> HIDE DEF one
  <2>2. /\ one \o old \in Seq(Sighting) /\ Len(one \o old) = Len(one) + Len(old)
        /\ \A i \in 1 .. Len(one) + Len(old) :
             (one \o old)[i] = IF i <= Len(one) THEN one[i] ELSE old[i - Len(one)]
    BY <2>1, ConcatProperties
  <2>3. /\ one \o old \in Seq(Sighting) /\ Len(one \o old) = 1 + Len(old)
        /\ \A i \in 1 .. 1 + Len(old) :
             (one \o old)[i] = IF i <= 1 THEN one[i] ELSE old[i - 1]
    BY <2>1, <2>2
  <2> QED BY <2>3 DEF one
<1> HIDE DEF all
<1>3. n \in Nat /\ n >= 1 /\ n <= Len(all) /\ n <= BirthConfirmations
      /\ (n = Len(all) \/ n = BirthConfirmations)
  BY <1>1, <1>2 DEF Smaller
<1> HIDE DEF n
<1>4. \A i \in 1 .. n : all[i] \in Sighting
  BY <1>2, <1>3
<1>5. /\ SubSeq(all, 1, n) \in Seq(Sighting) /\ Len(SubSeq(all, 1, n)) = n
      /\ \A i \in 1 .. n : SubSeq(all, 1, n)[i] = all[i]
  <2>1. n \in Nat /\ n >= 1
    BY <1>3
  <2> QED BY <1>4, <2>1, Prefix
<1>6. /\ new \in Seq(Sighting) /\ Len(new) = n
      /\ \A i \in 1 .. n : new[i] = all[i]
  BY <1>0, <1>5
<1>7. new[1] = d
  BY <1>1, <1>2, <1>3, <1>6
<1>8. \A i \in Nat : 1 <= i /\ i < n => new[i + 1] = old[i]
  <2> SUFFICES ASSUME NEW i \in Nat, 1 <= i, i < n
               PROVE  new[i + 1] = old[i]
    OBVIOUS
  <2>1. i + 1 \in 1 .. n /\ i + 1 \in 1 .. 1 + Len(old) /\ ~(i + 1 <= 1) /\ (i + 1) - 1 = i
    BY <1>1, <1>2, <1>3
  <2> QED BY <1>2, <1>6, <2>1
<1>9. \A k \in Nat : k <= Len(old) /\ k + 1 <= BirthConfirmations => k + 1 <= n
  BY <1>1, <1>2, <1>3
<1> QED BY <1>3, <1>6, <1>7, <1>8, <1>9 DEF Continues

(* A candidate of a discovery is one sighting; one that is also near a     *)
(* candidate of the discovery before, when time has passed, continues it.  *)
LEMMA Once ==
  ASSUME NEW d \in Sighting, NEW new, Len(new) >= 1, new[1] = d,
         NEW q \in Positions, q \in d.seen
  PROVE  SightedIn(new, q, 1)
<1> DEFINE only == [i \in 1 .. 1 |-> q]
<1>1. only \in [1 .. 1 -> Positions] /\ only[1] = q
  OBVIOUS
<1> HIDE DEF only
<1> QED BY <1>1 DEF SightedIn

LEMMA Longer ==
  ASSUME NEW d \in Sighting, d.fresh, NEW old \in Seq(Sighting), NEW new, new = Newest(d, old),
         NEW p \in Positions, NEW q \in Positions, q \in d.seen,
         Distance(q, p) <= BirthConfirmationDistance,
         NEW n \in Nat, n > 0, n < BirthConfirmations, SightedIn(old, p, n)
  PROVE  SightedIn(new, q, n + 1)
<1>1. /\ new \in Seq(Sighting)
      /\ Len(new) \in Nat /\ Len(new) >= 1
      /\ \A k \in Nat : k <= Len(old) /\ k + 1 <= BirthConfirmations => k + 1 <= Len(new)
      /\ new[1] = d
      /\ \A i \in Nat : 1 <= i /\ i < Len(new) => new[i + 1] = old[i]
  <2>1. Continues(new, d, old)
    BY Remembered
  <2> QED BY <2>1 DEF Continues
<1>2. BirthConfirmations \in Nat
  BY BirthAssumption
<1>3. n + 1 <= Len(new) /\ (n + 1) - 1 = n
  <2>1. n <= Len(old)
    BY DEF SightedIn
  <2>2. n + 1 <= BirthConfirmations
    BY <1>2
  <2> QED BY <1>1, <2>1, <2>2
<1>4. PICK chain \in [1 .. n -> Positions] :
        /\ chain[1] = p
        /\ \A i \in 1 .. n : chain[i] \in old[i].seen
        /\ \A i \in 1 .. n - 1 : /\ old[i].fresh
                                 /\ Distance(chain[i], chain[i + 1]) <= BirthConfirmationDistance
  BY DEF SightedIn
<1> DEFINE longer == [i \in 1 .. n + 1 |-> IF i = 1 THEN q ELSE chain[i - 1]]
<1>5. /\ longer[1] = q /\ longer \in [1 .. n + 1 -> Positions]
      /\ \A i \in 1 .. n : longer[i + 1] = chain[i]
  OBVIOUS
<1> HIDE DEF longer
<1>6. ASSUME NEW i \in 1 .. n + 1
      PROVE  longer[i] \in new[i].seen
  <2>1. CASE i = 1
    BY <1>1, <1>5, <2>1
  <2>2. CASE i # 1
    <3>1. PICK j \in 1 .. n : i = j + 1
      <4>1. i - 1 \in 1 .. n /\ i = (i - 1) + 1
        BY <1>6, <2>2
      <4> QED BY <4>1
    <3>2. j \in Nat /\ 1 <= j /\ j < Len(new)
      BY <1>1, <1>3, <3>1
    <3>3. new[j + 1] = old[j] /\ longer[j + 1] = chain[j]
      BY <1>1, <1>5, <3>1, <3>2
    <3> QED BY <1>4, <3>1, <3>3
  <2> QED BY <2>1, <2>2
<1>7. ASSUME NEW i \in 1 .. n
      PROVE  new[i].fresh /\ Distance(longer[i], longer[i + 1]) <= BirthConfirmationDistance
  <2>1. CASE i = 1
    <3>1. longer[1 + 1] = p /\ longer[1] = q
      BY <1>4, <1>5
    <3> QED BY <1>1, <2>1, <3>1
  <2>2. CASE i # 1
    <3>1. PICK j \in 1 .. n - 1 : i = j + 1
      <4>1. i - 1 \in 1 .. n - 1 /\ i = (i - 1) + 1
        BY <1>7, <2>2
      <4> QED BY <4>1
    <3>2. j \in 1 .. n /\ j + 1 \in 1 .. n /\ j \in Nat /\ 1 <= j /\ j < Len(new)
      BY <1>1, <1>3, <3>1
    <3>3. new[j + 1] = old[j]
      BY <1>1, <3>2
    <3>4. longer[j + 1] = chain[j] /\ longer[(j + 1) + 1] = chain[j + 1]
      BY <1>5, <3>2
    <3> QED BY <1>4, <3>1, <3>3, <3>4
  <2> QED BY <2>1, <2>2
<1>8. \E run \in [1 .. n + 1 -> Positions] :
        /\ run[1] = q
        /\ \A i \in 1 .. n + 1 : run[i] \in new[i].seen
        /\ \A i \in 1 .. (n + 1) - 1 :
             new[i].fresh /\ Distance(run[i], run[i + 1]) <= BirthConfirmationDistance
  BY <1>3, <1>5, <1>6, <1>7
<1> QED BY <1>3, <1>8 DEF SightedIn

(* What a discovery does to one tentative count.                           *)
LEMMA CountsEvidence ==
  ASSUME EvidenceInv, NEW eligible \in Candidates,
         NEW m \in OptimalMatchings(Comparable(stream), eligible),
         NEW new, new = Newest(Discovery(eligible), trail[stream]),
         NEW q \in eligible, NEW c, c = Counts(stream, eligible, m)[q]
  PROVE  c \in Nat /\ c <= BirthConfirmations /\ SightedIn(new, q, c)
<1> DEFINE d == Discovery(eligible)
           old == trail[stream]
<1>1. /\ stream \in Sensors /\ elapsed[stream] \in BOOLEAN /\ old \in Seq(Sighting)
      /\ eligible \subseteq Positions /\ BirthConfirmations \in Nat /\ BirthConfirmations >= 1
      /\ Positions \subseteq Int
  BY BirthAssumption DEF EvidenceInv, TypeOK, Candidates
<1>2. d \in Sighting /\ d.seen = eligible /\ (elapsed[stream] => d.fresh)
  BY <1>1 DEF Discovery, Sighting
<1>3. new = Newest(d, old)
  OBVIOUS
<1> HIDE DEF d, old
<1>4. CASE \E p \in DOMAIN m : m[p] = q
  <2> DEFINE p == CHOOSE p \in DOMAIN m : m[p] = q
  <2>1. p \in DOMAIN m /\ m[p] = q /\ Counts(stream, eligible, m)[q] = 1 + tentative[stream][p]
    BY <1>1, <1>4 DEF Counts
  <2>2. /\ DOMAIN m \subseteq Comparable(stream)
        /\ \A r \in DOMAIN m : Distance(r, m[r]) <= BirthConfirmationDistance
    BY DEF OptimalMatchings, Matchings
  <2> HIDE DEF p
  <2>3. p \in Positions /\ tentative[stream][p] > 0 /\ elapsed[stream]
    BY <2>1, <2>2 DEF Comparable
  <2>4. PICK n \in Nat : n = tentative[stream][p]
    BY <1>1, <2>3 DEF EvidenceInv, TypeOK
  <2>5. n > 0 /\ n < BirthConfirmations /\ SightedIn(old, p, n) /\ c = n + 1
    <3>1. n > 0 /\ n < BirthConfirmations /\ SightedIn(trail[stream], p, n)
      BY <1>1, <2>3, <2>4 DEF EvidenceInv
    <3>2. SightedIn(old, p, n)
      BY <3>1 DEF old
    <3>3. c = n + 1
      BY <2>1, <2>4
    <3> QED BY <3>1, <3>2, <3>3
  <2>6. Distance(q, p) <= BirthConfirmationDistance
    <3>1. Distance(p, q) <= BirthConfirmationDistance /\ p \in Int /\ q \in Int
      BY <1>1, <2>1, <2>2, <2>3
    <3> QED BY <3>1 DEF Distance
  <2>7. q \in Positions /\ q \in d.seen /\ d.fresh
    BY <1>1, <1>2, <2>3
  <2>8. SightedIn(new, q, n + 1)
    BY <1>1, <1>2, <1>3, <2>3, <2>5, <2>6, <2>7, Longer
  <2> QED BY <1>1, <2>5, <2>8
<1>5. CASE ~\E p \in DOMAIN m : m[p] = q
  <2>1. c = 1
    BY <1>1, <1>5 DEF Counts
  <2>2. Len(new) >= 1 /\ new[1] = d
    BY <1>1, <1>2, <1>3, Remembered DEF Continues
  <2>3. SightedIn(new, q, 1)
    BY <1>1, <1>2, <2>2, Once
  <2> QED BY <1>1, <2>1, <2>3
<1> QED BY <1>4, <1>5

LEMMA EvidenceStep ==
  ASSUME EvidenceInv, [HNext]_hvars
  PROVE  EvidenceInv'
<1>1. TypeOK /\ TypeOK' /\ stream \in Sensors
  BY HStepIsStep, TypeStep DEF EvidenceInv, TypeOK
<1>2. ASSUME UNCHANGED <<trail, tentative>>, bornAt' = {} \/ (bornAt' = bornAt /\ stream' = stream)
      PROVE  EvidenceInv'
  BY <1>1, <1>2 DEF EvidenceInv
<1>3. CASE (\E touching \in SUBSET Active : HPropagate(touching)) \/ HSameTimestamp \/ HFastFrame
           \/ (\E k \in Sensors, seen \in Frames : HUpdateVisibility(k, seen)) \/ UNCHANGED hvars
  BY <1>2, <1>3 DEF HPropagate, Propagate, HSameTimestamp, SameTimestamp, HFastFrame, FastFrame,
                    HUpdateVisibility, UpdateVisibility, hvars, vars
<1>4. CASE \E eligible \in Candidates :
             \E m \in OptimalMatchings(Comparable(stream), eligible),
                kept \in SUBSET eligible, logits \in [Free -> Measured] :
               HDiscover(eligible, m, kept, logits)
  <2>1. PICK eligible \in Candidates :
             \E m \in OptimalMatchings(Comparable(stream), eligible),
                kept \in SUBSET eligible, logits \in [Free -> Measured] :
               HDiscover(eligible, m, kept, logits)
    BY <1>4
  <2>2. PICK m \in OptimalMatchings(Comparable(stream), eligible),
             kept \in SUBSET eligible, logits \in [Free -> Measured] :
               HDiscover(eligible, m, kept, logits)
    BY <2>1
  <2> DEFINE counts == Counts(stream, eligible, m)
             d == Discovery(eligible)
             new == Newest(d, trail[stream])
  <2>3. /\ trail' = [trail EXCEPT ![stream] = new]
        /\ tentative' = [tentative EXCEPT ![stream] =
                          [q \in Positions |-> IF q \in Confirmed(counts) THEN 0 ELSE counts[q]]]
        /\ bornAt' = kept /\ kept \subseteq Confirmed(counts) /\ stream' = stream
    BY <2>2 DEF HDiscover, Discover, Newest
  <2>4. /\ d \in Sighting /\ trail[stream] \in Seq(Sighting)
        /\ eligible \subseteq Positions
    BY <1>1 DEF EvidenceInv, TypeOK, Candidates, Discovery, Sighting
  <2>5. \A q \in eligible : /\ counts[q] \in Nat /\ counts[q] <= BirthConfirmations
                            /\ SightedIn(new, q, counts[q])
    BY CountsEvidence
  <2>6. \A q \in Positions : counts[q] = 0 \/ q \in eligible
    BY DEF Counts
  <2> HIDE DEF counts, d
  <2>7. new \in Seq(Sighting)
    BY <2>4, Remembered DEF Continues
  <2> HIDE DEF new
  <2>8. trail' \in [Sensors -> Seq(Sighting)] /\ trail'[stream] = new
    BY <1>1, <2>3, <2>7 DEF EvidenceInv
  <2>9. BirthConfirmations \in Nat /\ BirthConfirmations >= 1
    BY BirthAssumption
  <2>10. ASSUME NEW q \in Positions
         PROVE  /\ tentative'[stream][q] < BirthConfirmations
                /\ tentative'[stream][q] > 0 => SightedIn(new, q, tentative'[stream][q])
    <3>1. tentative'[stream][q] = IF q \in Confirmed(counts) THEN 0 ELSE counts[q]
      BY <1>1, <2>3 DEF TypeOK
    <3>2. CASE counts[q] = 0 \/ q \in Confirmed(counts)
      <4>1. tentative'[stream][q] = 0
        BY <3>1, <3>2
      <4> QED BY <2>9, <4>1
    <3>3. CASE counts[q] # 0 /\ q \notin Confirmed(counts)
      <4>1. tentative'[stream][q] = counts[q] /\ q \in eligible
        BY <2>6, <3>1, <3>3
      <4>2. counts[q] \in Nat /\ ~(counts[q] >= BirthConfirmations)
        BY <2>5, <3>3, <4>1 DEF Confirmed
      <4>3. SightedIn(new, q, counts[q])
        BY <2>5, <4>1
      <4> QED BY <2>9, <4>1, <4>2, <4>3
    <3> QED BY <3>2, <3>3
  <2>11. ASSUME NEW k \in Sensors, k # stream, NEW q \in Positions
         PROVE  /\ tentative'[k][q] < BirthConfirmations
                /\ tentative'[k][q] > 0 => SightedIn(trail'[k], q, tentative'[k][q])
    <3>1. tentative'[k][q] = tentative[k][q] /\ trail'[k] = trail[k]
      BY <1>1, <2>3, <2>11 DEF EvidenceInv, TypeOK
    <3> QED BY <3>1 DEF EvidenceInv
  <2>12. ASSUME NEW q \in kept
         PROVE  SightedIn(new, q, BirthConfirmations)
    <3>1. q \in eligible /\ counts[q] >= BirthConfirmations
      BY <2>3 DEF Confirmed
    <3>2. counts[q] = BirthConfirmations
      BY <2>5, <2>9, <3>1
    <3> QED BY <2>5, <3>1, <3>2
  <2> QED BY <1>1, <2>3, <2>8, <2>10, <2>11, <2>12 DEF EvidenceInv
<1> QED BY <1>3, <1>4 DEF HNext

(* A tentative count is worth as many consecutive, strictly later, nearby  *)
(* sightings by its sensor, and nothing is born with fewer than a birth    *)
(* needs.                                                                  *)
THEOREM EvidenceHolds == HSpec => []EvidenceIsConsecutive
<1>1. HInit => EvidenceInv
  <2> SUFFICES ASSUME HInit
               PROVE  EvidenceInv
    OBVIOUS
  <2>1. TypeOK
    BY DEF HInit, Init, TypeOK, EmptyTrack, Track, Modes, NoId, NoEvidence
  <2>2. trail \in [Sensors -> Seq(Sighting)]
    BY DEF HInit
  <2>3. \A k \in Sensors, p \in Positions : tentative[k][p] = 0
    BY DEF HInit, Init, NoEvidence
  <2> QED BY <2>1, <2>2, <2>3, BirthAssumption DEF EvidenceInv, HInit
<1>2. EvidenceInv => EvidenceIsConsecutive
  BY DEF EvidenceInv, EvidenceIsConsecutive, Sighted, SightedIn
<1> QED
  BY <1>1, <1>2, EvidenceStep, PTL DEF HSpec
=============================================================================
