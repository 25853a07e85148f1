-------------------------- MODULE BeliefLifecycle --------------------------
(***************************************************************************)
(* The life of the object slots of one belief (belief/lifecycle.py) under  *)
(* the runtime's frame loop: dynamics propagates the slots and rewrites    *)
(* their motion mode, the lifecycle accounts for what was seen and missed, *)
(* and a discovery frame confirms tentative detections and allocates       *)
(* permanent identifiers to them.                                          *)
(*                                                                         *)
(* One batch element.  Logits are integers in a unit of the cfg's choice;  *)
(* a world position is a point on a line.  Which slots a frame matches,    *)
(* which are occluded and which candidates it finds are inputs.            *)
(***************************************************************************)
EXTENDS Integers, FiniteSets, Functions

CONSTANTS
  MaxObjects,               \* slots of the padded belief
  Sensors,                  \* streams whose tentative evidence is kept apart
  MaxMissedSteps, MaxOccludedSteps,
  ObservedExistenceDelta,
  ExistenceDecay,           \* -missed_existence_delta
  OcclusionExistenceDecay,  \* -occluded_existence_delta
  RemovalExistenceLogit,
  ObservedVisibilityDelta,
  MissedVisibilityDecay,    \* -missed_visibility_delta
  DynamicsModel,            \* "event" or "free_motion"
  FreeModeLogit, ContactModeLogit,   \* mode scores of the event model
  MeasuresVisibility,       \* does a measurement replace the visibility logit?
  Measured,                 \* logits a measurement can carry
  BirthConfirmations, BirthConfirmationDistance,
  Positions,                \* where an unmatched candidate can be
  MaxCandidates,            \* bound: candidates in one discovery
  LogitBound,               \* bound: logits stay in -LogitBound .. LogitBound
  IdBound                   \* bound: identifiers handed out

ASSUME CapacityAssumption ==
  /\ MaxObjects \in Nat \ {0}
  /\ MaxCandidates \in Nat
  /\ IdBound \in Nat

ASSUME RetentionAssumption ==   \* ObjectLifecycle.__init__
  /\ MaxMissedSteps \in Nat \ {0}
  /\ MaxOccludedSteps \in Nat /\ MaxOccludedSteps >= MaxMissedSteps
  /\ {ObservedExistenceDelta, RemovalExistenceLogit, ObservedVisibilityDelta,
      MissedVisibilityDecay, FreeModeLogit, ContactModeLogit, LogitBound,
      ExistenceDecay, OcclusionExistenceDecay} \subseteq Int
  /\ ExistenceDecay >= OcclusionExistenceDecay
  /\ OcclusionExistenceDecay >= 0
  /\ DynamicsModel \in {"event", "free_motion"}
  /\ MeasuresVisibility \in BOOLEAN
  /\ Measured \subseteq Int

ASSUME BirthAssumption ==
  /\ BirthConfirmations \in Nat \ {0}
  /\ BirthConfirmationDistance \in Nat
  /\ Positions \subseteq Int /\ IsFiniteSet(Positions)

VARIABLES
  tracks,     \* slot -> its lifecycle fields
  nextId,     \* belief.next_object_id
  tentative,  \* sensor -> position -> confirmation count (0: not tentative)
  elapsed,    \* sensor -> has time advanced since its last discovery?
  phase,      \* "posterior" -> "prior" -> "seen" -> "posterior"
  stream      \* the sensor whose packet is being ingested

vars == <<tracks, nextId, tentative, elapsed, phase, stream>>

Slots == 1 .. MaxObjects
Modes == {"FREE", "CONTACT", "OCCLUDED", "CREATED", "REMOVED"}
NoId == -1

Track == [active: BOOLEAN, id: Int, existence: Int, visibility: Int,
          missed: Nat, mode: Modes]

EmptyTrack == [active |-> FALSE, id |-> NoId, existence |-> 0,
               visibility |-> 0, missed |-> 0, mode |-> "FREE"]

Active == {s \in Slots : tracks[s].active}
Free == Slots \ Active
NoEvidence == [p \in Positions |-> 0]

Init ==
  /\ tracks = [s \in Slots |-> EmptyTrack]
  /\ nextId = 0
  /\ tentative = [k \in Sensors |-> NoEvidence]
  /\ elapsed = [k \in Sensors |-> TRUE]
  /\ phase = "posterior"
  /\ stream \in Sensors
-----------------------------------------------------------------------------
(* Propagation.  A positive interval overwrites the motion mode of every   *)
(* active slot; a zero interval (a second packet of one timestamp) does    *)
(* not.  touching is the set of slots the resolver finds in contact.       *)

EventMode(t, touches) ==
  LET score == IF touches THEN ContactModeLogit ELSE FreeModeLogit
  IN  IF -t.visibility > score THEN "OCCLUDED"
      ELSE IF touches THEN "CONTACT" ELSE "FREE"

PropagatedMode(t, touches) ==
  IF DynamicsModel = "free_motion" THEN "FREE" ELSE EventMode(t, touches)

Propagate(touching) ==
  /\ phase = "posterior"
  /\ tracks' = [s \in Slots |->
                 IF tracks[s].active
                 THEN [tracks[s] EXCEPT
                        !.mode = PropagatedMode(tracks[s], s \in touching)]
                 ELSE tracks[s]]
  /\ elapsed' = [k \in Sensors |-> TRUE]
  /\ phase' = "prior"
  /\ UNCHANGED <<nextId, tentative, stream>>

SameTimestamp ==
  /\ phase = "posterior"
  /\ phase' = "prior"
  /\ UNCHANGED <<tracks, nextId, tentative, elapsed, stream>>
-----------------------------------------------------------------------------
(* Correction and visibility accounting.  A match raises the existence     *)
(* logit to the measured one and may replace the visibility logit, whether *)
(* or not it is confident enough to count as an observation.               *)

Evidence == [match : {"none", "weak", "strong"}, logit : Measured,
             occluded : BOOLEAN]

Corrected(t, e) ==
  IF e.match = "none" THEN t
  ELSE [t EXCEPT !.existence = IF e.logit > @ THEN e.logit ELSE @,
                 !.visibility = IF MeasuresVisibility THEN e.logit ELSE @]

MissedSteps(t, observed, occluded) ==
  CASE observed -> 0
    [] ~observed /\ occluded # (t.mode = "OCCLUDED") -> 1
    [] OTHER -> t.missed + 1

ExistenceDeltaNoDecay(observed, occluded) ==     \* mutant: a miss costs nothing
  IF observed THEN ObservedExistenceDelta ELSE 0

ExistenceDelta(observed, occluded) ==
  CASE observed -> ObservedExistenceDelta
    [] ~observed /\ occluded -> -OcclusionExistenceDecay
    [] OTHER -> -ExistenceDecay

Accounted(t, observed, occluded) ==
  [t EXCEPT
    !.missed = MissedSteps(t, observed, occluded),
    !.existence = @ + ExistenceDelta(observed, occluded),
    !.visibility = @ + (IF observed THEN ObservedVisibilityDelta
                                    ELSE -MissedVisibilityDecay),
    !.mode = CASE ~observed /\ occluded -> "OCCLUDED"
               [] t.mode = "OCCLUDED" /\ (observed \/ ~occluded) -> "FREE"
               [] OTHER -> @]

(* The removal test, on the accounted fields. *)
ExpiredEarly(t, observed, occluded) ==           \* mutant: >= for >
  \/ ~observed /\ ~occluded /\ t.missed >= MaxMissedSteps
  \/ ~observed /\ occluded /\ t.missed > MaxOccludedSteps
  \/ t.existence < RemovalExistenceLogit

Expired(t, observed, occluded) ==
  \/ ~observed /\ ~occluded /\ t.missed > MaxMissedSteps
  \/ ~observed /\ occluded /\ t.missed > MaxOccludedSteps
  \/ t.existence < RemovalExistenceLogit

(* No operation reads the other fields of a free slot: a birth overwrites  *)
(* every one of them, so only the logit that decided is kept.               *)
RemovedKeepsId(t) ==                             \* mutant: object_id not reset
  [EmptyTrack EXCEPT !.id = t.id, !.existence = t.existence, !.mode = "REMOVED"]

Removed(t) == [EmptyTrack EXCEPT !.existence = t.existence, !.mode = "REMOVED"]

Updated(t, e) ==
  LET observed == e.match = "strong"
      after == Accounted(Corrected(t, e), observed, e.occluded)
  IN  IF ~t.active THEN t
      ELSE IF Expired(after, observed, e.occluded) THEN Removed(after)
      ELSE after

InBounds(t) ==
  /\ t.existence \in -LogitBound .. LogitBound
  /\ t.visibility \in -LogitBound .. LogitBound

UpdateVisibility(k, seen) ==
  /\ phase = "prior"
  /\ tracks' = [s \in Slots |-> Updated(tracks[s], seen[s])]
  /\ \A s \in Slots : InBounds(tracks'[s])
  /\ stream' = k
  /\ phase' = "seen"
  /\ UNCHANGED <<nextId, tentative, elapsed>>
-----------------------------------------------------------------------------
(* Tentative confirmation: minimum-cost assignment of the sensor's previous *)
(* candidates to this frame's, admissible within the confirmation distance  *)
(* and only if time has advanced.  An inadmissible pair costs more than any *)
(* set of admissible ones, so cardinality comes before total distance.      *)

Distance(p, q) == IF p < q THEN q - p ELSE p - q

Matchings(old, new) ==
  {m \in UNION {[d -> new] : d \in SUBSET old} :
     /\ \A p, q \in DOMAIN m : m[p] = m[q] => p = q
     /\ \A p \in DOMAIN m : Distance(p, m[p]) <= BirthConfirmationDistance}

Cost(m) == SumFunction([p \in DOMAIN m |-> Distance(p, m[p])])

Cheaper(m, n) ==
  \/ Cardinality(DOMAIN m) > Cardinality(DOMAIN n)
  \/ /\ Cardinality(DOMAIN m) = Cardinality(DOMAIN n)
     /\ Cost(m) <= Cost(n)

OptimalMatchings(old, new) ==
  LET all == Matchings(old, new)
  IN  {m \in all : \A n \in all : Cheaper(m, n)}

ComparableAnyTime(k) ==                          \* mutant: no elapsed-time test
  IF BirthConfirmations > 1 THEN {p \in Positions : tentative[k][p] > 0} ELSE {}

Comparable(k) ==
  IF elapsed[k] /\ BirthConfirmations > 1
  THEN {p \in Positions : tentative[k][p] > 0} ELSE {}

Counts(k, eligible, m) ==
  [q \in Positions |->
    IF q \notin eligible THEN 0
    ELSE IF \E p \in DOMAIN m : m[p] = q
         THEN 1 + tentative[k][CHOOSE p \in DOMAIN m : m[p] = q]
         ELSE 1]

Confirmed(counts) == {q \in Positions : counts[q] >= BirthConfirmations}

(* Allocation: the strongest confirmed candidates take the free slots in   *)
(* index order, each with the next identifier; the rest are dropped.       *)

FreeRank(s) == Cardinality({r \in Free : r <= s})

Allocated(n) == {s \in Free : FreeRank(s) <= n}

BornRecycled(i, logit) ==                        \* mutant: numbered by the active count
  [active |-> TRUE, id |-> Cardinality(Active), existence |-> logit, visibility |-> logit,
   missed |-> 0, mode |-> "CREATED"]

Born(i, logit) ==
  [active |-> TRUE, id |-> i, existence |-> logit, visibility |-> logit,
   missed |-> 0, mode |-> "CREATED"]

Smaller(a, b) == IF a < b THEN a ELSE b

Discover(eligible, m, kept, logits) ==
  LET counts == Counts(stream, eligible, m)
      confirmed == Confirmed(counts)
      n == Cardinality(kept)
  IN  /\ phase = "seen"
      /\ kept \subseteq confirmed
      /\ n = Smaller(Cardinality(Free), Cardinality(confirmed))
      /\ nextId + n <= IdBound
      /\ tracks' = [s \in Slots |->
                     IF s \in Allocated(n)
                     THEN Born(nextId + FreeRank(s) - 1, logits[s])
                     ELSE tracks[s]]
      /\ nextId' = nextId + n
      /\ tentative' = [tentative EXCEPT ![stream] =
                        [q \in Positions |->
                          IF q \in confirmed THEN 0 ELSE counts[q]]]
      /\ elapsed' = [elapsed EXCEPT ![stream] = FALSE]
      /\ phase' = "posterior"
      /\ UNCHANGED stream

(* A frame the scheduler served from regions of interest: no births.       *)
FastFrame ==
  /\ phase = "seen"
  /\ phase' = "posterior"
  /\ UNCHANGED <<tracks, nextId, tentative, elapsed, stream>>
-----------------------------------------------------------------------------
(* Inputs of a frame. *)

Frames == {f \in [Slots -> Evidence] :
             \A s \in Slots : tracks[s].active \/ f[s].match = "none"}

Candidates == {c \in SUBSET Positions : Cardinality(c) <= MaxCandidates}

Next ==
  \/ \E touching \in SUBSET Active : Propagate(touching)
  \/ SameTimestamp
  \/ \E k \in Sensors, seen \in Frames : UpdateVisibility(k, seen)
  \/ \E eligible \in Candidates :
       \E m \in OptimalMatchings(Comparable(stream), eligible),
          kept \in SUBSET eligible, logits \in [Free -> Measured] :
         Discover(eligible, m, kept, logits)
  \/ FastFrame

Spec == Init /\ [][Next]_vars
-----------------------------------------------------------------------------
(* The state is well typed; in particular no miss counter goes negative.   *)
TypeOK ==
  /\ tracks \in [Slots -> Track]
  /\ nextId \in Nat
  /\ tentative \in [Sensors -> [Positions -> Nat]]
  /\ elapsed \in [Sensors -> BOOLEAN]
  /\ phase \in {"posterior", "prior", "seen"}
  /\ stream \in Sensors

(* Identity (belief/validation.py, lifecycle.py): an identifier is held by *)
(* exactly one active slot, a free slot holds none, and every identifier   *)
(* handed out lies below the counter, whatever order of removals, births   *)
(* and packets produced the belief.                                        *)
Identity ==
  /\ \A s \in Slots : IF s \in Active THEN tracks[s].id \in 0 .. nextId - 1
                                      ELSE tracks[s].id = NoId
  /\ \A r, s \in Active : tracks[r].id = tracks[s].id => r = s

(* No identifier is recycled (PROJECT_SPEC.md, 20.5): a slot only ever      *)
(* gains an identifier the counter had not reached before, and the counter  *)
(* passes it in the same step.                                              *)
IdentifiersAreFresh ==
  [][ /\ nextId' >= nextId
      /\ \A s \in Slots :
           tracks'[s].id # tracks[s].id /\ tracks'[s].id # NoId =>
             /\ tracks[s].id = NoId
             /\ tracks'[s].id \in nextId .. nextId' - 1 ]_vars

(* Seen from outside, the slots are a registry of one episode: whatever is *)
(* removed, born or skipped, an identifier that is held keeps its slot and *)
(* one that was let go never comes back.                                   *)
Bearer == [i \in {tracks[s].id : s \in Active} |-> CHOOSE s \in Active : tracks[s].id = i]

Registry == INSTANCE ObjectRegistry WITH Capacity <- MaxObjects, bearer <- Bearer, next <- nextId

IsRegistry == Registry!Episode
=============================================================================
