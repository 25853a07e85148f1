--------------------------- MODULE BeliefHistory ---------------------------
(***************************************************************************)
(* BeliefLifecycle with history variables: how long each track has really  *)
(* gone unseen, and which candidates the last discoveries of each sensor   *)
(* really contained.  The properties below compare the counters the code   *)
(* keeps with that history.                                                *)
(***************************************************************************)
EXTENDS BeliefLifecycle, Sequences

VARIABLES
  absence,   \* slot -> how long it has gone unseen
  trail,     \* sensor -> its last discoveries, newest first
  bornAt     \* positions of the candidates the last action gave identifiers

hvars == <<vars, absence, trail, bornAt>>

(* visible: consecutive misses in plain view; total: consecutive misses of *)
(* either kind; matched: the last packet matched it, confidently or not.   *)
(* Counts beyond the limits tell nothing apart and are not kept.           *)
Present == [visible |-> 0, total |-> 0, matched |-> TRUE]

OneMore(n) == Smaller(n + 1, MaxMissedSteps + 1)

HInit ==
  /\ Init
  /\ absence = [s \in Slots |-> Present]
  /\ trail = [k \in Sensors |-> <<>>]
  /\ bornAt = {}

AbsenceAfter(a, e) ==
  IF e.match = "strong" THEN Present
  ELSE [visible |-> IF e.occluded THEN 0 ELSE OneMore(a.visible),
        total |-> OneMore(a.total),
        matched |-> e.match = "weak"]

HPropagate(touching) ==
  Propagate(touching) /\ bornAt' = {} /\ UNCHANGED <<absence, trail>>

HSameTimestamp ==
  SameTimestamp /\ bornAt' = {} /\ UNCHANGED <<absence, trail>>

HUpdateVisibility(k, seen) ==
  /\ UpdateVisibility(k, seen)
  /\ absence' = [s \in Slots |-> IF tracks[s].active
                                 THEN AbsenceAfter(absence[s], seen[s])
                                 ELSE Present]
  /\ bornAt' = {}
  /\ UNCHANGED trail

Discovery(eligible) == [seen |-> eligible, fresh |-> elapsed[stream]]

HDiscover(eligible, m, kept, logits) ==
  /\ Discover(eligible, m, kept, logits)
  /\ trail' = [trail EXCEPT ![stream] =
                LET all == <<Discovery(eligible)>> \o @
                IN  SubSeq(all, 1, Smaller(Len(all), BirthConfirmations))]
  /\ bornAt' = kept
  /\ absence' = [s \in Slots |-> IF tracks[s].active THEN absence[s] ELSE Present]

HFastFrame == FastFrame /\ bornAt' = {} /\ UNCHANGED <<absence, trail>>

HNext ==
  \/ \E touching \in SUBSET Active : HPropagate(touching)
  \/ HSameTimestamp
  \/ \E k \in Sensors, seen \in Frames : HUpdateVisibility(k, seen)
  \/ \E eligible \in Candidates :
       \E m \in OptimalMatchings(Comparable(stream), eligible),
          kept \in SUBSET eligible, logits \in [Free -> Measured] :
         HDiscover(eligible, m, kept, logits)
  \/ HFastFrame

HSpec == HInit /\ [][HNext]_hvars

(* The sensors keep delivering frames, and a frame, once started, ends. *)
HFairSpec == HSpec /\ WF_hvars(HNext)
-----------------------------------------------------------------------------
(* p was a candidate of sensor k's last n discoveries: each within the      *)
(* confirmation distance of the one before and strictly later than it.      *)
Sighted(k, p, n) ==
  /\ n <= Len(trail[k])
  /\ \E chain \in [1 .. n -> Positions] :
       /\ chain[1] = p
       /\ \A i \in 1 .. n : chain[i] \in trail[k][i].seen
       /\ \A i \in 1 .. n - 1 :
            /\ trail[k][i].fresh
            /\ Distance(chain[i], chain[i + 1]) <= BirthConfirmationDistance

(* A tentative count of c means c consecutive, strictly later, nearby       *)
(* sightings by that sensor, and no candidate gets an identifier with fewer *)
(* than birth_confirmations of them (confirm_tentative_births' docstring:   *)
(* "an unobserved candidate cannot accumulate non-consecutive               *)
(* confirmations").  Re-ingesting one timestamp adds no evidence.           *)
EvidenceIsConsecutive ==
  /\ \A k \in Sensors, p \in Positions :
       tentative[k][p] > 0 => Sighted(k, p, tentative[k][p])
  /\ \A p \in bornAt : Sighted(stream, p, BirthConfirmations)

(* A track is only given up for cause: its existence logit fell below the   *)
(* removal threshold, or it has gone unseen for more than max_missed_steps  *)
(* consecutive packets (update_visibility's remove mask).                   *)
NoPrematureRetirement ==
  [][ \A s \in Active : ~tracks'[s].active =>
        \/ tracks'[s].existence < RemovalExistenceLogit
        \/ absence'[s].total > MaxMissedSteps ]_hvars

(* "Deactivate an object when: ... maximum miss duration is exceeded"       *)
(* (PROJECT_SPEC.md:1818-1823): no track outlives max_missed_steps          *)
(* consecutive misses that were all in plain view.                          *)
RetiredOnTime == \A s \in Active : absence[s].visible <= MaxMissedSteps

(* A track no measurement matches any more is eventually given up and its   *)
(* slot freed, although occlusion and mode changes keep restarting its miss *)
(* counter.  (A track matched for ever below the confidence threshold keeps *)
(* its existence logit up and may stay.)                                    *)
EventuallyForgotten ==
  \A s \in Slots : \A i \in 0 .. IdBound - 1 :
    <>[](tracks[s].id = i => ~absence[s].matched) => <>[](tracks[s].id # i)
=============================================================================
