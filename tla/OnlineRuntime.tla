--------------------------- MODULE OnlineRuntime ---------------------------
(***************************************************************************)
(* OnlineWorldModel.ingest (runtime/online_world_model.py) and what it keeps *)
(* beside the belief: one temporal history or modality cache per stream,    *)
(* unconfirmed radii, the observation scheduler's counters, the ingest      *)
(* count, the hypothesis controller, and the prepared propagations its      *)
(* callers hold.  A call takes several timestamp groups; a *)
(* group takes its packets one by one, each changing the side state at      *)
(* once, and only then replaces the belief.  Any packet may raise.          *)
(*                                                                         *)
(* A belief maps each identifier to the physical thing it was given to, so  *)
(* that evidence kept under an identifier can be traced to a thing.  What a *)
(* packet matches, retires and finds is an input; BeliefLifecycle says when. *)
(***************************************************************************)
EXTENDS Naturals, Sequences, FiniteSets, FiniteSetsExt, Functions, HypothesisController

CONSTANTS
  StreamOrder,        \* stream keys in the order _order_group gives them
  Rgbd,               \* streams checked before the call and keeping histories
  Malformed,          \* streams that may deliver a packet validate_packet refuses
  Things, Nothing,
  MaxObjects,         \* slots of the padded belief
  GlobalEvery, FailureThreshold,
  MaxGroups,          \* bound: timestamp groups in one call
  MaxTime,            \* bound: timestamps
  MaxVersions,        \* bound: belief objects created in one behaviour
  MaxTokens,          \* bound: prepared propagations
  MaxDynamics         \* bound: changes of the dynamics' parameters or mode

Streams == {StreamOrder[i] : i \in DOMAIN StreamOrder}

ASSUME RuntimeAssumption ==
  /\ Rgbd \subseteq Streams /\ Malformed \subseteq Streams \ Rgbd
  /\ Nothing \notin Things /\ MaxObjects \in Nat \ {0}
  /\ GlobalEvery \in Nat \ {0} /\ FailureThreshold \in Nat
  /\ {MaxGroups, MaxTime, MaxVersions, MaxTokens, MaxDynamics} \subseteq Nat

VARIABLES
  belief,     \* state.belief, or NoBelief
  histories,  \* state.temporal_histories: stream -> identifier -> evidence
  caches,     \* state.caches: stream -> identifier -> what its ROI features show
  radii,      \* state.radius_confirmations: stream -> identifier -> thing measured
  hypo,       \* the hypothesis controller
  sched,      \* scheduler and last diagnostics of each stream
  revision,   \* state.ingest_count
  tokens,     \* prepared propagations, oldest first
  dynamics,   \* version of the dynamics' parameters and mode
  version,    \* belief objects created so far
  call,       \* the ingest call in progress
  work,       \* the posterior of the group in progress, or NoBelief
  run         \* history: each stream's unbroken run of fast and of lost packets

kept == <<belief, histories, caches, radii, hypo, sched, revision>>
vars == <<kept, tokens, dynamics, version, call, work, run>>

NoBelief == [version |-> 0]
Empty == [i \in {} |-> Nothing]
Times == 0 .. MaxTime

(* groups: not yet opened; queue: streams of the open group; token: index   *)
(* of the prepared propagation passed in, 0 for none; dt: elapsed time no   *)
(* packet has been given yet.                                               *)
Idle == [groups |-> <<>>, queue |-> {}, bad |-> {}, token |-> 0, dt |-> 0]

FreshSchedule == [since |-> 0, failures |-> 0, unmatched |-> FALSE]
NoRun == [fast |-> 0, lost |-> 0]

Each(x) == [k \in Streams |-> x]

Init ==
  /\ belief = NoBelief
  /\ histories = Each(Empty) /\ caches = Each(Empty) /\ radii = Each(Empty)
  /\ hypo = Fresh
  /\ sched = Each(FreshSchedule) /\ revision = 0
  /\ run = Each(NoRun)
  /\ tokens = <<>> /\ dynamics = 0 /\ version = 0
  /\ call = Idle /\ work = NoBelief

Resting == call.groups = <<>> /\ work = NoBelief
Active(b) == DOMAIN b.holds
-----------------------------------------------------------------------------
(* Between calls. *)

ResetKeepingEvidence ==                          \* mutant: only the belief is dropped
  /\ Resting
  /\ belief' = NoBelief /\ revision' = 0
  /\ hypo' = Fresh
  /\ UNCHANGED <<histories, caches, radii, sched, run, tokens, dynamics, version, call, work>>

Reset ==
  /\ Resting
  /\ belief' = NoBelief
  /\ histories' = Each(Empty) /\ caches' = Each(Empty) /\ radii' = Each(Empty)
  /\ hypo' = Fresh
  /\ sched' = Each(FreshSchedule) /\ revision' = 0
  /\ run' = Each(NoRun)
  /\ UNCHANGED <<tokens, dynamics, version, call, work>>

Replaced ==
  /\ Resting /\ belief # NoBelief /\ version < MaxVersions
  /\ version' = version + 1
  /\ belief' = [belief EXCEPT !.version = version + 1]
  /\ UNCHANGED <<histories, caches, radii, sched, revision, tokens, dynamics, call, work, run>>

DetachState == Replaced /\ UNCHANGED hypo

(* The evaluator's recovery probe puts a perturbed belief in its place.     *)
PerturbBelief == Replaced /\ hypo' = Invalidated(hypo)

ChangeDynamics ==
  /\ Resting /\ dynamics < MaxDynamics
  /\ dynamics' = dynamics + 1
  /\ UNCHANGED <<kept, tokens, version, call, work, run>>

Propagated(b, t) == Predicted(b, t, dynamics)

(* What propagating b to t gives: a forecast made for it, or a prediction.  *)
Priors(c, b, t) ==
  IF Reusable(c, b, t, revision, dynamics) # {}
  THEN Reusable(c, b, t, revision, dynamics) ELSE {Propagated(b, t)}

PreparePropagation(t) ==
  /\ Resting /\ belief # NoBelief
  /\ t >= belief.time
  /\ Len(tokens) < MaxTokens
  /\ hypo' = Synchronised(hypo, dynamics)
  /\ \E prior \in Priors(hypo', belief, t) :
       tokens' = Append(tokens,
         [source |-> belief.version, revision |-> revision, dynamics |-> dynamics,
          target |-> t, dt |-> t - belief.time, prior |-> prior, consumed |-> FALSE])
  /\ UNCHANGED <<belief, histories, caches, radii, sched, revision,
                 dynamics, version, call, work, run>>
-----------------------------------------------------------------------------
(* ingest: the call, then each timestamp group in time order. *)

Groups == {g \in [time : Times, streams : (SUBSET Streams) \ {{}},
                   bad : SUBSET Malformed, duplicate : BOOLEAN] : g.bad \subseteq g.streams}

Ingest(groups, token) ==
  /\ Resting
  /\ version + Len(groups) + (IF belief = NoBelief THEN 1 ELSE 0) <= MaxVersions
  /\ token # 0 => Len(groups) = 1
  /\ call' = [Idle EXCEPT !.groups = groups, !.token = token]
  /\ UNCHANGED <<kept, tokens, dynamics, version, work, run>>

InitialBelief(t) ==
  [version |-> version + 1, time |-> t, start |-> t, credited |-> 0,
   holds |-> Empty, nextId |-> 0, dynamics |-> dynamics]

(* A belief is created, and kept, before the checks below can raise.        *)
Current(t) == IF belief = NoBelief THEN InitialBelief(t) ELSE belief

StaleEvidence(k, b, t) ==
  \E i \in Active(b) \cap DOMAIN histories[k] : t <= histories[k][i].last

ValidForBelief(token, b, t) ==                   \* mutant: dynamics not compared
  /\ ~token.consumed
  /\ token.revision = revision
  /\ token.source = b.version
  /\ token.target = t

ValidToken(token, b, t) ==
  /\ ~token.consumed
  /\ token.revision = revision
  /\ token.source = b.version
  /\ token.dynamics = dynamics
  /\ token.target = t

WellFormed(g) == ~g.duplicate /\ (call.token # 0 => belief # NoBelief)

TimelyForHistories(g) ==                         \* mutant: the belief's clock not checked
  \A k \in g.streams \cap Rgbd : ~StaleEvidence(k, Current(g.time), g.time)

Timely(g) ==
  LET b == Current(g.time)
  IN  /\ \A k \in g.streams \cap Rgbd : ~StaleEvidence(k, b, g.time)
      /\ g.time >= b.time

Acceptable(g) ==
  Timely(g) /\ (call.token # 0 => ValidToken(tokens[call.token], Current(g.time), g.time))

Opening == call.groups # <<>> /\ work = NoBelief

Initialise(g) ==
  /\ belief' = Current(g.time)
  /\ version' = IF belief = NoBelief THEN version + 1 ELSE version
  /\ hypo' = LET current == IF belief = NoBelief THEN Fresh ELSE hypo
             IN  IF Timely(g) THEN Synchronised(current, dynamics) ELSE current

OpenGroup ==
  LET g == Head(call.groups)
  IN  /\ Opening
      /\ WellFormed(g) /\ Acceptable(g)
      /\ Initialise(g)
      /\ IF call.token = 0
         THEN /\ work' \in Priors(hypo', belief', g.time)
              /\ UNCHANGED tokens
         ELSE /\ work' = tokens[call.token].prior
              /\ tokens' = [tokens EXCEPT ![call.token].consumed = TRUE]
      /\ call' = [call EXCEPT
           !.queue = g.streams,
           !.bad = g.bad,
           !.dt = IF call.token = 0 THEN g.time - belief'.time ELSE tokens[call.token].dt]
      /\ UNCHANGED <<histories, caches, radii, sched, revision, dynamics, run>>

RejectGroup ==
  LET g == Head(call.groups)
  IN  /\ Opening
      /\ ~(WellFormed(g) /\ Acceptable(g))
      /\ IF WellFormed(g) THEN Initialise(g) ELSE UNCHANGED <<belief, hypo, version>>
      /\ call' = Idle
      /\ UNCHANGED <<histories, caches, radii, sched, revision, tokens, dynamics, work, run>>
-----------------------------------------------------------------------------
(* _ingest_one.  ObservationScheduler.choose: alarmed is an input, whether   *)
(* the last surprise or a position uncertainty is over its threshold, or    *)
(* no track projects into the view.  Failures past the threshold tell       *)
(* nothing apart; the last diagnostics' own failure, counted when nothing   *)
(* matched although nothing was tracked either, only does at threshold one. *)

DiscoversLate(k, b, alarmed) ==                  \* mutant: one FAST frame too many
  \/ Active(b) = {} \/ alarmed
  \/ sched[k].failures >= FailureThreshold
  \/ sched[k].unmatched
  \/ sched[k].since >= GlobalEvery

Discovers(k, b, alarmed) ==
  \/ Active(b) = {} \/ alarmed
  \/ sched[k].failures >= FailureThreshold
  \/ sched[k].unmatched
  \/ sched[k].since >= GlobalEvery - 1

Recorded(k, discovers, lost, unmatched) ==
  [since |-> IF discovers THEN 0 ELSE sched[k].since + 1,
   failures |-> IF lost THEN Min({sched[k].failures + 1, FailureThreshold}) ELSE 0,
   unmatched |-> unmatched /\ FailureThreshold = 1]

(* RGBDTemporalPositionHistory: rows of identifiers that are not active are *)
(* dropped, the others kept under the same identifier.                      *)
Aligned(h, ids) == [i \in ids |-> IF i \in DOMAIN h THEN h[i] ELSE [last |-> 0, shows |-> {}]]

Appended(h, b, seen, added) ==
  [i \in Active(b) |->
    IF i \in added
    THEN [last |-> b.time,
          shows |-> Aligned(h, Active(b))[i].shows
                      \cup (IF i \in seen THEN {b.holds[i]} ELSE {})]
    ELSE Aligned(h, Active(b))[i]]

Retained(b, retired) == [b EXCEPT !.holds = [i \in Active(b) \ retired |-> b.holds[i]]]

WithBirthUncounted(b, thing) ==                  \* mutant: counter not advanced
  IF thing = Nothing THEN b
  ELSE [b EXCEPT !.holds = [i \in Active(b) \cup {b.nextId} |->
                             IF i = b.nextId THEN thing ELSE b.holds[i]]]

WithBirth(b, thing) ==
  IF thing = Nothing THEN b
  ELSE [b EXCEPT !.holds = [i \in Active(b) \cup {b.nextId} |->
                             IF i = b.nextId THEN thing ELSE b.holds[i]],
                 !.nextId = @ + 1]

History(k, corrected, retained, final, seen) ==
  LET updated == Appended(histories[k], corrected, seen, Active(corrected))
      born == Active(final) \ Active(retained)
  IN  IF born = {} THEN updated ELSE Appended(updated, final, born, born)

(* The features of a cache for these very identifiers are carried on.      *)
Cache(k, discovers, corrected, final) ==
  IF discovers \/ Active(corrected) # Active(final) THEN Empty
  ELSE [i \in Active(corrected) |->
         {corrected.holds[i]}
           \cup (IF DOMAIN caches[k] = Active(corrected) THEN caches[k][i] ELSE {})]

Extended(k, discovers, lost) ==
  [fast |-> IF discovers THEN 0 ELSE run[k].fast + 1,
   lost |-> IF lost THEN Min({run[k].lost + 1, FailureThreshold}) ELSE 0]

(* A group's packets are taken in the order of their streams.               *)
First(queue) == StreamOrder[Min({i \in DOMAIN StreamOrder : StreamOrder[i] \in queue})]

(* Only the first packet of a group is given the elapsed time.             *)
AfterPacketSameInterval(c) ==                    \* mutant: every packet is
  [c EXCEPT !.queue = @ \ {First(@)}]

AfterPacket(c) == [c EXCEPT !.queue = @ \ {First(@)}, !.dt = 0]

(* _confirm_observed_radii: a measured radius that departs from the track's *)
(* waits for the stream's next packet, which confirms it or replaces it.    *)
Unconfirmed(b, odd) == [i \in odd |-> b.holds[i]]

IngestOne(k, seen, retired, thing, alarmed, odd) ==
  LET discovers == Discovers(k, work, alarmed)
      corrected == [work EXCEPT !.credited = @ + call.dt]
      retained == Retained(corrected, retired)
      final == WithBirth(retained, thing)
      lost == Active(work) # {} /\ seen = {}
  IN  /\ work # NoBelief /\ call.queue # {} /\ k = First(call.queue)
      /\ k \notin call.bad
      /\ odd # {} => k \in Rgbd
      /\ thing # Nothing => discovers /\ Cardinality(Active(retained)) < MaxObjects
      /\ work' = final
      /\ call' = AfterPacket(call)
      /\ histories' = IF k \in Rgbd
                      THEN [histories EXCEPT ![k] = History(k, corrected, retained, final, seen)]
                      ELSE histories
      /\ caches' = IF k \in Rgbd THEN caches
                   ELSE [caches EXCEPT ![k] = Cache(k, discovers, corrected, final)]
      /\ radii' = IF k \in Rgbd THEN [radii EXCEPT ![k] = Unconfirmed(corrected, odd)]
                  ELSE radii
      /\ hypo' = IF k \in Rgbd THEN hypo ELSE Assimilated(hypo, work, seen)
      /\ sched' = [sched EXCEPT ![k] = Recorded(k, discovers, lost, seen = {})]
      /\ run' = [run EXCEPT ![k] = Extended(k, discovers, lost)]
      /\ UNCHANGED <<belief, revision, tokens, dynamics, version>>

(* A packet of a stream that was not checked before the call raises here,   *)
(* after its predecessors in the group have left their marks.               *)
PacketRaises ==
  /\ work # NoBelief /\ call.queue # {} /\ First(call.queue) \in call.bad
  /\ work' = NoBelief
  /\ call' = Idle
  /\ UNCHANGED <<kept, tokens, dynamics, version, run>>

Commit ==
  /\ work # NoBelief /\ call.queue = {}
  /\ version' = version + 1
  /\ belief' = [work EXCEPT !.version = version + 1]
  /\ revision' = revision + 1
  /\ work' = NoBelief
  /\ call' = IF Len(call.groups) = 1 THEN Idle
             ELSE [call EXCEPT !.groups = Tail(@), !.token = 0]
  /\ hypo' = Scheduled(hypo, belief', revision', dynamics)
  /\ UNCHANGED <<histories, caches, radii, sched, tokens, dynamics, run>>
-----------------------------------------------------------------------------
(* A packet matches some tracks, retires some and finds at most one thing. *)
Packet ==
  /\ work # NoBelief /\ call.queue # {}
  /\ \E seen \in SUBSET Active(work) : \E retired \in SUBSET Active(work), odd \in SUBSET seen,
        thing \in Things \cup {Nothing}, alarmed \in BOOLEAN :
       IngestOne(First(call.queue), seen, retired, thing, alarmed, odd)

GroupLists == {g \in UNION {[1 .. n -> Groups] : n \in 1 .. MaxGroups} :
                 \A i, j \in DOMAIN g : i < j => g[i].time < g[j].time}

Next ==
  \/ Reset \/ DetachState \/ PerturbBelief \/ ChangeDynamics
  \/ \E t \in Times : PreparePropagation(t)
  \/ \E groups \in GroupLists : \E token \in 0 .. Len(tokens) : Ingest(groups, token)
  \/ OpenGroup \/ RejectGroup
  \/ Packet \/ PacketRaises
  \/ Commit

Spec == Init /\ [][Next]_vars
-----------------------------------------------------------------------------
IsBelief(b) ==
  \/ b = NoBelief
  \/ /\ b.version \in 1 .. MaxVersions /\ b.dynamics \in 0 .. MaxDynamics
     /\ b.time \in Times /\ b.start \in Times
     /\ DOMAIN b.holds \subseteq 0 .. b.nextId - 1 /\ Range(b.holds) \subseteq Things
     /\ Cardinality(DOMAIN b.holds) <= MaxObjects

(* The state is well typed, and no belief holds more than it has slots.     *)
TypeOK ==
  /\ IsBelief(belief) /\ IsBelief(work)
  /\ version \in 0 .. MaxVersions /\ dynamics \in 0 .. MaxDynamics /\ revision \in Nat
  /\ \A k \in Streams : Range(histories[k]) \subseteq [last : Times, shows : SUBSET Things]
  /\ \A i \in DOMAIN tokens : IsBelief(tokens[i].prior) /\ tokens[i].target \in Times
  /\ call.token \in 0 .. Len(tokens)

(* The belief's episode is one line: its clock and its identifier counter   *)
(* never go back, and an identifier keeps denoting what it was given to,    *)
(* whatever prepared propagation is passed, in whatever order.              *)
BeliefNeverForks ==
  [][ belief # NoBelief /\ belief' # NoBelief =>
        /\ belief'.time >= belief.time
        /\ belief'.nextId >= belief.nextId
        /\ \A i \in Active(belief') :
             IF i < belief.nextId THEN i \in Active(belief) /\ belief'.holds[i] = belief.holds[i]
             ELSE i < belief'.nextId ]_vars

(* Elapsed time is evidence exactly once, however many packets a group has, *)
(* and whether its propagation was prepared or not ("Elapsed-time evidence  *)
(* belongs to the first assimilation only").                                *)
ElapsedCountedOnce == belief # NoBelief => belief.credited = belief.time - belief.start

(* What a group starts from is the current belief propagated by the current *)
(* dynamics to the group's time, whether it was predicted now, prepared     *)
(* before, or forecast after the last commit and reused.                    *)
PriorIsPredicted ==
  [][ work = NoBelief /\ work' # NoBelief =>
        work' = Propagated(belief', Head(call.groups).time) ]_vars

(* While a group is assimilated, everything the hypothesis controller       *)
(* remembers was predicted, and scored, under the dynamics in force.        *)
EvidenceIsCurrent ==
  work # NoBelief =>
    /\ \A f \in hypo.pending : f.dynamics = dynamics
    /\ \A e \in Evidence(hypo) : e.dynamics = dynamics

(* Whatever slots were given to since, a forecast is compared only with     *)
(* what it was a forecast of, and for an identifier still held with what it *)
(* denotes ("A slot reused by lifecycle birth is never evidence about an    *)
(* older candidate trajectory"); and an identifier leaves the no-evidence   *)
(* fallback at a horizon only by a comparison of its own there, not because *)
(* its slot's last holder or the scene had one.  What else its weights rest *)
(* on came with the prior: comparisons that the joint weights rest on, and  *)
(* none where no prior is shared.                                           *)
HypothesesBelong ==
  belief # NoBelief =>
    /\ \A e \in Evidence(hypo) :
         e.of = e.at /\ (e.under \in Active(belief) => e.of = belief.holds[e.under])
    /\ \A h \in Horizons : \A i \in Active(belief) :
         /\ Weights(hypo, h, i) # {} => \E e \in Weights(hypo, h, i) : e.under = i
         /\ \A e \in Weights(hypo, h, i) :
              e.under = i \/ (SharesPrior /\ e \in hypo.pools[h].joint)

(* What is kept under an identifier shows the thing the identifier denotes: *)
(* histories, caches and radii are aligned by identifier alone.             *)
EvidenceBelongs ==
  Resting /\ belief # NoBelief => \A k \in Streams : \A i \in Active(belief) :
    /\ i \in DOMAIN histories[k] => histories[k][i].shows \subseteq {belief.holds[i]}
    /\ i \in DOMAIN caches[k] => caches[k][i] \subseteq {belief.holds[i]}
    /\ i \in DOMAIN radii[k] => radii[k][i] = belief.holds[i]

(* Of any GlobalEvery packets a stream gets in a row one is a discovery, and *)
(* so is the one after FailureThreshold packets that lost every track,       *)
(* whatever calls raise in between.                                          *)
Cadence ==
  [][ \A k \in Streams : run'[k].fast > run[k].fast =>
        run'[k].fast < GlobalEvery /\ run[k].lost < FailureThreshold ]_vars

(* To whoever keeps something under its identifiers, the belief is a        *)
(* registry that only a reset starts over, whatever a group's packets did   *)
(* in between and whichever propagation it started from.                    *)
Registry == INSTANCE ObjectRegistry WITH
  Capacity <- MaxObjects,
  bearer <- IF belief = NoBelief THEN Empty ELSE belief.holds,
  next <- IF belief = NoBelief THEN 0 ELSE belief.nextId

IsRegistry == Registry!Spec
=============================================================================
